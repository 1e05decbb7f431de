--------------------------- MODULE MC_NodeLocks ---------------------------
EXTENDS NodeLocks, TLC

CONSTANTS t1, t2, t3, f1, f2

MC_Threads == {t1, t2, t3}
MC_TwoThreads == {t1, t2}
MC_Forks == {f1, f2}
MC_Symmetry == Permutations(MC_Threads)
MC_TwoSymmetry == Permutations(MC_TwoThreads)

(* Every handler. *)
MC_AllCalls == AllCalls
(* The estimate_fee / trace_call pair and a writer. *)
MC_LockOrderCalls == {"estimate_fee", "trace_call", "get_bytecode_by_hash"}
(* Every handler but estimate_fee, whose lock order is checked apart. *)
MC_ProgressCalls == AllCalls \ {"estimate_fee"}
(* A fork-fallback reader and a writer. *)
MC_FetchCalls == {"get_raw_block_transactions", "anvil_write"}
(* trace_call memoizing a slot under the fork lock, and a fork reader. *)
MC_PoisonCalls == {"trace_call", "get_raw_block_transactions"}
(* get_all_account_balances racing a fork switch. *)
MC_BalanceCalls == {"get_all_account_balances", "set_rpc_url"}
=============================================================================
