----------------------------- MODULE NodeLocks -----------------------------
(***************************************************************************)
(* The locks the RPC handlers of zks.rs and debug.rs take, and the order  *)
(* they take them in.  Three locks:                                        *)
(*   "inner"  the std::sync::RwLock around InMemoryNodeInner               *)
(*            (read_inner / write_inner / get_inner().write());            *)
(*   "time"   the time manager (self.time.lock(), and the read that        *)
(*            create_l1_batch_env makes through &self.time);               *)
(*   "fork"   the RwLock fork_storage.inner, read with .expect(..).        *)
(* A thread runs one handler call at a time; each step is one lock         *)
(* acquisition, one remote fetch, or the code between them.  The data the *)
(* handlers return is abstracted (Readers.tla models it); what is kept is *)
(* which fork a remote answer comes from.                                  *)
(***************************************************************************)
EXTENDS Naturals, FiniteSets

CONSTANTS
    Threads,            \* tokio worker threads serving RPC calls
    Calls,              \* the handlers the callers may invoke
    Forks,              \* remote sources set_rpc_url / reset_network may select
    NoFork,             \* no remote source configured
    WriterPreferring,   \* the RwLock blocks new readers while a writer waits
    MaxFaults           \* bound on writers crashing while holding a guard

AllCalls == {"estimate_fee", "trace_call", "get_raw_block_transactions",
             "get_block_details", "get_transaction_details",
             "get_bridge_contracts", "get_confirmed_tokens",
             "get_all_account_balances", "get_bytecode_by_hash",
             "set_rpc_url", "anvil_write"}

ASSUME LocksAssumption ==
    /\ Calls \subseteq AllCalls
    /\ NoFork \notin Forks
    /\ WriterPreferring \in BOOLEAN
    /\ MaxFaults \in Nat

VARIABLES
    pc,         \* pc[t]: where thread t is in its current call
    call,       \* call[t]: the handler t runs (or last ran)
    held,       \* held[t][l]: the guard t holds on lock l
    poisoned,   \* locks whose holder panicked while holding a write guard
    fork,       \* the configured remote source
    fetchFork,  \* fetchFork[t]: the source of t's remote read
    tokFork,    \* tokFork[t]: the source get_all_account_balances took its tokens from
    outcome,    \* outcome[t]: how t's last call ended
    faults      \* number of writer crashes so far

lvars == <<pc, call, held, poisoned, fork, fetchFork, tokFork, outcome, faults>>

Locks == {"inner", "time", "fork"}
Modes == {"none", "r", "w"}
Outcomes == {"none", "Ok", "None", "Error", "Panic", "Crashed"}

(* The lock and mode a thread waits for at each acquiring step.           *)
Acquires ==
    [ef_time  |-> <<"time", "w">>,  ef_inner  |-> <<"inner", "r">>,
     tc_inner |-> <<"inner", "r">>, tc_time   |-> <<"time", "r">>,
     tc_vm    |-> <<"fork", "w">>,
     fr_inner |-> <<"inner", "r">>, fr_fork   |-> <<"fork", "r">>,
     bc_inner |-> <<"inner", "w">>, bc_fork   |-> <<"fork", "r">>,
     bal_inner |-> <<"inner", "w">>, bal_read |-> <<"fork", "w">>,
     sw_inner |-> <<"inner", "w">>, sw_fork   |-> <<"fork", "w">>,
     aw_inner |-> <<"inner", "w">>]

(* The steps at which a thread waits for the remote source.               *)
Fetching == {"fetch", "bal_fetch", "tc_mem"}

PCs == {"idle", "ef_run", "bc_load", "sw_set", "aw_run"} \cup Fetching
       \cup DOMAIN Acquires

WritersOf(l) == {t \in Threads : held[t][l] = "w"}
ReadersOf(l) == {t \in Threads : held[t][l] = "r"}
WaitingWriters(l) ==
    {t \in Threads : pc[t] \in DOMAIN Acquires /\ Acquires[pc[t]] = <<l, "w">>}

(* Mutant: a reader-preferring lock, where new readers ignore waiting     *)
(* writers.                                                               *)
CanReadIgnoringWriters(l) == WritersOf(l) = {}

(* std::sync::RwLock: a write guard excludes every other guard; a read   *)
(* guard waits for the writer and, on Linux (futex), for waiting writers. *)
CanRead(l) ==
    /\ WritersOf(l) = {}
    /\ WriterPreferring => WaitingWriters(l) = {}
CanWrite(l) == WritersOf(l) = {} /\ ReadersOf(l) = {}
CanTake(lm) == IF lm[2] = "r" THEN CanRead(lm[1]) ELSE CanWrite(lm[1])

(* Thread t waits at an acquiring step for a guard it cannot take.        *)
Blocked(t) == pc[t] \in DOMAIN Acquires /\ ~CanTake(Acquires[pc[t]])

NoGuards == [l \in Locks |-> "none"]

Init ==
    /\ pc = [t \in Threads |-> "idle"]
    /\ call = [t \in Threads |-> "none"]
    /\ held = [t \in Threads |-> NoGuards]
    /\ poisoned = {}
    /\ \E f \in Forks \cup {NoFork} : fork = f
    /\ fetchFork = [t \in Threads |-> NoFork]
    /\ tokFork = [t \in Threads |-> NoFork]
    /\ outcome = [t \in Threads |-> "none"]
    /\ faults = 0

-----------------------------------------------------------------------------
(* Step helpers.  Goto moves t on; Take also takes the guard t waits for. *)
Goto(t, p) == pc' = [pc EXCEPT ![t] = p]

Take(t, p) ==
    /\ CanTake(Acquires[pc[t]])
    /\ held' = [held EXCEPT ![t][Acquires[pc[t]][1]] = Acquires[pc[t]][2]]
    /\ Goto(t, p)

(* The call returns: every guard it holds is dropped.  A panic (unwind)   *)
(* poisons each lock it held a write guard on.                            *)
Finish(t, out) ==
    /\ pc' = [pc EXCEPT ![t] = "idle"]
    /\ held' = [held EXCEPT ![t] = NoGuards]
    /\ outcome' = [outcome EXCEPT ![t] = out]
    /\ poisoned' = IF out \in {"Panic", "Crashed"}
                   THEN poisoned \cup {l \in Locks : held[t][l] = "w"}
                   ELSE poisoned

(* An acquisition of a poisoned std lock returns Err(PoisonError): the    *)
(* `?` of read_inner()/write_inner() turns it into an error return.       *)
TakeOrFail(t, p) ==
    IF Acquires[pc[t]][1] \in poisoned
    THEN /\ CanTake(Acquires[pc[t]])
         /\ Finish(t, "Error")
         /\ UNCHANGED <<fork, fetchFork, tokFork, faults, call>>
    ELSE /\ Take(t, p)
         /\ UNCHANGED <<poisoned, fork, fetchFork, tokFork, outcome, faults, call>>

Start(t, c) ==
    /\ pc[t] = "idle"
    /\ c \in Calls
    /\ call' = [call EXCEPT ![t] = c]
    /\ pc' = [pc EXCEPT ![t] =
                IF c = "estimate_fee" THEN "ef_time"
                ELSE IF c = "trace_call" THEN "tc_inner"
                ELSE IF c = "get_bytecode_by_hash" THEN "bc_inner"
                ELSE IF c = "set_rpc_url" THEN "sw_inner"
                ELSE IF c = "anvil_write" THEN "aw_inner"
                ELSE "fr_inner"]
    /\ fetchFork' = [fetchFork EXCEPT ![t] = NoFork]
    /\ tokFork' = [tokFork EXCEPT ![t] = NoFork]
    /\ UNCHANGED <<held, poisoned, fork, outcome, faults>>

-----------------------------------------------------------------------------
(* estimate_fee_impl: self.time.lock() (no Result: it cannot fail), then *)
(* read_inner() while the time guard is held; both guards live until the  *)
(* estimate returns.                                                      *)
EstimateFee(t) ==
    \/ /\ pc[t] = "ef_time"
       /\ Take(t, "ef_inner")
       /\ UNCHANGED <<poisoned, fork, fetchFork, tokFork, outcome, faults, call>>
    \/ pc[t] = "ef_inner" /\ TakeOrFail(t, "ef_run")
    \/ /\ pc[t] = "ef_run"
       /\ \E ok \in BOOLEAN : Finish(t, IF ok THEN "Ok" ELSE "Error")
       /\ UNCHANGED <<fork, fetchFork, tokFork, faults, call>>

(***************************************************************************)
(* trace_call_impl: read_inner() held for the whole call; the block and   *)
(* request checks may return early; create_l1_batch_env reads the time    *)
(* manager through &self.time while the inner guard is held; the VM runs  *)
(* over a StorageView of the fork storage: a slot missing locally is     *)
(* fetched from the fork and memoized under the fork storage's write lock *)
(* (spec 4.1), all with the inner read guard held; then                   *)
(* create_debug_output may fail.                                          *)
(***************************************************************************)
TraceCall(t) ==
    \/ /\ pc[t] = "tc_inner"
       /\ \/ TakeOrFail(t, "tc_time")
          \/ /\ ~("inner" \in poisoned) /\ CanRead("inner")
             /\ Finish(t, "Error")
             /\ UNCHANGED <<fork, fetchFork, tokFork, faults, call>>
    \/ /\ pc[t] = "tc_time"
       /\ CanTake(Acquires["tc_time"])
       /\ Goto(t, "tc_vm")
       /\ UNCHANGED <<held, poisoned, fork, fetchFork, tokFork, outcome, faults, call>>
    \/ /\ pc[t] = "tc_vm"
       /\ \/ fork = NoFork
          \/ "fork" \in poisoned /\ CanWrite("fork")
       /\ \E ok \in BOOLEAN :
             Finish(t, IF ok /\ "fork" \notin poisoned THEN "Ok" ELSE "Error")
       /\ UNCHANGED <<fork, fetchFork, tokFork, faults, call>>
    \/ /\ pc[t] = "tc_vm"
       /\ fork # NoFork /\ "fork" \notin poisoned
       /\ Take(t, "tc_mem")
       /\ fetchFork' = [fetchFork EXCEPT ![t] = fork]
       /\ UNCHANGED <<poisoned, fork, tokFork, outcome, faults, call>>
    \/ /\ pc[t] = "tc_mem"
       /\ \E ok \in BOOLEAN : Finish(t, IF ok THEN "Ok" ELSE "Error")
       /\ UNCHANGED <<fork, fetchFork, tokFork, faults, call>>

-----------------------------------------------------------------------------
(* The handlers that look locally first and only then ask the fork.       *)
LocalFirst == {"get_raw_block_transactions", "get_block_details",
               "get_transaction_details"}

(* The handlers that turn a failed fetch into None (.ok().flatten()).     *)
SwallowsFetchError == {"get_block_details", "get_transaction_details"}

(***************************************************************************)
(* The first guard of the fork-fallback readers: read_inner(); a local    *)
(* hit answers at once, a miss goes on to the fork storage.                *)
(* get_all_account_balances starts with get_confirmed_tokens_impl.        *)
(***************************************************************************)
ForkFallbackRead(t) ==
    /\ pc[t] = "fr_inner"
    /\ \/ TakeOrFail(t, "fr_fork")
       \/ /\ call[t] \in LocalFirst
          /\ "inner" \notin poisoned /\ CanRead("inner")
          /\ Finish(t, "Ok")
          /\ UNCHANGED <<fork, fetchFork, tokFork, faults, call>>

(* Mutant: the fork is asked without checking that one is configured.    *)
ForkGuardUnchecked(t) ==
    /\ pc[t] = "fr_fork"
    /\ CanRead("fork") /\ "fork" \notin poisoned
    /\ Take(t, "fetch")
    /\ fetchFork' = [fetchFork EXCEPT ![t] = fork]
    /\ UNCHANGED <<poisoned, fork, tokFork, outcome, faults, call>>

(* Mutant: the fork source is cloned and both guards are dropped before   *)
(* the fetch, so the fetch no longer blocks the node.                     *)
ForkGuardUnlocked(t) ==
    /\ pc[t] = "fr_fork"
    /\ CanRead("fork") /\ "fork" \notin poisoned /\ fork # NoFork
    /\ held' = [held EXCEPT ![t] = NoGuards]
    /\ Goto(t, "fetch")
    /\ fetchFork' = [fetchFork EXCEPT ![t] = fork]
    /\ UNCHANGED <<poisoned, fork, tokFork, outcome, faults, call>>

(***************************************************************************)
(* fork_storage.inner.read().expect("failed reading fork storage"), taken *)
(* while the inner guard is held: a poisoned lock panics the handler.     *)
(* Without a fork the handler answers its default; with one it fetches,   *)
(* holding both guards until the fetch returns.                           *)
(***************************************************************************)
ForkGuard(t) ==
    /\ pc[t] = "fr_fork"
    /\ CanRead("fork")
    /\ \/ /\ "fork" \in poisoned
          /\ Finish(t, "Panic")
          /\ UNCHANGED <<fork, fetchFork, tokFork, faults, call>>
       \/ /\ "fork" \notin poisoned /\ fork = NoFork
          /\ call[t] = "get_all_account_balances"
          /\ tokFork' = [tokFork EXCEPT ![t] = NoFork]
          /\ held' = [held EXCEPT ![t] = NoGuards]
          /\ Goto(t, "bal_inner")
          /\ UNCHANGED <<poisoned, fork, fetchFork, outcome, faults, call>>
       \/ /\ "fork" \notin poisoned /\ fork = NoFork
          /\ call[t] # "get_all_account_balances"
          /\ Finish(t, IF call[t] \in SwallowsFetchError THEN "None" ELSE "Ok")
          /\ UNCHANGED <<fork, fetchFork, tokFork, faults, call>>
       \/ /\ "fork" \notin poisoned /\ fork # NoFork
          /\ Take(t, "fetch")
          /\ fetchFork' = [fetchFork EXCEPT ![t] = fork]
          /\ UNCHANGED <<poisoned, fork, tokFork, outcome, faults, call>>

(***************************************************************************)
(* The remote source answers (or fails) and the call returns, dropping    *)
(* its guards.  get_confirmed_tokens_impl inside get_all_account_balances *)
(* returns its tokens to the caller, which goes on to take the write lock.*)
(***************************************************************************)
FetchReturn(t) ==
    /\ pc[t] = "fetch"
    /\ \E ok \in BOOLEAN :
          IF call[t] = "get_all_account_balances" /\ ok
          THEN /\ tokFork' = [tokFork EXCEPT ![t] = fetchFork[t]]
               /\ held' = [held EXCEPT ![t] = NoGuards]
               /\ Goto(t, "bal_inner")
               /\ UNCHANGED <<poisoned, fork, fetchFork, outcome, faults, call>>
          ELSE /\ Finish(t, IF ok THEN "Ok"
                             ELSE IF call[t] \in SwallowsFetchError THEN "None"
                             ELSE "Error")
               /\ UNCHANGED <<fork, fetchFork, tokFork, faults, call>>

(***************************************************************************)
(* get_bytecode_by_hash_impl: write_inner(); load_factory_dep_internal   *)
(* takes the fork storage lock (an error if poisoned) and may fail or     *)
(* hit; on a miss fork_storage.inner.read().expect(..) is taken under the *)
(* write guard and the fetch runs holding both.  The .expect cannot fire  *)
(* here: the fork lock was healthy at bc_load, and every later writer of  *)
(* it holds an inner guard, which the write guard excludes.               *)
(***************************************************************************)
GetBytecodeByHash(t) ==
    \/ pc[t] = "bc_inner" /\ TakeOrFail(t, "bc_load")
    \/ /\ pc[t] = "bc_load"
       /\ CanWrite("fork")
       /\ \/ /\ \E ok \in BOOLEAN :
                 Finish(t, IF ok /\ "fork" \notin poisoned THEN "Ok" ELSE "Error")
             /\ UNCHANGED <<fork, fetchFork, tokFork, faults, call>>
          \/ /\ "fork" \notin poisoned
             /\ Goto(t, "bc_fork")
             /\ UNCHANGED <<held, poisoned, fork, fetchFork, tokFork, outcome, faults, call>>
    \/ /\ pc[t] = "bc_fork"
       /\ CanRead("fork")
       /\ \/ /\ fork = NoFork
             /\ Finish(t, "Ok")
             /\ UNCHANGED <<fork, fetchFork, tokFork, faults, call>>
          \/ /\ fork # NoFork
             /\ Take(t, "fetch")
             /\ fetchFork' = [fetchFork EXCEPT ![t] = fork]
             /\ UNCHANGED <<poisoned, fork, tokFork, outcome, faults, call>>

(***************************************************************************)
(* get_all_account_balances_impl after the token list: inner.write()     *)
(* (a poisoned lock is mapped to an error), then read_value_internal for  *)
(* each token, which reads through the fork storage: it takes its lock to *)
(* memoize and fetches from the source configured now.                    *)
(***************************************************************************)
GetAllAccountBalances(t) ==
    \/ pc[t] = "bal_inner" /\ TakeOrFail(t, "bal_read")
    \/ /\ pc[t] = "bal_read"
       /\ fetchFork' = [fetchFork EXCEPT ![t] = fork]
       /\ IF fork = NoFork \/ "fork" \in poisoned
          THEN /\ CanWrite("fork")
               /\ Finish(t, IF "fork" \in poisoned THEN "Error" ELSE "Ok")
               /\ UNCHANGED <<fork, tokFork, faults, call>>
          ELSE /\ Take(t, "bal_fetch")
               /\ UNCHANGED <<poisoned, fork, tokFork, outcome, faults, call>>
    \/ /\ pc[t] = "bal_fetch"
       /\ \E ok \in BOOLEAN : Finish(t, IF ok THEN "Ok" ELSE "Error")
       /\ UNCHANGED <<fork, fetchFork, tokFork, faults, call>>

(* anvil_setRpcUrl / anvil_reset: the write guard on the node, then the   *)
(* fork storage's own lock, and the remote source is replaced.            *)
SetRpcUrl(t) ==
    \/ pc[t] = "sw_inner" /\ TakeOrFail(t, "sw_fork")
    \/ pc[t] = "sw_fork" /\ TakeOrFail(t, "sw_set")
    \/ /\ pc[t] = "sw_set"
       /\ \E f \in Forks \cup {NoFork} : fork' = f
       /\ Finish(t, "Ok")
       /\ UNCHANGED <<fetchFork, tokFork, faults, call>>

(* An anvil_* writer (mine, snapshot, revert, overrides, clock): the      *)
(* write guard on the node for the whole operation.                       *)
AnvilWrite(t) ==
    \/ pc[t] = "aw_inner" /\ TakeOrFail(t, "aw_run")
    \/ /\ pc[t] = "aw_run"
       /\ Finish(t, "Ok")
       /\ UNCHANGED <<fork, fetchFork, tokFork, faults, call>>

(* A writer crashes in the middle of its update (spec section 5); the     *)
(* unwinding drops its guards and poisons the locks it wrote.             *)
CrashPoints == {"tc_mem", "bal_fetch", "sw_set", "aw_run"}

Crash(t) ==
    /\ faults < MaxFaults
    /\ pc[t] \in CrashPoints
    /\ Finish(t, "Crashed")
    /\ faults' = faults + 1
    /\ UNCHANGED <<fork, fetchFork, tokFork, call>>

InCall(t) ==
    \/ EstimateFee(t)
    \/ TraceCall(t)
    \/ ForkFallbackRead(t)
    \/ ForkGuard(t)
    \/ FetchReturn(t)
    \/ GetBytecodeByHash(t)
    \/ GetAllAccountBalances(t)
    \/ SetRpcUrl(t)
    \/ AnvilWrite(t)

LNext ==
    \E t \in Threads :
        \/ \E c \in Calls : Start(t, c)
        \/ InCall(t)
        \/ Crash(t)

(* Every started call keeps running: tokio keeps a blocked or runnable    *)
(* thread scheduled, and the remote source answers within its timeout.    *)
(* Callers are not obliged to call, and crashes are not forced.           *)
LFairness == \A t \in Threads : WF_lvars(InCall(t))

LSpec == Init /\ [][LNext]_lvars
LFairSpec == LSpec /\ LFairness

-----------------------------------------------------------------------------
LocksTypeOK ==
    /\ pc \in [Threads -> PCs]
    /\ call \in [Threads -> Calls \cup {"none"}]
    /\ held \in [Threads -> [Locks -> Modes]]
    /\ poisoned \subseteq Locks
    /\ fork \in Forks \cup {NoFork}
    /\ fetchFork \in [Threads -> Forks \cup {NoFork}]
    /\ tokFork \in [Threads -> Forks \cup {NoFork}]
    /\ outcome \in [Threads -> Outcomes]
    /\ faults \in 0 .. MaxFaults
    /\ \A t \in Threads : pc[t] \in Fetching => fetchFork[t] \in Forks

(***************************************************************************)
(* A remote read always goes to the source configured now: set_rpc_url   *)
(* cannot swap the fork under a handler that is fetching, because every   *)
(* fetch runs with an inner guard held and the swap needs the write guard.*)
(***************************************************************************)
FetchFromCurrentFork ==
    \A t \in Threads : pc[t] \in Fetching => fetchFork[t] = fork

(* Some handler can always go on: no set of calls waits on each other's   *)
(* guards forever (spec section 5: no operation suspends indefinitely     *)
(* except on the remote fetch).                                           *)
NoDeadlock == \E t \in Threads : pc[t] = "idle" \/ ~Blocked(t)

(***************************************************************************)
(* A remote fetch blocks only the calling handler (spec section 5): no   *)
(* thread waits for the node's lock while its holder is fetching from     *)
(* the remote source.                                                     *)
(***************************************************************************)
FetchNeverBlocksNode ==
    \A t, u \in Threads :
        pc[t] \in Fetching /\ held[t]["inner"] # "none"
        => ~(Blocked(u) /\ Acquires[pc[u]][1] = "inner")

(* A handler that meets a poisoned lock fails with an error; it never     *)
(* panics (spec section 7: poisoned-lock errors propagate unchanged).     *)
PoisonSurfacedAsError == \A t \in Threads : outcome[t] # "Panic"

(***************************************************************************)
(* get_all_account_balances answers from one remote source: the token    *)
(* list and the balances it reads for them come from the same fork.       *)
(***************************************************************************)
BalancesFromOneFork ==
    \A t \in Threads :
        call[t] = "get_all_account_balances" /\ pc[t] = "idle" /\ outcome[t] = "Ok"
        => tokFork[t] = fetchFork[t]

(* A writer waiting for the node's lock eventually gets it, or another    *)
(* writer does: readers cannot keep the lock from writers forever.        *)
WritersProgress ==
    (WaitingWriters("inner") # {}) ~> (WritersOf("inner") # {})
=============================================================================
