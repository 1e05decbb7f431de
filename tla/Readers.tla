------------------------------ MODULE Readers ------------------------------
(***************************************************************************)
(* The read-only RPC handlers of debug.rs and zks.rs running concurrently *)
(* with the node's writers.  Each handler reads the inner state through   *)
(* read_inner(), whose guard lives until the end of the statement that    *)
(* took it: a handler that calls read_inner() several times reads several *)
(* states, and any writer of Node may run between two of its reads.       *)
(* One step of a reader is one guard's worth of reading.                  *)
(***************************************************************************)
EXTENDS Node

CONSTANTS
    Readers,        \* concurrent RPC callers
    Forked,         \* whether a remote fork source is configured
    Latest          \* the block id `latest' (BlockNumber::Latest)

ASSUME ReadersAssumption == Forked \in BOOLEAN /\ Latest \notin Nat

VARIABLE rs         \* rs[r]: the local state of reader r's current call

rvars == <<vars, rs>>

(* The answers of the remote source: a value, nothing, or a failed fetch. *)
RemoteReply == {"found", "absent", "error"}

(* The block arguments of trace_block_by_number: Latest or a number.      *)
BlockArg == {Latest} \cup (0 .. MaxBlock)

Idle == [pc |-> "idle", op |-> "none", arg |-> "none", number |-> 0,
         hash |-> None, todo |-> {}, got |-> {}, fetch |-> "none",
         outcome |-> "none"]

(* The call c finished with the given outcome.                            *)
Finish(c, outcome) == [c EXCEPT !.pc = "done", !.outcome = outcome]

Init_ == Init /\ rs = [r \in Readers |-> Idle]

-----------------------------------------------------------------------------
(* Wrong variant of TraceBlockByNumber: latest resolves to the pending   *)
(* block number, one past current_miniblock.                              *)
TraceBlockByNumberPending(r, b) ==
    /\ rs[r].pc = "idle"
    /\ rs' = [rs EXCEPT ![r] = [Idle EXCEPT
                 !.pc = "tbn_hash", !.op = "trace_block_by_number", !.arg = b,
                 !.number = IF b = Latest THEN inner.current + 1 ELSE b]]
    /\ UNCHANGED vars

(* trace_block_by_number_impl, first guard: current_miniblock, and the    *)
(* block id resolved against it (to_real_block_number).                    *)
TraceBlockByNumber(r, b) ==
    /\ rs[r].pc = "idle"
    /\ rs' = [rs EXCEPT ![r] = [Idle EXCEPT
                 !.pc = "tbn_hash", !.op = "trace_block_by_number", !.arg = b,
                 !.number = IF b = Latest THEN inner.current ELSE b]]
    /\ UNCHANGED vars

(* Second guard: block_hashes.get(number), else "Block not found"; the    *)
(* hash is then traced by trace_block_by_hash_impl.                       *)
TraceBlockHash(r) ==
    /\ rs[r].pc = "tbn_hash"
    /\ LET h == inner.blockHashes[rs[r].number]
       IN  rs' = [rs EXCEPT ![r] =
                    IF h = None THEN Finish(rs[r], "BlockNotFound")
                    ELSE [rs[r] EXCEPT !.pc = "tbh_block", !.hash = h]]
    /\ UNCHANGED vars

(* trace_block_by_hash_impl, first guard: the transaction hashes of block *)
(* h, else "Block not found".  A block without transactions traces to []. *)
ReadBlock(c, h) ==
    LET blk == inner.blocks[h]
    IN  IF blk = None THEN Finish(c, "BlockNotFound")
        ELSE IF blk.txs = {} THEN Finish([c EXCEPT !.hash = h], "Ok")
        ELSE [c EXCEPT !.pc = "tbh_results", !.hash = h, !.todo = blk.txs]

TraceBlockByHash(r, h) ==
    /\ rs[r].pc = "idle"
    /\ rs' = [rs EXCEPT ![r] =
                 ReadBlock([Idle EXCEPT !.op = "trace_block_by_hash", !.arg = h], h)]
    /\ UNCHANGED vars

TraceBlockEnter(r) ==
    /\ rs[r].pc = "tbh_block"
    /\ rs' = [rs EXCEPT ![r] = ReadBlock(rs[r], rs[r].hash)]
    /\ UNCHANGED vars

(* One guard per transaction: tx_results.get(tx_hash) and its debug info, *)
(* else "Transaction not found", which ends the whole call (the results   *)
(* are collected into a Result).  The last one ends the call with Ok.     *)
TraceBlockResult(r) ==
    /\ rs[r].pc = "tbh_results"
    /\ LET t   == CHOOSE x \in rs[r].todo : TRUE
           res == inner.txResults[t]
           c   == [rs[r] EXCEPT !.todo = @ \ {t}, !.got = @ \cup {<<t, res>>}]
       IN  rs' = [rs EXCEPT ![r] =
                    IF res = None THEN Finish(rs[r], "TxNotFound")
                    ELSE IF c.todo = {} THEN Finish(c, "Ok")
                    ELSE c]
    /\ UNCHANGED vars

(* trace_transaction_impl: one guard; the result's debug info, or None.    *)
TraceTransaction(r, t) ==
    /\ rs[r].pc = "idle"
    /\ LET res == inner.txResults[t]
       IN  rs' = [rs EXCEPT ![r] = Finish([Idle EXCEPT
                    !.op = "trace_transaction", !.arg = t,
                    !.got = IF res = None THEN {} ELSE {<<t, res>>}],
                    IF res = None THEN "None" ELSE "Ok")]
    /\ UNCHANGED vars

(* Wrong variant of GetRawBlockTransactions: the answer is built from    *)
(* every recorded result instead of the block's own transaction list.    *)
GetRawBlockTransactionsAllResults(r, n, reply) ==
    /\ rs[r].pc = "idle"
    /\ LET h   == inner.blockHashes[n]
           c   == [Idle EXCEPT !.op = "get_raw_block_transactions", !.arg = n,
                               !.number = n, !.hash = h]
           got == {<<t, inner.txResults[t]>> :
                     t \in {x \in Txs : inner.txResults[x] # None}}
       IN  rs' = [rs EXCEPT ![r] =
                    IF h # None /\ inner.blocks[h] # None
                    THEN Finish([c EXCEPT !.got = got], "Ok")
                    ELSE IF ~Forked THEN Finish(c, "Ok")
                    ELSE IF reply = "error"
                         THEN Finish([c EXCEPT !.fetch = reply], "Error")
                    ELSE Finish([c EXCEPT !.fetch = reply], "Remote")]
    /\ UNCHANGED vars

(***************************************************************************)
(* get_raw_block_transactions_impl: one guard.  A local block yields the  *)
(* transactions whose results are found (flat_map drops the others).  A   *)
(* block not held locally is asked of the fork, whose failure is an       *)
(* error; without a fork the answer is an empty list.                     *)
(***************************************************************************)
GetRawBlockTransactions(r, n, reply) ==
    /\ rs[r].pc = "idle"
    /\ LET h   == inner.blockHashes[n]
           c   == [Idle EXCEPT !.op = "get_raw_block_transactions", !.arg = n,
                               !.number = n, !.hash = h]
           got == IF h = None \/ inner.blocks[h] = None THEN {}
                  ELSE {<<t, inner.txResults[t]>> :
                          t \in {x \in inner.blocks[h].txs :
                                   inner.txResults[x] # None}}
       IN  rs' = [rs EXCEPT ![r] =
                    IF h # None /\ inner.blocks[h] # None
                    THEN Finish([c EXCEPT !.got = got], "Ok")
                    ELSE IF ~Forked THEN Finish(c, "Ok")
                    ELSE IF reply = "error"
                         THEN Finish([c EXCEPT !.fetch = reply], "Error")
                    ELSE Finish([c EXCEPT !.fetch = reply], "Remote")]
    /\ UNCHANGED vars

(***************************************************************************)
(* get_block_details_impl and get_transaction_details_impl: one guard; a  *)
(* local entry, else the fork's answer with a failed fetch turned into    *)
(* None by .ok().flatten(), else None.                                     *)
(***************************************************************************)
RemoteLookup(c, reply) ==
    IF ~Forked THEN Finish(c, "None")
    ELSE IF reply = "found" THEN Finish([c EXCEPT !.fetch = reply], "Remote")
    ELSE Finish([c EXCEPT !.fetch = reply], "None")

GetBlockDetails(r, n, reply) ==
    /\ rs[r].pc = "idle"
    /\ LET h == inner.blockHashes[n]
           c == [Idle EXCEPT !.op = "get_block_details", !.arg = n,
                             !.number = n, !.hash = h]
       IN  rs' = [rs EXCEPT ![r] =
                    IF h # None /\ inner.blocks[h] # None THEN Finish(c, "Ok")
                    ELSE RemoteLookup(c, reply)]
    /\ UNCHANGED vars

GetTransactionDetails(r, t, reply) ==
    /\ rs[r].pc = "idle"
    /\ LET c == [Idle EXCEPT !.op = "get_transaction_details", !.arg = t]
       IN  rs' = [rs EXCEPT ![r] =
                    IF inner.txResults[t] # None
                    THEN Finish([c EXCEPT !.hash = inner.txResults[t]], "Ok")
                    ELSE RemoteLookup(c, reply)]
    /\ UNCHANGED vars

(* The caller takes the answer; the reader is free for its next call.      *)
Return(r) ==
    /\ rs[r].pc = "done"
    /\ rs' = [rs EXCEPT ![r] = Idle]
    /\ UNCHANGED vars

ReaderStep(r) ==
    \/ \E b \in BlockArg : TraceBlockByNumber(r, b)
    \/ TraceBlockHash(r)
    \/ \E h \in Hash : TraceBlockByHash(r, h)
    \/ TraceBlockEnter(r)
    \/ TraceBlockResult(r)
    \/ \E t \in Txs : TraceTransaction(r, t)
    \/ \E n \in 0 .. MaxBlock, reply \in RemoteReply :
          \/ GetRawBlockTransactions(r, n, reply)
          \/ GetBlockDetails(r, n, reply)
    \/ \E t \in Txs, reply \in RemoteReply : GetTransactionDetails(r, t, reply)
    \/ Return(r)

RNext ==
    \/ Next /\ UNCHANGED rs
    \/ \E r \in Readers : ReaderStep(r)

RSpec == Init_ /\ [][RNext]_rvars

-----------------------------------------------------------------------------
Outcomes == {"none", "Ok", "None", "Remote", "Error", "BlockNotFound",
             "TxNotFound"}

ReadersTypeOK ==
    /\ TypeOK
    /\ \A r \in Readers :
          /\ rs[r].pc \in {"idle", "tbn_hash", "tbh_block", "tbh_results", "done"}
          /\ rs[r].number \in 0 .. MaxBlock
          /\ rs[r].hash \in Hash \cup {None}
          /\ rs[r].todo \subseteq Txs
          /\ rs[r].fetch \in RemoteReply \cup {"none"}
          /\ rs[r].outcome \in Outcomes

Done(r, op) == rs[r].pc = "done" /\ rs[r].op = op

(***************************************************************************)
(* get_raw_block_transactions of a local block answers, from its single   *)
(* guard, exactly the block's transactions, each with the result sealed   *)
(* in that very block: flat_map never has a missing result to drop, even  *)
(* across mines and reverts.                                              *)
(***************************************************************************)
RawTransactionsComplete ==
    \A r \in Readers :
        Done(r, "get_raw_block_transactions") /\ rs[r].outcome = "Ok"
            /\ rs[r].hash # None
        => /\ {p[1] : p \in rs[r].got} = rs[r].hash[2]
           /\ \A p \in rs[r].got : p[2] = rs[r].hash

(***************************************************************************)
(* A block trace is atomic (spec section 5: no block is partially         *)
(* visible): trace_block_by_number/by_hash never fails with "Transaction   *)
(* not found" for a block it found, and an Ok trace of block h holds only  *)
(* results sealed in h.                                                    *)
(***************************************************************************)
TraceBlockAtomic ==
    \A r \in Readers :
        Done(r, "trace_block_by_number") \/ Done(r, "trace_block_by_hash")
        => /\ rs[r].outcome # "TxNotFound"
           /\ rs[r].outcome = "Ok" => \A p \in rs[r].got : p[2] = rs[r].hash

(* trace_block_by_number(latest) always finds a block: the latest block   *)
(* exists in every state the call runs in.                                 *)
TraceLatestFound ==
    \A r \in Readers :
        Done(r, "trace_block_by_number") /\ rs[r].arg = Latest
        => rs[r].outcome # "BlockNotFound"

(* A failed fetch from the fork source is reported to the caller as an    *)
(* error, never as an absent block or transaction (spec section 7).       *)
RemoteFailureSurfaced ==
    \A r \in Readers :
        rs[r].pc = "done" /\ rs[r].fetch = "error" => rs[r].outcome = "Error"
=============================================================================
