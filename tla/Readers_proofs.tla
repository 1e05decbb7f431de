--------------------------- MODULE Readers_proofs ---------------------------
(***************************************************************************)
(* Proofs about the read-only RPC handlers running beside the node's      *)
(* writers: their local state stays well typed, and get_raw_block_        *)
(* transactions answers a local block completely, for every number of     *)
(* readers and every bound on the chain.                                  *)
(***************************************************************************)
EXTENDS Readers, Node_proofs, TLAPS

ReaderPcs == {"idle", "tbn_hash", "tbh_block", "tbh_results", "done"}

Ops == {"none", "trace_block_by_number", "trace_block_by_hash",
        "trace_transaction", "get_raw_block_transactions",
        "get_block_details", "get_transaction_details"}

(* The local state of one call: what ReadersTypeOK asks of it, with the   *)
(* argument, the operation and the collected results typed too.           *)
ReaderRec ==
    [pc : ReaderPcs, op : Ops, arg : BlockArg \cup Hash \cup Txs \cup {"none"},
     number : 0 .. MaxBlock, hash : Hash \cup {None}, todo : SUBSET Txs,
     got : SUBSET (Txs \X Hash), fetch : RemoteReply \cup {"none"},
     outcome : Outcomes]

(* A finished get_raw_block_transactions that found block c.hash answered *)
(* exactly its transactions, each with its result in that block.          *)
RawAnswer(c) ==
    c.pc = "done" /\ c.op = "get_raw_block_transactions" /\ c.outcome = "Ok"
    /\ c.hash # None
    => /\ {p[1] : p \in c.got} = c.hash[2]
       /\ \A p \in c.got : p[2] = c.hash

(***************************************************************************)
(* What holds of every reader's call: a block trace between guards has   *)
(* the hash it traces and still a transaction to trace, and               *)
(* get_raw_block_transactions is never between guards (its one guard     *)
(* answers it).                                                           *)
(***************************************************************************)
GoodReader(c) ==
    /\ c \in ReaderRec
    /\ c.pc = "tbh_block" => c.hash # None
    /\ c.pc = "tbh_results" => c.todo # {}
    /\ c.op = "get_raw_block_transactions" => c.pc = "done"
    /\ RawAnswer(c)

(***************************************************************************)
(* The inductive invariant.  RawTransactionsComplete only speaks of the   *)
(* readers' own answers, but the step that answers needs the node's index *)
(* to be consistent (IInv) and must be the only step that can finish a    *)
(* get_raw_block_transactions call.                                       *)
(***************************************************************************)
RInv ==
    /\ IInv
    /\ rs \in [Readers -> ReaderRec]
    /\ \A r \in Readers : GoodReader(rs[r])
-----------------------------------------------------------------------------
(* A reader between calls is in a good state.                             *)
LEMMA IdleGood == GoodReader(Idle)
BY NodeAssumption
DEF GoodReader, Idle, ReaderRec, ReaderPcs, Ops, Outcomes, RemoteReply, RawAnswer

(* Finishing a call keeps its record typed.                               *)
LEMMA FinishType ==
    ASSUME NEW c \in ReaderRec, NEW o \in Outcomes
    PROVE  /\ Finish(c, o) \in ReaderRec /\ Finish(c, o).pc = "done"
           /\ Finish(c, o).op = c.op /\ Finish(c, o).outcome = o
           /\ Finish(c, o).hash = c.hash /\ Finish(c, o).got = c.got
BY DEF Finish, ReaderRec, ReaderPcs

(* One reader's step: only its own call state changes.                    *)
LEMMA ReaderUpdate ==
    ASSUME RInv, NEW r \in Readers, NEW x, GoodReader(x),
           rs' = [rs EXCEPT ![r] = x], UNCHANGED vars
    PROVE  RInv'
<1>1. IInv'
  BY IInvStep DEF RInv
<1>2. rs' \in [Readers -> ReaderRec] /\ \A u \in Readers : GoodReader(rs'[u])
  BY DEF RInv, GoodReader
<1> QED BY <1>1, <1>2 DEF RInv

(* A block number the live chain maps to a hash names a stored block.     *)
LEMMA LiveHashFound ==
    ASSUME IInv, NEW n \in 0 .. MaxBlock, inner.blockHashes[n] # None
    PROVE  inner.blockHashes[n] \in Hash /\ inner.blocks[inner.blockHashes[n]] # None
<1>1. n <= inner.current
  BY DEF IInv, GoodState, ChainIndexConsistent, Contiguous
<1>2. inner.blockHashes[n] \in Hash
  BY DEF IInv, TypeOK, ChainState
<1> QED BY <1>1, <1>2 DEF IInv, GoodState, ChainIndexConsistent, HashesIndexed

(***************************************************************************)
(* The answer get_raw_block_transactions builds from a stored block h:    *)
(* every transaction of h has its result, recorded in h itself, so the    *)
(* flat_map keeps them all.                                               *)
(***************************************************************************)
LEMMA LocalBlockComplete ==
    ASSUME IInv, NEW h \in Hash, inner.blocks[h] # None
    PROVE  LET got == {<<t, inner.txResults[t]>> :
                         t \in {x \in inner.blocks[h].txs : inner.txResults[x] # None}}
           IN  /\ got \subseteq Txs \X Hash
               /\ {p[1] : p \in got} = h[2]
               /\ \A p \in got : p[2] = h
<1>1. inner.blocks[h] = [number |-> h[1], txs |-> h[2]]
  BY DEF IInv, GoodState, BlocksMatchHash
<1>2. inner.blocks[h].txs = h[2] /\ h[2] \subseteq Txs
  BY <1>1 DEF Hash
<1>3. \A t \in h[2] : inner.txResults[t] = h
  BY <1>2 DEF IInv, GoodState, ChainIndexConsistent, ResultsOfBlocks
<1>4. h # None
  BY NodeAssumption DEF Hash
<1>5. {x \in inner.blocks[h].txs : inner.txResults[x] # None} = h[2]
  BY <1>2, <1>3, <1>4
<1>6. {<<t, inner.txResults[t]>> :
         t \in {x \in inner.blocks[h].txs : inner.txResults[x] # None}}
      = {<<t, h>> : t \in h[2]}
  BY <1>3, <1>5
<1>7. {<<t, h>> : t \in h[2]} \subseteq Txs \X Hash
  BY <1>2
<1>8. {p[1] : p \in {<<t, h>> : t \in h[2]}} = h[2]
  <2>1. \A t \in h[2] : <<t, h>>[1] = t
    OBVIOUS
  <2>2. \A q \in {<<t, h>> : t \in h[2]} : q[1] \in h[2]
    BY <2>1
  <2>3. \A t \in h[2] : \E q \in {<<t2, h>> : t2 \in h[2]} : q[1] = t
    BY <2>1
  <2> QED BY <2>2, <2>3
<1>9. \A p \in {<<t, h>> : t \in h[2]} : p[2] = h
  OBVIOUS
<1> QED BY <1>6, <1>7, <1>8, <1>9

LEMMA RInvInit == Init_ => RInv
<1> SUFFICES ASSUME Init_ PROVE RInv
  OBVIOUS
<1>1. IInv
  BY IInvInit DEF Init_
<1>2. rs \in [Readers -> ReaderRec] /\ \A r \in Readers : GoodReader(rs[r])
  BY IdleGood DEF Init_, GoodReader
<1> QED BY <1>1, <1>2 DEF RInv
-----------------------------------------------------------------------------
(* A call other than get_raw_block_transactions that finishes is good.   *)
LEMMA FinishGood ==
    ASSUME NEW c \in ReaderRec, NEW o \in Outcomes,
           c.op # "get_raw_block_transactions"
    PROVE  GoodReader(Finish(c, o))
BY FinishType DEF GoodReader, RawAnswer

(* The current state of reader r's call.                                  *)
LEMMA ReaderTyped ==
    ASSUME RInv, NEW r \in Readers
    PROVE  /\ rs[r] \in ReaderRec
           /\ GoodReader(rs[r])
           /\ rs[r].pc # "done" => rs[r].op # "get_raw_block_transactions"
BY DEF RInv, GoodReader

(* The first guard of trace_block_by_hash_impl on block h.                *)
LEMMA ReadBlockGood ==
    ASSUME IInv, NEW c \in ReaderRec, NEW h \in Hash,
           c.op # "get_raw_block_transactions"
    PROVE  GoodReader(ReadBlock(c, h))
<1> DEFINE blk == inner.blocks[h]
<1>1. blk \in BlockRec \cup {None}
  BY DEF IInv, TypeOK, ChainState
<1>2. CASE blk = None
  <2>1. "BlockNotFound" \in Outcomes
    BY DEF Outcomes
  <2> QED BY <1>2, <2>1, FinishGood DEF ReadBlock
<1>3. CASE blk # None /\ blk.txs = {}
  <2>1. [c EXCEPT !.hash = h] \in ReaderRec /\ "Ok" \in Outcomes
    BY DEF ReaderRec, Outcomes
  <2>2. [c EXCEPT !.hash = h].op # "get_raw_block_transactions"
    BY DEF ReaderRec
  <2> QED BY <1>3, <2>1, <2>2, FinishGood DEF ReadBlock
<1>4. CASE blk # None /\ blk.txs # {}
  <2>1. blk.txs \subseteq Txs
    BY <1>1, <1>4 DEF BlockRec
  <2> QED BY <1>4, <2>1 DEF ReadBlock, GoodReader, ReaderRec, ReaderPcs, RawAnswer
<1> QED BY <1>2, <1>3, <1>4

(* The fork fallback of get_block_details and get_transaction_details.    *)
LEMMA RemoteLookupGood ==
    ASSUME NEW c \in ReaderRec, NEW reply \in RemoteReply,
           c.op # "get_raw_block_transactions"
    PROVE  GoodReader(RemoteLookup(c, reply))
<1>1. [c EXCEPT !.fetch = reply] \in ReaderRec
      /\ [c EXCEPT !.fetch = reply].op = c.op
  BY DEF ReaderRec
<1>2. {"None", "Remote"} \subseteq Outcomes
  BY DEF Outcomes
<1> QED BY <1>1, <1>2, FinishGood DEF RemoteLookup

-----------------------------------------------------------------------------
(* The reader handlers, one lemma each.                                   *)

LEMMA TraceBlockByNumberStep ==
    ASSUME RInv, NEW r \in Readers, NEW b \in BlockArg, TraceBlockByNumber(r, b)
    PROVE  RInv'
<1> DEFINE x == [Idle EXCEPT
                 !.pc = "tbn_hash", !.op = "trace_block_by_number", !.arg = b,
                 !.number = IF b = Latest THEN inner.current ELSE b]
<1>1. inner.current \in 0 .. MaxBlock
  BY DEF RInv, IInv, TypeOK, ChainState
<1>2. GoodReader(x)
  <2>1. (IF b = Latest THEN inner.current ELSE b) \in 0 .. MaxBlock
    BY <1>1 DEF BlockArg
  <2>2. Idle \in ReaderRec
    BY IdleGood DEF GoodReader
  <2>3. x \in ReaderRec
    BY <2>1, <2>2 DEF ReaderRec, ReaderPcs, Ops, BlockArg
  <2> QED BY <2>3 DEF GoodReader, RawAnswer
<1>3. rs' = [rs EXCEPT ![r] = x] /\ UNCHANGED vars
  BY DEF TraceBlockByNumber
<1> QED BY <1>2, <1>3, ReaderUpdate

LEMMA TraceBlockHashStep ==
    ASSUME RInv, NEW r \in Readers, TraceBlockHash(r)
    PROVE  RInv'
<1> DEFINE c == rs[r]
           h == inner.blockHashes[c.number]
           x == IF h = None THEN Finish(c, "BlockNotFound")
                ELSE [c EXCEPT !.pc = "tbh_block", !.hash = h]
<1>1. c \in ReaderRec /\ c.pc = "tbn_hash" /\ c.op # "get_raw_block_transactions"
  BY ReaderTyped DEF TraceBlockHash
<1>2. h \in Hash \cup {None}
  BY <1>1 DEF RInv, IInv, TypeOK, ChainState, ReaderRec
<1>3. GoodReader(x)
  <2>1. CASE h = None
    BY <1>1, <2>1, FinishGood DEF Outcomes
  <2>2. CASE h # None
    BY <1>1, <1>2, <2>2 DEF GoodReader, ReaderRec, ReaderPcs, RawAnswer
  <2> QED BY <2>1, <2>2
<1>4. rs' = [rs EXCEPT ![r] = x] /\ UNCHANGED vars
  BY DEF TraceBlockHash
<1> QED BY <1>3, <1>4, ReaderUpdate

LEMMA TraceBlockByHashStep ==
    ASSUME RInv, NEW r \in Readers, NEW h \in Hash, TraceBlockByHash(r, h)
    PROVE  RInv'
<1> DEFINE c == [Idle EXCEPT !.op = "trace_block_by_hash", !.arg = h]
<1>1. c \in ReaderRec /\ c.op # "get_raw_block_transactions"
  BY IdleGood DEF GoodReader, ReaderRec, Ops
<1>2. GoodReader(ReadBlock(c, h))
  BY <1>1, ReadBlockGood DEF RInv
<1>3. rs' = [rs EXCEPT ![r] = ReadBlock(c, h)] /\ UNCHANGED vars
  BY DEF TraceBlockByHash
<1> QED BY <1>2, <1>3, ReaderUpdate

LEMMA TraceBlockEnterStep ==
    ASSUME RInv, NEW r \in Readers, TraceBlockEnter(r)
    PROVE  RInv'
<1>1. /\ rs[r] \in ReaderRec /\ rs[r].hash \in Hash
      /\ rs[r].op # "get_raw_block_transactions"
  BY ReaderTyped DEF TraceBlockEnter, GoodReader, ReaderRec
<1>2. GoodReader(ReadBlock(rs[r], rs[r].hash))
  BY <1>1, ReadBlockGood DEF RInv
<1>3. rs' = [rs EXCEPT ![r] = ReadBlock(rs[r], rs[r].hash)] /\ UNCHANGED vars
  BY DEF TraceBlockEnter
<1> QED BY <1>2, <1>3, ReaderUpdate
LEMMA TraceBlockResultStep ==
    ASSUME RInv, NEW r \in Readers, TraceBlockResult(r)
    PROVE  RInv'
<1> DEFINE c0  == rs[r]
           t   == CHOOSE y \in c0.todo : TRUE
           res == inner.txResults[t]
           c   == [c0 EXCEPT !.todo = @ \ {t}, !.got = @ \cup {<<t, res>>}]
           x   == IF res = None THEN Finish(c0, "TxNotFound")
                  ELSE IF c.todo = {} THEN Finish(c, "Ok")
                  ELSE c
<1>1. /\ c0 \in ReaderRec /\ c0.pc = "tbh_results" /\ c0.todo # {}
      /\ c0.op # "get_raw_block_transactions"
  BY ReaderTyped DEF TraceBlockResult, GoodReader
<1>2. t \in Txs
  BY <1>1 DEF ReaderRec
<1>3. res \in Hash \cup {None}
  BY <1>2 DEF RInv, IInv, TypeOK, ChainState
<1>4. GoodReader(x)
  <2>1. CASE res = None
    BY <1>1, <2>1, FinishGood DEF Outcomes
  <2>2. CASE res # None
    <3>a. c0.todo \ {t} \subseteq Txs /\ c0.got \subseteq Txs \X Hash
      BY <1>1 DEF ReaderRec
    <3>b. <<t, res>> \in Txs \X Hash
      <4>1. res \in Hash
        BY <1>3, <2>2
      <4>2. \A tt \in Txs, rr \in Hash : <<tt, rr>> \in Txs \X Hash
        OBVIOUS
      <4> QED BY <1>2, <4>1, <4>2
    <3>c. c = [c0 EXCEPT !.todo = c0.todo \ {t}, !.got = c0.got \cup {<<t, res>>}]
      OBVIOUS
    <3>0. /\ c0.todo \ {t} \subseteq Txs
          /\ c0.got \cup {<<t, res>>} \subseteq Txs \X Hash
          /\ c = [c0 EXCEPT !.todo = c0.todo \ {t}, !.got = c0.got \cup {<<t, res>>}]
      BY <3>a, <3>b, <3>c
    <3>1. c \in ReaderRec /\ c.op = c0.op /\ c.pc = "tbh_results"
      BY <1>1, <3>0 DEF ReaderRec
    <3>2. CASE c.todo = {}
      BY <1>1, <2>2, <3>1, <3>2, FinishGood DEF Outcomes
    <3>3. CASE c.todo # {}
      BY <1>1, <2>2, <3>1, <3>3 DEF GoodReader, RawAnswer
    <3> QED BY <3>2, <3>3
  <2> QED BY <2>1, <2>2
<1>5. rs' = [rs EXCEPT ![r] = x] /\ UNCHANGED vars
  BY DEF TraceBlockResult
<1> QED BY <1>4, <1>5, ReaderUpdate

LEMMA TraceTransactionStep ==
    ASSUME RInv, NEW r \in Readers, NEW t \in Txs, TraceTransaction(r, t)
    PROVE  RInv'
<1> DEFINE res == inner.txResults[t]
           c   == [Idle EXCEPT !.op = "trace_transaction", !.arg = t,
                               !.got = IF res = None THEN {} ELSE {<<t, res>>}]
           o   == IF res = None THEN "None" ELSE "Ok"
<1>1. res \in Hash \cup {None}
  BY DEF RInv, IInv, TypeOK, ChainState
<1>2. (IF res = None THEN {} ELSE {<<t, res>>}) \subseteq Txs \X Hash
  BY <1>1
<1>3. c \in ReaderRec /\ c.op # "get_raw_block_transactions" /\ o \in Outcomes
  <2>1. Idle \in ReaderRec
    BY IdleGood DEF GoodReader
  <2>2. c \in ReaderRec
    BY <1>2, <2>1 DEF ReaderRec, Ops
  <2> QED BY <2>2 DEF Outcomes
<1>4. GoodReader(Finish(c, o))
  BY <1>3, FinishGood
<1>5. rs' = [rs EXCEPT ![r] = Finish(c, o)] /\ UNCHANGED vars
  BY DEF TraceTransaction
<1> QED BY <1>4, <1>5, ReaderUpdate

(***************************************************************************)
(* The answering step of get_raw_block_transactions: a stored block is    *)
(* answered completely (LocalBlockComplete); otherwise the number names   *)
(* no block at all (LiveHashFound), so the answer carries no hash.        *)
(***************************************************************************)
LEMMA GetRawBlockTransactionsStep ==
    ASSUME RInv, NEW r \in Readers, NEW n \in 0 .. MaxBlock,
           NEW reply \in RemoteReply, GetRawBlockTransactions(r, n, reply)
    PROVE  RInv'
<1> DEFINE h   == inner.blockHashes[n]
           c   == [Idle EXCEPT !.op = "get_raw_block_transactions", !.arg = n,
                               !.number = n, !.hash = h]
           got == IF h = None \/ inner.blocks[h] = None THEN {}
                  ELSE {<<t, inner.txResults[t]>> :
                          t \in {y \in inner.blocks[h].txs :
                                   inner.txResults[y] # None}}
           x   == IF h # None /\ inner.blocks[h] # None
                  THEN Finish([c EXCEPT !.got = got], "Ok")
                  ELSE IF ~Forked THEN Finish(c, "Ok")
                  ELSE IF reply = "error"
                       THEN Finish([c EXCEPT !.fetch = reply], "Error")
                  ELSE Finish([c EXCEPT !.fetch = reply], "Remote")
<1>1. IInv
  BY DEF RInv
<1>2. h \in Hash \cup {None}
  BY DEF RInv, IInv, TypeOK, ChainState
<1>3. c \in ReaderRec /\ c.hash = h
  BY <1>2, IdleGood DEF GoodReader, ReaderRec, Ops, BlockArg
<1>4. GoodReader(x)
  <2>1. CASE h # None /\ inner.blocks[h] # None
    <3>1. /\ got \subseteq Txs \X Hash
          /\ {p[1] : p \in got} = h[2]
          /\ \A p \in got : p[2] = h
      BY <1>1, <1>2, <2>1, LocalBlockComplete
    <3>2. [c EXCEPT !.got = got] \in ReaderRec
      BY <1>3, <3>1 DEF ReaderRec
    <3> DEFINE d == [c EXCEPT !.got = got]
    <3>4. d.hash = h /\ d.got = got
      BY <1>3
    <3>5. "Ok" \in Outcomes
      BY DEF Outcomes
    <3>6. d \in ReaderRec
      BY <3>2
    <3>3. /\ Finish(d, "Ok") \in ReaderRec /\ Finish(d, "Ok").pc = "done"
          /\ Finish(d, "Ok").hash = h /\ Finish(d, "Ok").got = got
      <4> HIDE DEF d, got
      <4>1. /\ Finish(d, "Ok") \in ReaderRec /\ Finish(d, "Ok").pc = "done"
            /\ Finish(d, "Ok").hash = d.hash /\ Finish(d, "Ok").got = d.got
        BY <3>5, <3>6, FinishType
      <4> QED BY <3>4, <4>1
    <3> QED BY <2>1, <3>1, <3>3 DEF GoodReader, RawAnswer
  <2>2. CASE ~(h # None /\ inner.blocks[h] # None)
    <3>1. h = None
      BY <1>1, <2>2, LiveHashFound
    <3>2. /\ [c EXCEPT !.fetch = reply] \in ReaderRec
          /\ [c EXCEPT !.fetch = reply].hash = None
          /\ {"Ok", "Error", "Remote"} \subseteq Outcomes
      BY <1>3, <3>1 DEF ReaderRec, Outcomes
    <3>3. ASSUME NEW d \in ReaderRec, d.hash = None,
                 NEW o \in {"Ok", "Error", "Remote"}
          PROVE  GoodReader(Finish(d, o))
      <4>1. /\ Finish(d, o) \in ReaderRec /\ Finish(d, o).pc = "done"
            /\ Finish(d, o).hash = None
        BY <3>2, <3>3, FinishType
      <4> QED BY <4>1 DEF GoodReader, RawAnswer
    <3>4. c.hash = None
      BY <1>3, <3>1
    <3>5. /\ GoodReader(Finish(c, "Ok"))
          /\ GoodReader(Finish([c EXCEPT !.fetch = reply], "Error"))
          /\ GoodReader(Finish([c EXCEPT !.fetch = reply], "Remote"))
      BY <1>3, <3>2, <3>3, <3>4
    <3> QED BY <2>2, <3>5
  <2> QED BY <2>1, <2>2
<1>5. rs' = [rs EXCEPT ![r] = x] /\ UNCHANGED vars
  BY DEF GetRawBlockTransactions
<1> QED BY <1>4, <1>5, ReaderUpdate

LEMMA GetBlockDetailsStep ==
    ASSUME RInv, NEW r \in Readers, NEW n \in 0 .. MaxBlock,
           NEW reply \in RemoteReply, GetBlockDetails(r, n, reply)
    PROVE  RInv'
<1> DEFINE h == inner.blockHashes[n]
           c == [Idle EXCEPT !.op = "get_block_details", !.arg = n,
                             !.number = n, !.hash = h]
           x == IF h # None /\ inner.blocks[h] # None THEN Finish(c, "Ok")
                ELSE RemoteLookup(c, reply)
<1>1. c \in ReaderRec /\ c.op # "get_raw_block_transactions"
  BY IdleGood DEF RInv, IInv, TypeOK, ChainState, GoodReader, ReaderRec, Ops, BlockArg
<1>2. GoodReader(x)
  BY <1>1, FinishGood, RemoteLookupGood DEF Outcomes
<1>3. rs' = [rs EXCEPT ![r] = x] /\ UNCHANGED vars
  BY DEF GetBlockDetails
<1> QED BY <1>2, <1>3, ReaderUpdate

LEMMA GetTransactionDetailsStep ==
    ASSUME RInv, NEW r \in Readers, NEW t \in Txs,
           NEW reply \in RemoteReply, GetTransactionDetails(r, t, reply)
    PROVE  RInv'
<1> DEFINE c == [Idle EXCEPT !.op = "get_transaction_details", !.arg = t]
           x == IF inner.txResults[t] # None
                THEN Finish([c EXCEPT !.hash = inner.txResults[t]], "Ok")
                ELSE RemoteLookup(c, reply)
<1>1. c \in ReaderRec /\ c.op # "get_raw_block_transactions"
  BY IdleGood DEF GoodReader, ReaderRec, Ops
<1>2. inner.txResults[t] # None =>
        /\ [c EXCEPT !.hash = inner.txResults[t]] \in ReaderRec
        /\ [c EXCEPT !.hash = inner.txResults[t]].op = c.op
  BY <1>1 DEF RInv, IInv, TypeOK, ChainState, ReaderRec
<1>3. GoodReader(x)
  BY <1>1, <1>2, FinishGood, RemoteLookupGood DEF Outcomes
<1>4. rs' = [rs EXCEPT ![r] = x] /\ UNCHANGED vars
  BY DEF GetTransactionDetails
<1> QED BY <1>3, <1>4, ReaderUpdate
LEMMA ReturnStep ==
    ASSUME RInv, NEW r \in Readers, Return(r)
    PROVE  RInv'
<1>1. rs' = [rs EXCEPT ![r] = Idle] /\ UNCHANGED vars
  BY DEF Return
<1> QED BY <1>1, IdleGood, ReaderUpdate

(* A writer of Node runs between two guards of the readers.               *)
LEMMA WriterStep ==
    ASSUME RInv, [Next]_vars, UNCHANGED rs
    PROVE  RInv'
<1>1. IInv'
  BY IInvStep DEF RInv
<1> QED BY <1>1 DEF RInv

LEMMA RInvStep ==
    ASSUME RInv, [RNext]_rvars
    PROVE  RInv'
<1>1. CASE UNCHANGED rvars
  BY <1>1, WriterStep DEF rvars
<1>2. CASE Next /\ UNCHANGED rs
  BY <1>2, WriterStep
<1>3. CASE \E r \in Readers : ReaderStep(r)
  <2>1. PICK r \in Readers : ReaderStep(r)
    BY <1>3
  <2>2. CASE \E n \in 0 .. MaxBlock, reply \in RemoteReply :
                \/ GetRawBlockTransactions(r, n, reply)
                \/ GetBlockDetails(r, n, reply)
    BY <2>2, GetRawBlockTransactionsStep, GetBlockDetailsStep
  <2> QED
    BY <2>1, <2>2, TraceBlockByNumberStep, TraceBlockHashStep,
       TraceBlockByHashStep, TraceBlockEnterStep, TraceBlockResultStep,
       TraceTransactionStep, GetTransactionDetailsStep, ReturnStep
    DEF ReaderStep
<1> QED BY <1>1, <1>2, <1>3 DEF RNext

LEMMA RInvAlways == RSpec => []RInv
BY RInvInit, RInvStep, PTL DEF RSpec

-----------------------------------------------------------------------------
(***************************************************************************)
(* Type correctness of the readers beside the writers: the node's state   *)
(* and every reader's call state (its step, block number, hash, pending  *)
(* transactions, remote reply and outcome) stay well typed, for any       *)
(* number of readers.                                                     *)
(***************************************************************************)
THEOREM ReadersTypeCorrect == RSpec => []ReadersTypeOK
<1>1. RInv => ReadersTypeOK
  BY DEF RInv, IInv, ReadersTypeOK, GoodReader, ReaderRec, ReaderPcs
<1> QED BY <1>1, RInvAlways, PTL

(***************************************************************************)
(* get_raw_block_transactions_impl never drops a transaction of a local   *)
(* block: whatever mines and reverts ran before its guard, the answer     *)
(* lists exactly the block's transactions, each with the result sealed in *)
(* that block, for any number of readers and any chain length.           *)
(***************************************************************************)
THEOREM RawTransactionsAnswered == RSpec => []RawTransactionsComplete
<1>1. RInv => RawTransactionsComplete
  BY DEF RInv, GoodReader, RawAnswer, RawTransactionsComplete, Done
<1> QED BY <1>1, RInvAlways, PTL
(***************************************************************************)
(* With readers interleaved between any two writer steps, the node's      *)
(* block/transaction index stays consistent: the readers' guards never    *)
(* write, so the index of Node is unaffected by them.                     *)
(***************************************************************************)
THEOREM ReadersIndexConsistent == RSpec => []BlockTxBijection
<1>1. RInv => BlockTxBijection
  BY DEF RInv, IInv, GoodState, BlockTxBijection
<1> QED BY <1>1, RInvAlways, PTL
=============================================================================
