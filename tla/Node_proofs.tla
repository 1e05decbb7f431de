---------------------------- MODULE Node_proofs ----------------------------
(***************************************************************************)
(* Proofs about the node's writers: the type invariant and the            *)
(* consistency of the block/transaction index hold in every reachable     *)
(* state, for all values of the constants.                                *)
(***************************************************************************)
EXTENDS Node, SequenceTheorems, TLAPS

(* A stored block is the block its hash names.                            *)
BlocksMatchHash(s) ==
    \A h \in Hash : s.blocks[h] # None => s.blocks[h] = [number |-> h[1], txs |-> h[2]]

(* The results a checkpoint s holds are still held, unchanged, in t.      *)
ResultsExtend(s, t) ==
    \A x \in Txs : s.txResults[x] # None => t.txResults[x] = s.txResults[x]

(* A chain state the node can be in, or restore.                          *)
GoodState(s) == ChainIndexConsistent(s) /\ BlocksMatchHash(s)

(***************************************************************************)
(* The inductive invariant.  Consistency of the live index alone is not   *)
(* inductive: sealing a pending transaction that already has a result    *)
(* would break it (hence PoolFresh), and a revert installs a checkpoint, *)
(* which must be consistent too and must not know a pending transaction *)
(* as sealed (hence the checkpoint conjuncts).                            *)
(***************************************************************************)
PoolFresh == \A t \in pool : inner.txResults[t] = None

IInv ==
    /\ TypeOK
    /\ GoodState(inner)
    /\ PoolFresh
    /\ \A i \in DOMAIN snapshots :
          /\ GoodState(snapshots[i].state)
          /\ ResultsExtend(snapshots[i].state, inner)
    /\ \A i, j \in DOMAIN snapshots :
          i < j => ResultsExtend(snapshots[i].state, snapshots[j].state)
-----------------------------------------------------------------------------
SnapshotRec == [id : 1 .. MaxSnapshotId, state : ChainState]

(* Sealing k blocks within the bound yields a well-typed chain state.     *)
LEMMA MineBlocksType ==
    ASSUME NEW s \in ChainState, NEW txs \in SUBSET Txs,
           NEW k \in Nat \ {0}, s.current + k <= MaxBlock
    PROVE  MineBlocks(s, txs, k) \in ChainState
<1> USE NodeAssumption
<1>1. s.current + 1 \in 0 .. MaxBlock
    BY DEF ChainState
<1>2. \A m \in 0 .. MaxBlock :
         BlockHash(m, IF m = s.current + 1 THEN txs ELSE {}) \in Hash
    BY DEF Hash, BlockHash
<1>3. \A x \in Hash : [number |-> x[1], txs |-> x[2]] \in BlockRec
    BY DEF Hash, BlockRec
<1>4. QED
    BY <1>1, <1>2, <1>3 DEF MineBlocks, ChainState

(***************************************************************************)
(* Sealing keeps a good chain state good, provided none of the sealed     *)
(* transactions already has a result, and it keeps every existing result. *)
(***************************************************************************)
LEMMA MineBlocksGood ==
    ASSUME NEW s \in ChainState, GoodState(s),
           NEW txs \in SUBSET Txs, \A t \in txs : s.txResults[t] = None,
           NEW k \in Nat \ {0}, s.current + k <= MaxBlock
    PROVE  /\ GoodState(MineBlocks(s, txs, k))
           /\ ResultsExtend(s, MineBlocks(s, txs, k))
<1> USE NodeAssumption
<1> DEFINE c == s.current
           New == c + 1 .. c + k
           H(m) == BlockHash(m, IF m = c + 1 THEN txs ELSE {})
           NewHashes == {H(m) : m \in New}
           s2 == MineBlocks(s, txs, k)
<1>1. /\ s2.current = c + k
      /\ \A m \in 0 .. MaxBlock :
            s2.blockHashes[m] = IF m \in New THEN H(m) ELSE s.blockHashes[m]
      /\ \A x \in Hash :
            s2.blocks[x] = IF x \in NewHashes THEN [number |-> x[1], txs |-> x[2]]
                           ELSE s.blocks[x]
      /\ \A t \in Txs :
            s2.txResults[t] = IF t \in txs THEN H(c + 1) ELSE s.txResults[t]
    BY DEF MineBlocks
<1>2. /\ c \in 0 .. MaxBlock
      /\ \A m \in New : m \in 0 .. MaxBlock /\ H(m) \in Hash /\ H(m)[1] = m
      /\ \A m \in New : H(m) # None
      /\ H(c + 1)[2] = txs
      /\ \A m \in New : m # c + 1 => H(m)[2] = {}
    BY DEF ChainState, BlockHash, Hash
<1>3. \A x \in NewHashes : [number |-> x[1], txs |-> x[2]] # None
    BY <1>2 DEF ChainState
<1>4. \A h \in Hash : s.blocks[h] # None => h[1] <= c /\ h \notin NewHashes
    <2> SUFFICES ASSUME NEW h \in Hash, s.blocks[h] # None PROVE h[1] <= c
        BY <1>2
    <2>1. PICK n \in 0 .. c : h = s.blockHashes[n]
        BY DEF GoodState, ChainIndexConsistent, NoOrphanBlocks, CanonicalHashes
    <2>2. s.blocks[h].number = n
        BY <2>1 DEF GoodState, ChainIndexConsistent, HashesIndexed
    <2>3. s.blocks[h] = [number |-> h[1], txs |-> h[2]]
        BY DEF GoodState, BlocksMatchHash
    <2>4. QED
        BY <2>2, <2>3
<1>5. Contiguous(s2)
    <2> SUFFICES ASSUME NEW m \in 0 .. MaxBlock
                 PROVE  s2.blockHashes[m] # None <=> m <= s2.current
        BY DEF Contiguous
    <2>1. CASE m \in New
        BY <2>1, <1>1, <1>2
    <2>2. CASE m \notin New
        <3>1. s2.blockHashes[m] = s.blockHashes[m]
            BY <2>2, <1>1
        <3>2. s.blockHashes[m] # None <=> m <= c
            BY DEF GoodState, ChainIndexConsistent, Contiguous
        <3>3. m <= c <=> m <= c + k
            BY <2>2, <1>2
        <3>4. QED
            BY <3>1, <3>2, <3>3, <1>1
    <2>3. QED
        BY <2>1, <2>2
<1>6. BlocksMatchHash(s2)
    BY <1>1 DEF GoodState, BlocksMatchHash
<1>7. HashesIndexed(s2)
    <2> SUFFICES ASSUME NEW n \in 0 .. s2.current
                 PROVE  /\ s2.blocks[s2.blockHashes[n]] # None
                        /\ s2.blocks[s2.blockHashes[n]].number = n
        BY DEF HashesIndexed
    <2>1. CASE n \in New
        <3>1. n \in 0 .. MaxBlock /\ s2.blockHashes[n] = H(n)
            BY <2>1, <1>1, <1>2
        <3>2. H(n) \in NewHashes /\ H(n) \in Hash
            BY <2>1, <1>2
        <3>3. s2.blocks[H(n)] = [number |-> H(n)[1], txs |-> H(n)[2]]
            BY <3>2, <1>1
        <3>4. QED
            BY <2>1, <3>1, <3>2, <3>3, <1>2, <1>3
    <2>2. CASE n \notin New
        <3>1. n \in 0 .. c /\ s2.blockHashes[n] = s.blockHashes[n]
            BY <2>2, <1>1, <1>2
        <3>2. s.blockHashes[n] \in Hash /\ s.blocks[s.blockHashes[n]] # None
              /\ s.blocks[s.blockHashes[n]].number = n
            <4>1. s.blockHashes[n] \in Hash \cup {None}
                BY <3>1 DEF ChainState
            <4>2. s.blockHashes[n] # None
                BY <3>1, <1>2 DEF GoodState, ChainIndexConsistent, Contiguous
            <4>3. QED
                BY <3>1, <4>1, <4>2 DEF GoodState, ChainIndexConsistent, HashesIndexed
        <3>3. QED
            BY <3>1, <3>2, <1>1, <1>4
    <2>3. QED
        BY <2>1, <2>2
<1>8. NoOrphanBlocks(s2)
    <2> SUFFICES ASSUME NEW h \in Hash, s2.blocks[h] # None
                 PROVE  \E n \in 0 .. s2.current : h = s2.blockHashes[n]
        BY DEF NoOrphanBlocks, CanonicalHashes
    <2>1. CASE h \in NewHashes
        <3>1. PICK m \in New : h = H(m)
            BY <2>1
        <3>2. m \in 0 .. s2.current /\ s2.blockHashes[m] = H(m)
            BY <1>1, <1>2
        <3>3. QED
            BY <3>1, <3>2
    <2>2. CASE h \notin NewHashes
        <3>1. PICK n \in 0 .. c : h = s.blockHashes[n]
            BY <2>2, <1>1 DEF GoodState, ChainIndexConsistent, NoOrphanBlocks,
                              CanonicalHashes
        <3>2. QED
            BY <3>1, <1>1, <1>2
    <2>3. QED
        BY <2>1, <2>2
<1>9. ResultsOfBlocks(s2)
    <2> SUFFICES ASSUME NEW h \in Hash, s2.blocks[h] # None, NEW t \in s2.blocks[h].txs
                 PROVE  s2.txResults[t] = h
        BY DEF ResultsOfBlocks
    <2>1. CASE h \in NewHashes
        <3>1. PICK m \in New : h = H(m)
            BY <2>1
        <3>2. s2.blocks[h] = [number |-> h[1], txs |-> h[2]]
            BY <2>1, <1>1
        <3>3. t \in txs /\ m = c + 1
            BY <3>1, <3>2, <1>2
        <3>4. QED
            BY <3>1, <3>2, <3>3, <1>1
    <2>2. CASE h \notin NewHashes
        <3>1. s.blocks[h] # None /\ t \in s.blocks[h].txs
            BY <2>2, <1>1
        <3>2. s.blocks[h] \in BlockRec
            BY <3>1 DEF ChainState
        <3>3. t \in Txs /\ s.txResults[t] = h
            BY <3>1, <3>2 DEF GoodState, ChainIndexConsistent, ResultsOfBlocks, BlockRec
        <3>4. t \notin txs
            BY <3>3, <1>2 DEF ChainState, Hash
        <3>5. QED
            BY <3>3, <3>4, <1>1
    <2>3. QED
        BY <2>1, <2>2
<1>10. ResultsInBlocks(s2)
    <2> SUFFICES ASSUME NEW t \in Txs, s2.txResults[t] # None
                 PROVE  /\ s2.blocks[s2.txResults[t]] # None
                        /\ t \in s2.blocks[s2.txResults[t]].txs
        BY DEF ResultsInBlocks
    <2>1. CASE t \in txs
        <3>1. c + 1 \in New /\ H(c + 1) \in NewHashes /\ H(c + 1) \in Hash
            BY <1>2
        <3>2. s2.txResults[t] = H(c + 1)
            BY <2>1, <1>1
        <3>3. s2.blocks[H(c + 1)] = [number |-> H(c + 1)[1], txs |-> H(c + 1)[2]]
            BY <3>1, <1>1
        <3>4. QED
            BY <2>1, <3>1, <3>2, <3>3, <1>2, <1>3
    <2>2. CASE t \notin txs
        <3>1. s.txResults[t] # None /\ s2.txResults[t] = s.txResults[t]
            BY <2>2, <1>1
        <3>2. s.txResults[t] \in Hash
            BY <3>1 DEF ChainState
        <3>3. s.blocks[s.txResults[t]] # None /\ t \in s.blocks[s.txResults[t]].txs
            BY <3>1 DEF GoodState, ChainIndexConsistent, ResultsInBlocks
        <3>4. QED
            BY <3>1, <3>2, <3>3, <1>1, <1>4
    <2>3. QED
        BY <2>1, <2>2
<1>11. ResultsExtend(s, s2)
    BY <1>1 DEF ResultsExtend
<1>12. QED
    BY <1>5, <1>6, <1>7, <1>8, <1>9, <1>10, <1>11 DEF GoodState, ChainIndexConsistent

(* Every step of Next keeps the state well typed.                          *)
LEMMA TypeCorrect_Step == TypeOK /\ [Next]_vars => TypeOK'
<1> USE NodeAssumption
<1> SUFFICES ASSUME TypeOK, [Next]_vars PROVE TypeOK'
    OBVIOUS
<1>1. ASSUME NEW t \in Txs, SubmitTx(t) \/ DropTransaction(t)
      PROVE  TypeOK'
    BY <1>1 DEF SubmitTx, DropTransaction, TypeOK
<1>2. ASSUME NEW k \in 1 .. MaxMine, AnvilMine(k) PROVE TypeOK'
    <2>1. PICK included \in SUBSET pool : inner' = MineBlocks(inner, included, k)
        BY <1>2 DEF AnvilMine
    <2>2. inner' \in ChainState
        BY <1>2, <2>1, MineBlocksType DEF AnvilMine, TypeOK
    <2>3. QED
        BY <1>2, <2>2 DEF AnvilMine, TypeOK
<1>3. ASSUME MineDetailed PROVE TypeOK'
    <2>1. PICK included \in SUBSET pool : inner' = MineBlocks(inner, included, 1)
        BY <1>3 DEF MineDetailed, AnvilMine
    <2>2. inner' \in ChainState
        BY <1>3, <2>1, MineBlocksType DEF MineDetailed, AnvilMine, TypeOK
    <2>3. QED
        BY <1>3, <2>2 DEF MineDetailed, AnvilMine, TypeOK
<1>4. ASSUME DropAllTransactions \/ \E a \in Addresses : RemovePoolTransactions(a)
      PROVE  TypeOK'
    BY <1>4 DEF DropAllTransactions, RemovePoolTransactions, TypeOK
<1>5. ASSUME Snapshot PROVE TypeOK'
    <2>1. [id |-> nextSnapshotId, state |-> inner] \in SnapshotRec
        BY <1>5 DEF Snapshot, TypeOK, SnapshotRec
    <2>2. snapshots' \in Seq(SnapshotRec)
        BY <1>5, <2>1, AppendProperties DEF Snapshot, TypeOK, SnapshotRec
    <2>3. QED
        BY <1>5, <2>2 DEF Snapshot, TypeOK, SnapshotRec
<1>6. ASSUME NEW id \in 1 .. MaxSnapshotId, Revert(id) PROVE TypeOK'
    <2>1. PICK i \in DOMAIN snapshots : snapshots[i].id = id /\ RevertSnapshot(i)
        BY <1>6 DEF Revert
    <2>0. snapshots \in Seq(SnapshotRec)
        BY DEF TypeOK, SnapshotRec
    <2>2. /\ i \in 1 .. Len(snapshots)
          /\ snapshots[i] \in SnapshotRec
        BY <2>0, LenProperties
    <2>3. inner' \in ChainState
        BY <2>1, <2>2 DEF RevertSnapshot, SnapshotRec
    <2>4. snapshots' \in Seq(SnapshotRec)
        <3>1. \A j \in 1 .. i - 1 : snapshots[j] \in SnapshotRec
            BY <2>0, <2>2, LenProperties
        <3>2. QED
            BY <2>1, <2>2, <3>1, SubSeqProperties DEF RevertSnapshot
    <2>5. QED
        BY <2>1, <2>3, <2>4 DEF RevertSnapshot, TypeOK, SnapshotRec
<1>7. CASE UNCHANGED vars
    BY <1>7 DEF vars, TypeOK
<1>8. QED
    BY <1>1, <1>2, <1>3, <1>4, <1>5, <1>6, <1>7 DEF Next

LEMMA GenesisType == Genesis \in ChainState
BY NodeAssumption DEF Genesis, ChainState, Hash, BlockHash, BlockRec

(* The type invariant holds in every reachable state.                     *)
THEOREM TypeCorrect == Spec => []TypeOK
<1>1. Init => TypeOK
    BY GenesisType, NodeAssumption DEF Init, TypeOK
<1>2. QED
    BY <1>1, TypeCorrect_Step, PTL DEF Spec

(* ResultsExtend is transitive.                                           *)
LEMMA ResultsExtendTrans ==
    ASSUME NEW a, NEW b, NEW c, ResultsExtend(a, b), ResultsExtend(b, c)
    PROVE  ResultsExtend(a, c)
BY DEF ResultsExtend

(* A step of Next that seals blocks: the sealed state is good, extends    *)
(* the results, and the pool is empty afterwards.                          *)
LEMMA MineStep ==
    ASSUME IInv, NEW k \in 1 .. MaxMine, AnvilMine(k)
    PROVE  IInv'
<1> USE NodeAssumption
<1>1. PICK included \in SUBSET pool : inner' = MineBlocks(inner, included, k)
    BY DEF AnvilMine
<1>2. /\ inner \in ChainState /\ GoodState(inner)
      /\ included \in SUBSET Txs
      /\ \A t \in included : inner.txResults[t] = None
      /\ k \in Nat \ {0} /\ inner.current + k <= MaxBlock
    BY <1>1 DEF IInv, TypeOK, PoolFresh, AnvilMine
<1>3. GoodState(inner') /\ ResultsExtend(inner, inner')
    BY <1>1, <1>2, MineBlocksGood
<1>4. TypeOK'
    BY TypeCorrect_Step, IInv DEF IInv, Next
<1>5. PoolFresh'
    BY DEF AnvilMine, PoolFresh
<1>6. \A i \in DOMAIN snapshots' :
         /\ GoodState(snapshots'[i].state)
         /\ ResultsExtend(snapshots'[i].state, inner')
    BY <1>3, ResultsExtendTrans DEF AnvilMine, IInv
<1>7. UNCHANGED snapshots
    BY DEF AnvilMine
<1>8. QED
    BY <1>3, <1>4, <1>5, <1>6, <1>7 DEF IInv
(***************************************************************************)
(* Every step of Next keeps the inductive invariant: one case per writer. *)
(***************************************************************************)
LEMMA IInvStep == IInv /\ [Next]_vars => IInv'
<1> USE NodeAssumption
<1> SUFFICES ASSUME IInv, [Next]_vars PROVE IInv'
    OBVIOUS
<1>0. TypeOK'
    BY TypeCorrect_Step DEF IInv
<1>1. ASSUME NEW t \in Txs, SubmitTx(t) PROVE IInv'
    BY <1>0, <1>1 DEF SubmitTx, IInv, PoolFresh
<1>2. ASSUME pool' \subseteq pool, UNCHANGED <<inner, snapshots, nextSnapshotId>>
      PROVE  IInv'
    BY <1>0, <1>2 DEF IInv, PoolFresh
<1>3. ASSUME NEW k \in 1 .. MaxMine, AnvilMine(k) PROVE IInv'
    BY <1>3, MineStep
<1>4. ASSUME MineDetailed PROVE IInv'
    <2>1. 1 \in 1 .. MaxMine
        OBVIOUS
    <2>2. QED
        BY <1>4, <2>1, MineStep DEF MineDetailed
<1>5. ASSUME Snapshot PROVE IInv'
    <2> DEFINE e == [id |-> nextSnapshotId, state |-> inner]
    <2>1. snapshots \in Seq(SnapshotRec)
        BY DEF IInv, TypeOK, SnapshotRec
    <2>2. e \in SnapshotRec
        BY <1>5 DEF IInv, TypeOK, SnapshotRec, Snapshot
    <2>3. /\ snapshots' = Append(snapshots, e)
          /\ DOMAIN snapshots' = 1 .. Len(snapshots) + 1
          /\ \A i \in 1 .. Len(snapshots) : snapshots'[i] = snapshots[i]
          /\ snapshots'[Len(snapshots) + 1] = e
          /\ DOMAIN snapshots = 1 .. Len(snapshots)
        BY <1>5, <2>1, <2>2, AppendProperties, LenProperties DEF Snapshot
    <2>4. UNCHANGED <<inner, pool>>
        BY <1>5 DEF Snapshot
    <2>5. \A i \in DOMAIN snapshots' :
             /\ GoodState(snapshots'[i].state)
             /\ ResultsExtend(snapshots'[i].state, inner')
        BY <2>3, <2>4 DEF IInv, ResultsExtend
    <2>6. \A i, j \in DOMAIN snapshots' :
             i < j => ResultsExtend(snapshots'[i].state, snapshots'[j].state)
        <3> SUFFICES ASSUME NEW i \in DOMAIN snapshots', NEW j \in DOMAIN snapshots',
                            i < j
                     PROVE  ResultsExtend(snapshots'[i].state, snapshots'[j].state)
            OBVIOUS
        <3>1. i \in DOMAIN snapshots /\ snapshots'[i] = snapshots[i]
            BY <2>3
        <3>2. CASE j = Len(snapshots) + 1
            BY <2>3, <3>1, <3>2 DEF IInv
        <3>3. CASE j # Len(snapshots) + 1
            BY <2>3, <3>1, <3>3 DEF IInv
        <3>4. QED
            BY <3>2, <3>3
    <2>7. QED
        BY <1>0, <2>4, <2>5, <2>6 DEF IInv, PoolFresh
<1>6. ASSUME NEW id \in 1 .. MaxSnapshotId, Revert(id) PROVE IInv'
    <2>1. PICK i \in DOMAIN snapshots : RevertSnapshot(i)
        BY <1>6 DEF Revert
    <2>2. snapshots \in Seq(SnapshotRec)
        BY DEF IInv, TypeOK, SnapshotRec
    <2>3. /\ i \in 1 .. Len(snapshots)
          /\ DOMAIN snapshots = 1 .. Len(snapshots)
        BY <2>2, LenProperties
    <2>4. /\ DOMAIN snapshots' = 1 .. i - 1
          /\ \A j \in 1 .. i - 1 : snapshots'[j] = snapshots[j]
        BY <2>1, <2>2, <2>3, SubSeqProperties DEF RevertSnapshot
    <2>5. inner' = snapshots[i].state /\ UNCHANGED <<pool, nextSnapshotId>>
        BY <2>1 DEF RevertSnapshot
    <2>6. GoodState(inner')
        BY <2>5 DEF IInv
    <2>7. PoolFresh'
        BY <2>5 DEF IInv, PoolFresh, ResultsExtend, TypeOK
    <2>8. \A j \in DOMAIN snapshots' :
             /\ GoodState(snapshots'[j].state)
             /\ ResultsExtend(snapshots'[j].state, inner')
        BY <2>3, <2>4, <2>5 DEF IInv
    <2>9. \A j, l \in DOMAIN snapshots' :
             j < l => ResultsExtend(snapshots'[j].state, snapshots'[l].state)
        BY <2>3, <2>4 DEF IInv
    <2>10. QED
        BY <1>0, <2>6, <2>7, <2>8, <2>9 DEF IInv
<1>7. CASE UNCHANGED vars
    BY <1>0, <1>7 DEF vars, IInv, PoolFresh
<1>8. QED
    <2>1. ASSUME NEW t \in Txs, DropTransaction(t) PROVE IInv'
        BY <2>1, <1>2 DEF DropTransaction
    <2>2. ASSUME DropAllTransactions PROVE IInv'
        BY <2>2, <1>2 DEF DropAllTransactions
    <2>3. ASSUME NEW a \in Addresses, RemovePoolTransactions(a) PROVE IInv'
        BY <2>3, <1>2 DEF RemovePoolTransactions
    <2>4. QED
        BY <1>1, <1>3, <1>4, <1>5, <1>6, <1>7, <2>1, <2>2, <2>3 DEF Next

(* The initial state satisfies the inductive invariant.                   *)
LEMMA IInvInit == Init => IInv
<1> USE NodeAssumption
<1> SUFFICES ASSUME Init PROVE IInv
    OBVIOUS
<1>1. TypeOK
    BY GenesisType DEF Init, TypeOK
<1>2. /\ BlockHash(0, {}) \in Hash
      /\ BlockHash(0, {})[1] = 0 /\ BlockHash(0, {})[2] = {}
      /\ BlockHash(0, {}) # None
      /\ [number |-> 0, txs |-> {}] # None
    <2>1. BlockHash(0, {}) \in Nat \X (SUBSET Txs)
        BY DEF BlockHash
    <2>2. [number |-> 0, txs |-> {}] \in [number : Nat, txs : SUBSET Txs]
        OBVIOUS
    <2>3. QED
        BY <2>1, <2>2 DEF BlockHash, Hash
<1>3. GoodState(Genesis)
    <2>1. Contiguous(Genesis) /\ HashesIndexed(Genesis)
        BY <1>2 DEF Contiguous, HashesIndexed, Genesis
    <2>2. NoOrphanBlocks(Genesis)
        BY <1>2 DEF NoOrphanBlocks, CanonicalHashes, Genesis
    <2>3. ResultsOfBlocks(Genesis) /\ ResultsInBlocks(Genesis)
        BY <1>2 DEF ResultsOfBlocks, ResultsInBlocks, Genesis
    <2>4. BlocksMatchHash(Genesis)
        BY <1>2 DEF BlocksMatchHash, Genesis
    <2>5. QED
        BY <2>1, <2>2, <2>3, <2>4 DEF GoodState, ChainIndexConsistent
<1>4. QED
    BY <1>1, <1>3 DEF Init, IInv, PoolFresh

(***************************************************************************)
(* After any sequence of submissions, drops, mines, snapshots and reverts *)
(* the live block/transaction index is consistent (the run node checks    *)
(* BlockTxBijection on a small instance; this is every instance).        *)
(***************************************************************************)
THEOREM IndexConsistent == Spec => []BlockTxBijection
<1>1. IInv => BlockTxBijection
    BY DEF IInv, GoodState, BlockTxBijection
<1>2. QED
    BY <1>1, IInvInit, IInvStep, PTL DEF Spec
-----------------------------------------------------------------------------
(* Sealing only appends: the old chain is a prefix of the sealed one.      *)
LEMMA MinePrefix ==
    ASSUME NEW s \in ChainState, NEW txs, NEW k \in Nat
    PROVE  IsChainPrefix(s, MineBlocks(s, txs, k))
<1>1. \A n \in 0 .. s.current : n \in 0 .. MaxBlock /\ n \notin s.current + 1 .. s.current + k
    BY NodeAssumption DEF ChainState
<1>2. MineBlocks(s, txs, k).current = s.current + k /\ s.current \in Nat
    BY NodeAssumption DEF MineBlocks, ChainState
<1>3. \A n \in 0 .. s.current :
         MineBlocks(s, txs, k).blockHashes[n] = s.blockHashes[n]
    BY <1>1 DEF MineBlocks
<1>4. QED
    BY <1>2, <1>3 DEF IsChainPrefix

(* Being a prefix is transitive.                                           *)
LEMMA PrefixTrans ==
    ASSUME NEW a \in ChainState, NEW b \in ChainState, NEW c \in ChainState,
           IsChainPrefix(a, b), IsChainPrefix(b, c)
    PROVE  IsChainPrefix(a, c)
BY NodeAssumption DEF IsChainPrefix, ChainState

(* Every step of Next keeps the snapshot stack ordered.                   *)
LEMMA StackStep ==
    TypeOK /\ SnapshotStackOrdered /\ [Next]_vars => SnapshotStackOrdered'
<1> USE NodeAssumption
<1> SUFFICES ASSUME TypeOK, SnapshotStackOrdered, [Next]_vars
             PROVE  SnapshotStackOrdered'
    OBVIOUS
<1>0. /\ snapshots \in Seq(SnapshotRec)
      /\ DOMAIN snapshots = 1 .. Len(snapshots)
      /\ \A i \in DOMAIN snapshots : snapshots[i] \in SnapshotRec
      /\ inner \in ChainState /\ nextSnapshotId \in Nat
    <2>1. snapshots \in Seq(SnapshotRec)
        BY DEF TypeOK, SnapshotRec
    <2>2. QED
        BY <2>1, LenProperties DEF TypeOK
<1>1. ASSUME UNCHANGED <<inner, snapshots, nextSnapshotId>>
      PROVE  SnapshotStackOrdered'
    BY <1>1 DEF SnapshotStackOrdered, IsChainPrefix
<1>2. ASSUME NEW k \in 1 .. MaxMine, AnvilMine(k) PROVE SnapshotStackOrdered'
    <2>1. PICK included \in SUBSET pool : inner' = MineBlocks(inner, included, k)
        BY <1>2 DEF AnvilMine
    <2>2. inner' \in ChainState /\ IsChainPrefix(inner, inner')
        BY <1>0, <1>2, <2>1, MineBlocksType, MinePrefix DEF AnvilMine, TypeOK
    <2>3. \A i \in DOMAIN snapshots : IsChainPrefix(snapshots[i].state, inner')
        BY <1>0, <2>2, PrefixTrans DEF SnapshotStackOrdered, SnapshotRec
    <2>4. QED
        BY <1>2, <2>3 DEF AnvilMine, SnapshotStackOrdered
<1>3. ASSUME Snapshot PROVE SnapshotStackOrdered'
    <2> DEFINE e == [id |-> nextSnapshotId, state |-> inner]
    <2>1. e \in SnapshotRec
        BY <1>3 DEF TypeOK, SnapshotRec, Snapshot
    <2>2. /\ snapshots' = Append(snapshots, e)
          /\ DOMAIN snapshots' = 1 .. Len(snapshots) + 1
          /\ \A i \in 1 .. Len(snapshots) : snapshots'[i] = snapshots[i]
          /\ snapshots'[Len(snapshots) + 1] = e
        BY <1>0, <1>3, <2>1, AppendProperties DEF Snapshot
    <2>3. UNCHANGED inner /\ nextSnapshotId' = nextSnapshotId + 1
        BY <1>3 DEF Snapshot
    <2>4. \A i \in DOMAIN snapshots' :
             /\ snapshots'[i].id < nextSnapshotId'
             /\ IsChainPrefix(snapshots'[i].state, inner')
        <3> SUFFICES ASSUME NEW i \in DOMAIN snapshots'
                     PROVE  /\ snapshots'[i].id < nextSnapshotId'
                            /\ IsChainPrefix(snapshots'[i].state, inner')
            OBVIOUS
        <3>1. CASE i = Len(snapshots) + 1
            BY <1>0, <2>2, <2>3, <3>1 DEF IsChainPrefix, ChainState
        <3>2. CASE i # Len(snapshots) + 1
            BY <1>0, <2>2, <2>3, <3>2 DEF SnapshotStackOrdered, SnapshotRec
        <3>3. QED
            BY <3>1, <3>2
    <2>5. \A i, j \in DOMAIN snapshots' : i < j =>
             /\ snapshots'[i].id < snapshots'[j].id
             /\ IsChainPrefix(snapshots'[i].state, snapshots'[j].state)
        <3> SUFFICES ASSUME NEW i \in DOMAIN snapshots', NEW j \in DOMAIN snapshots',
                            i < j
                     PROVE  /\ snapshots'[i].id < snapshots'[j].id
                            /\ IsChainPrefix(snapshots'[i].state, snapshots'[j].state)
            OBVIOUS
        <3>1. i \in DOMAIN snapshots /\ snapshots'[i] = snapshots[i]
            BY <1>0, <2>2
        <3>2. CASE j = Len(snapshots) + 1
            BY <2>2, <3>1, <3>2 DEF SnapshotStackOrdered
        <3>3. CASE j # Len(snapshots) + 1
            BY <1>0, <2>2, <3>1, <3>3 DEF SnapshotStackOrdered
        <3>4. QED
            BY <3>2, <3>3
    <2>6. QED
        BY <2>4, <2>5 DEF SnapshotStackOrdered
<1>4. ASSUME NEW id \in 1 .. MaxSnapshotId, Revert(id) PROVE SnapshotStackOrdered'
    <2>1. PICK i \in DOMAIN snapshots : RevertSnapshot(i)
        BY <1>4 DEF Revert
    <2>2. /\ DOMAIN snapshots' = 1 .. i - 1
          /\ \A j \in 1 .. i - 1 : snapshots'[j] = snapshots[j]
        BY <1>0, <2>1, SubSeqProperties DEF RevertSnapshot
    <2>3. inner' = snapshots[i].state /\ UNCHANGED nextSnapshotId
        BY <2>1 DEF RevertSnapshot
    <2>4. \A j \in DOMAIN snapshots' :
             /\ snapshots'[j].id < nextSnapshotId'
             /\ IsChainPrefix(snapshots'[j].state, inner')
        BY <1>0, <2>2, <2>3 DEF SnapshotStackOrdered
    <2>5. \A j, l \in DOMAIN snapshots' : j < l =>
             /\ snapshots'[j].id < snapshots'[l].id
             /\ IsChainPrefix(snapshots'[j].state, snapshots'[l].state)
        BY <1>0, <2>2 DEF SnapshotStackOrdered
    <2>6. QED
        BY <2>4, <2>5 DEF SnapshotStackOrdered
<1>5. CASE UNCHANGED vars
    BY <1>1, <1>5 DEF vars
<1>6. QED
    BY <1>1, <1>2, <1>3, <1>4, <1>5
       DEF Next, MineDetailed, SubmitTx, DropTransaction, DropAllTransactions,
           RemovePoolTransactions

(***************************************************************************)
(* The snapshot stack stays ordered under evm_snapshot / evm_revert and   *)
(* any mining: ids increase and stay below the next id, and each          *)
(* checkpoint's chain is a prefix of every later one and of the live      *)
(* chain, so a revert never leaves a newer checkpoint behind.             *)
(***************************************************************************)
THEOREM StackOrdered == Spec => []SnapshotStackOrdered
<1>1. Init => SnapshotStackOrdered
    BY DEF Init, SnapshotStackOrdered
<1>2. QED
    BY <1>1, TypeCorrect, StackStep, PTL DEF Spec

(* A step adds to the stack at most the id nextSnapshotId, which no id     *)
(* below nextSnapshotId equals.                                           *)
LEMMA DeadIdStep ==
    ASSUME TypeOK, [Next]_vars
    PROVE  \A id \in 1 .. nextSnapshotId - 1 : id \notin StackIds => id \notin StackIds'
<1> USE NodeAssumption
<1> SUFFICES ASSUME NEW id \in 1 .. nextSnapshotId - 1, id \notin StackIds
             PROVE  id \notin StackIds'
    OBVIOUS
<1>0. /\ snapshots \in Seq(SnapshotRec)
      /\ DOMAIN snapshots = 1 .. Len(snapshots)
      /\ nextSnapshotId \in Nat
    <2>1. snapshots \in Seq(SnapshotRec)
        BY DEF TypeOK, SnapshotRec
    <2>2. QED
        BY <2>1, LenProperties DEF TypeOK
<1>1. CASE UNCHANGED snapshots
    BY <1>1 DEF StackIds
<1>2. CASE Snapshot
    <2> DEFINE e == [id |-> nextSnapshotId, state |-> inner]
    <2>1. e \in SnapshotRec
        BY <1>2 DEF TypeOK, SnapshotRec, Snapshot
    <2>2. /\ DOMAIN snapshots' = 1 .. Len(snapshots) + 1
          /\ \A i \in 1 .. Len(snapshots) : snapshots'[i] = snapshots[i]
          /\ snapshots'[Len(snapshots) + 1] = e
        BY <1>0, <1>2, <2>1, AppendProperties DEF Snapshot
    <2>3. QED
        BY <1>0, <2>2 DEF StackIds
<1>3. ASSUME NEW rid \in 1 .. MaxSnapshotId, Revert(rid) PROVE id \notin StackIds'
    <2>1. PICK i \in DOMAIN snapshots : RevertSnapshot(i)
        BY <1>3 DEF Revert
    <2>2. /\ DOMAIN snapshots' = 1 .. i - 1
          /\ \A j \in 1 .. i - 1 : snapshots'[j] = snapshots[j]
        BY <1>0, <2>1, SubSeqProperties DEF RevertSnapshot
    <2>3. QED
        BY <1>0, <2>2 DEF StackIds
<1>4. QED
    BY <1>1, <1>2, <1>3
       DEF Next, vars, SubmitTx, DropTransaction, AnvilMine, MineDetailed,
           DropAllTransactions, RemovePoolTransactions

(***************************************************************************)
(* evm_revert consumes ids for good: an id handed out by evm_snapshot and *)
(* no longer on the stack never comes back, so a later evm_revert of it   *)
(* keeps failing.                                                          *)
(***************************************************************************)
THEOREM ConsumedIdsDead == Spec => ConsumedIdsStayDead
<1>1. TypeOK /\ [Next]_vars =>
        [\A id \in 1 .. nextSnapshotId - 1 : id \notin StackIds => id \notin StackIds']_vars
    BY DeadIdStep
<1>2. QED
    BY <1>1, TypeCorrect, PTL DEF Spec, ConsumedIdsStayDead
=============================================================================
