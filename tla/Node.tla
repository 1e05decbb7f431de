-------------------------------- MODULE Node --------------------------------
(***************************************************************************)
(* The node's state aggregate and the operations that write it: the chain *)
(* index (block_hashes, blocks, tx_results, current_miniblock) held in    *)
(* the RwLock-guarded InMemoryNodeInner, the transaction pool the sealer  *)
(* drains, and the snapshot stack.  Every writer takes the inner lock     *)
(* exclusively, so each operation here is one atomic step.               *)
(***************************************************************************)
EXTENDS Naturals, FiniteSets, Sequences

CONSTANTS
    Txs,            \* transaction hashes
    Addresses,      \* account addresses
    Sender,         \* Sender[t]: the initiator of transaction t
    MaxBlock,       \* bound on current_miniblock
    MaxMine,        \* bound on the num_blocks argument of anvil_mine
    MaxSnapshotId,  \* bound on the snapshot ids handed out
    None            \* the absent entry of a map (HashMap::get gives None)

ASSUME NodeAssumption ==
    /\ Sender \in [Txs -> Addresses]
    /\ None \notin (Nat \X SUBSET Txs)
    /\ None \notin [number : Nat, txs : SUBSET Txs]
    /\ MaxBlock \in Nat
    /\ MaxMine \in Nat \ {0}
    /\ MaxSnapshotId \in Nat

VARIABLES
    inner,          \* the chain index fields of InMemoryNodeInner
    pool,           \* pending transactions (the mempool's queue)
    snapshots,      \* stack of [id, state] checkpoints, oldest first
    nextSnapshotId  \* id the next snapshot() returns

vars == <<inner, pool, snapshots, nextSnapshotId>>

(* A block hash is computed from the block's number and contents.         *)
Hash == (0 .. MaxBlock) \X (SUBSET Txs)
BlockHash(n, txs) == <<n, txs>>

BlockRec == [number : 0 .. MaxBlock, txs : SUBSET Txs]

(* The chain index as the node keeps it: block_hashes (number -> hash),   *)
(* blocks (hash -> block), tx_results (tx hash -> the block holding the   *)
(* result) and current_miniblock.  Absent entries are None.               *)
ChainState ==
    [current     : 0 .. MaxBlock,
     blockHashes : [0 .. MaxBlock -> Hash \cup {None}],
     blocks      : [Hash -> BlockRec \cup {None}],
     txResults   : [Txs -> Hash \cup {None}]]

(***************************************************************************)
(* seal_block, applied num_blocks times by mine_blocks: the first block   *)
(* carries the transactions taken from the pool, the others are empty.    *)
(* Each block gets the next contiguous number; each included transaction *)
(* gets a result recorded against the block that holds it.                *)
(***************************************************************************)
MineBlocks(s, txs, k) ==
    LET H(m) == BlockHash(m, IF m = s.current + 1 THEN txs ELSE {})
        New  == s.current + 1 .. s.current + k
    IN  [current     |-> s.current + k,
         blockHashes |-> [m \in 0 .. MaxBlock |->
                            IF m \in New THEN H(m) ELSE s.blockHashes[m]],
         blocks      |-> [x \in Hash |->
                            IF x \in {H(m) : m \in New}
                            THEN [number |-> x[1], txs |-> x[2]]
                            ELSE s.blocks[x]],
         txResults   |-> [t \in Txs |->
                            IF t \in txs THEN H(s.current + 1)
                            ELSE s.txResults[t]]]

Genesis ==
    [current     |-> 0,
     blockHashes |-> [m \in 0 .. MaxBlock |->
                        IF m = 0 THEN BlockHash(0, {}) ELSE None],
     blocks      |-> [x \in Hash |->
                        IF x = BlockHash(0, {})
                        THEN [number |-> 0, txs |-> {}] ELSE None],
     txResults   |-> [t \in Txs |-> None]]

Init ==
    /\ inner = Genesis
    /\ pool = {}
    /\ snapshots = << >>
    /\ nextSnapshotId = 1

-----------------------------------------------------------------------------
(* Wrong variant of SubmitTx: the pool does not reject an included one.  *)
SubmitTxNoNonceCheck(t) ==
    /\ t \notin pool
    /\ pool' = pool \cup {t}
    /\ UNCHANGED <<inner, snapshots, nextSnapshotId>>

(* eth_sendRawTransaction: the pool accepts a transaction that is neither *)
(* pending nor already included (its nonce would be used).               *)
SubmitTx(t) ==
    /\ t \notin pool
    /\ inner.txResults[t] = None
    /\ pool' = pool \cup {t}
    /\ UNCHANGED <<inner, snapshots, nextSnapshotId>>

(* anvil_mine(num_blocks, interval): seal num_blocks blocks at once.      *)
(* The sealer takes the pending transactions; the ones that fail         *)
(* validation are dropped, the rest go into the first block.             *)
AnvilMine(k) ==
    /\ inner.current + k <= MaxBlock
    /\ \E included \in SUBSET pool :
          inner' = MineBlocks(inner, included, k)
    /\ pool' = {}
    /\ UNCHANGED <<snapshots, nextSnapshotId>>

(* anvil_mine_detailed: seal exactly one block.                           *)
MineDetailed == AnvilMine(1)

(* anvil_dropTransaction(hash).                                           *)
DropTransaction(t) ==
    /\ t \in pool
    /\ pool' = pool \ {t}
    /\ UNCHANGED <<inner, snapshots, nextSnapshotId>>

(* anvil_dropAllTransactions.                                             *)
DropAllTransactions ==
    /\ pool' = {}
    /\ UNCHANGED <<inner, snapshots, nextSnapshotId>>

(* anvil_removePoolTransactions(address): drop every pending transaction *)
(* sent by address.                                                       *)
RemovePoolTransactions(a) ==
    /\ pool' = {t \in pool : Sender[t] # a}
    /\ UNCHANGED <<inner, snapshots, nextSnapshotId>>

(* Wrong variant of Snapshot: the id is the stack length, so ids of       *)
(* consumed checkpoints are handed out again.                             *)
SnapshotLenId ==
    /\ nextSnapshotId <= MaxSnapshotId
    /\ snapshots' = Append(snapshots, [id |-> Len(snapshots) + 1, state |-> inner])
    /\ nextSnapshotId' = nextSnapshotId + 1
    /\ UNCHANGED <<inner, pool>>

(* evm_snapshot: push a copy of the whole inner state, return a fresh id. *)
Snapshot ==
    /\ nextSnapshotId <= MaxSnapshotId
    /\ snapshots' = Append(snapshots, [id |-> nextSnapshotId, state |-> inner])
    /\ nextSnapshotId' = nextSnapshotId + 1
    /\ UNCHANGED <<inner, pool>>

(* evm_revert(id): restore the checkpoint with that id and drop it and    *)
(* every later one.  An id not on the stack returns false and changes    *)
(* nothing (a stuttering step, not listed).                               *)
(* Wrong variant of RevertSnapshot: only the target checkpoint is dropped. *)
RevertSnapshotKeepLater(i) ==
    /\ inner' = snapshots[i].state
    /\ snapshots' = SubSeq(snapshots, 1, i - 1) \o SubSeq(snapshots, i + 1, Len(snapshots))
    /\ UNCHANGED <<pool, nextSnapshotId>>

(* Wrong variant of RevertSnapshot: restores the stack entry (id and     *)
(* state) in place of the state it holds.                                 *)
RevertSnapshotWholeEntry(i) ==
    /\ inner' = snapshots[i]
    /\ snapshots' = SubSeq(snapshots, 1, i - 1)
    /\ UNCHANGED <<pool, nextSnapshotId>>

RevertSnapshot(i) ==
    /\ inner' = snapshots[i].state
    /\ snapshots' = SubSeq(snapshots, 1, i - 1)
    /\ UNCHANGED <<pool, nextSnapshotId>>

Revert(id) ==
    \E i \in DOMAIN snapshots :
        /\ snapshots[i].id = id
        /\ RevertSnapshot(i)

Next ==
    \/ \E t \in Txs : SubmitTx(t) \/ DropTransaction(t)
    \/ \E k \in 1 .. MaxMine : AnvilMine(k)
    \/ MineDetailed
    \/ DropAllTransactions
    \/ \E a \in Addresses : RemovePoolTransactions(a)
    \/ Snapshot
    \/ \E id \in 1 .. MaxSnapshotId : Revert(id)

Spec == Init /\ [][Next]_vars

-----------------------------------------------------------------------------
(* Type invariant.                                                        *)
TypeOK ==
    /\ inner \in ChainState
    /\ pool \subseteq Txs
    /\ snapshots \in Seq([id : 1 .. MaxSnapshotId, state : ChainState])
    /\ nextSnapshotId \in 1 .. MaxSnapshotId + 1

(***************************************************************************)
(* The chain index of state s is consistent: block numbers are contiguous *)
(* from genesis to current_miniblock, block_hashes and blocks are inverse *)
(* maps with no orphan block, and every transaction of a block has its   *)
(* result recorded against that block and no other.  This is what        *)
(* seal_block must establish and what a revert must restore as a whole.  *)
(***************************************************************************)
CanonicalHashes(s) == {s.blockHashes[n] : n \in 0 .. s.current}

Contiguous(s) == \A n \in 0 .. MaxBlock : s.blockHashes[n] # None <=> n <= s.current

HashesIndexed(s) ==
    \A n \in 0 .. s.current :
        /\ s.blocks[s.blockHashes[n]] # None
        /\ s.blocks[s.blockHashes[n]].number = n

NoOrphanBlocks(s) == \A h \in Hash : s.blocks[h] # None => h \in CanonicalHashes(s)

ResultsOfBlocks(s) ==
    \A h \in Hash : s.blocks[h] # None => \A t \in s.blocks[h].txs : s.txResults[t] = h

ResultsInBlocks(s) ==
    \A t \in Txs : s.txResults[t] # None =>
        /\ s.blocks[s.txResults[t]] # None
        /\ t \in s.blocks[s.txResults[t]].txs

ChainIndexConsistent(s) ==
    /\ Contiguous(s)
    /\ HashesIndexed(s)
    /\ NoOrphanBlocks(s)
    /\ ResultsOfBlocks(s)
    /\ ResultsInBlocks(s)

(* After any sequence of submissions, drops, mines, snapshots and reverts *)
(* the node's block/transaction index is a bijection (spec section 8).    *)
BlockTxBijection == ChainIndexConsistent(inner)

(* s's chain is a prefix of t's: same blocks up to s's current number.     *)
IsChainPrefix(s, t) ==
    /\ s.current <= t.current
    /\ \A n \in 0 .. s.current : s.blockHashes[n] = t.blockHashes[n]

(***************************************************************************)
(* The snapshot stack is ordered: ids strictly increase and stay below    *)
(* the next id, and each checkpoint's chain is a prefix of every later    *)
(* checkpoint's and of the live chain.  A revert that left newer          *)
(* checkpoints behind would break this.                                   *)
(***************************************************************************)
SnapshotStackOrdered ==
    /\ \A i \in DOMAIN snapshots :
          /\ snapshots[i].id < nextSnapshotId
          /\ IsChainPrefix(snapshots[i].state, inner)
    /\ \A i, j \in DOMAIN snapshots : i < j =>
          /\ snapshots[i].id < snapshots[j].id
          /\ IsChainPrefix(snapshots[i].state, snapshots[j].state)

StackIds == {snapshots[i].id : i \in DOMAIN snapshots}

(* A snapshot id, once handed out and then consumed by a revert, never    *)
(* becomes revertible again: evm_revert of it keeps failing.              *)
ConsumedIdsStayDead ==
    [][\A id \in 1 .. nextSnapshotId - 1 :
          id \notin StackIds => id \notin StackIds']_vars
=============================================================================
