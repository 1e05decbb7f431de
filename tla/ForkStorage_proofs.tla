------------------------- MODULE ForkStorage_proofs -------------------------
(***************************************************************************)
(* Proofs that the tiered fork storage is well typed and implements the   *)
(* one-map store of StoreSpec under the mapping of ForkStorage (EffStore, *)
(* Saved, Image), for all values of the constants.                        *)
(***************************************************************************)
EXTENDS ForkStorage, SequenceTheorems, TLAPS

SnapRec == [id : 1 .. MaxSnapshotId, local : Tier, cache : Tier]
BlobRec == [local : Tier, cache : Tier]
SavedRec == [id : 1 .. MaxSnapshotId, store : [Keys -> Values]]

(* A key resolves to a value whatever tiers and fork it is read through.  *)
LEMMA ResolveType ==
    ASSUME NEW l \in Tier, NEW c \in Tier, NEW f \in Forks \cup {NoFork},
           NEW k \in Keys
    PROVE  Resolve(l, c, f, k) \in Values
BY ForkStorageAssumption DEF Resolve, Tier

(* A key some local tier holds resolves the same through any fork.        *)
LEMMA ResolveHeld ==
    ASSUME NEW l \in Tier, NEW c \in Tier, NEW f \in Forks \cup {NoFork},
           NEW g \in Forks \cup {NoFork}, NEW k \in Keys,
           l[k] # Unset \/ c[k] # Unset
    PROVE  Resolve(l, c, f, k) = Resolve(l, c, g, k)
<1>1. CASE l[k] # Unset
    BY <1>1 DEF Resolve
<1>2. CASE l[k] = Unset /\ c[k] # Unset
    BY <1>2 DEF Resolve
<1>3. QED
    BY <1>1, <1>2

-----------------------------------------------------------------------------
(* Every step keeps the tiers, the checkpoints and the dump well typed.   *)
LEMMA TypeStep ==
    ASSUME StorageTypeOK, [FNext]_fvars
    PROVE  StorageTypeOK'
<1> USE ForkStorageAssumption
<1> SUFFICES ASSUME FNext PROVE StorageTypeOK'
    BY DEF StorageTypeOK, fvars
<1>1. CASE \E k \in Keys : ReadValue(k)
    BY <1>1 DEF ReadValue, StorageTypeOK, Tier
<1>2. CASE \E k \in Keys, v \in Values : SetStorageAt(k, v) \/ SetCode(k, v)
    BY <1>2 DEF SetStorageAt, SetCode, StorageTypeOK, Tier
<1>3. CASE Snapshot
    <2>1. [id |-> nextSnapshotId, local |-> local, cache |-> cache] \in SnapRec
        BY <1>3 DEF Snapshot, StorageTypeOK, SnapRec
    <2>2. snapshots' \in Seq(SnapRec)
        BY <1>3, <2>1, AppendProperties DEF Snapshot, StorageTypeOK, SnapRec
    <2>3. QED
        BY <1>3, <2>2 DEF Snapshot, StorageTypeOK, SnapRec
<1>4. CASE \E id \in 1 .. MaxSnapshotId : Revert(id)
    <2>1. PICK id \in 1 .. MaxSnapshotId : Revert(id)
        BY <1>4
    <2>2. CASE \E i \in DOMAIN snapshots :
                  /\ snapshots[i].id = id
                  /\ local' = snapshots[i].local
                  /\ cache' = snapshots[i].cache
                  /\ snapshots' = SubSeq(snapshots, 1, i - 1)
                  /\ reply' = TRUE
                  /\ UNCHANGED <<fork, nextSnapshotId, blob>>
        <3>1. PICK i \in DOMAIN snapshots :
                  /\ snapshots[i].id = id
                  /\ local' = snapshots[i].local
                  /\ cache' = snapshots[i].cache
                  /\ snapshots' = SubSeq(snapshots, 1, i - 1)
                  /\ UNCHANGED <<fork, nextSnapshotId, blob>>
            BY <2>2
        <3>2. snapshots \in Seq(SnapRec) /\ i \in 1 .. Len(snapshots)
            BY DEF StorageTypeOK, SnapRec
        <3>3. SubSeq(snapshots, 1, i - 1) \in Seq(SnapRec)
            BY <3>2, SubSeqProperties
        <3>4. snapshots[i] \in SnapRec
            BY <3>2
        <3>5. QED
            BY <3>1, <3>3, <3>4 DEF StorageTypeOK, SnapRec
    <2>3. QED
        BY <2>1, <2>2 DEF Revert, StorageTypeOK
<1>5. CASE DumpState
    BY <1>5 DEF DumpState, StorageTypeOK
<1>6. CASE LoadState
    BY <1>6 DEF LoadState, StorageTypeOK
<1>7. CASE \E f \in Forks \cup {NoFork} : ResetNetwork(f)
    BY <1>7, EmptySeq DEF ResetNetwork, StorageTypeOK, Empty, Tier
<1>8. QED
    BY <1>1, <1>2, <1>3, <1>4, <1>5, <1>6, <1>7 DEF FNext

(* The type invariant holds in every reachable state.                     *)
THEOREM StorageTypeCorrect == FSpec => []StorageTypeOK
<1>1. FInit => StorageTypeOK
    BY ForkStorageAssumption, EmptySeq
    DEF FInit, StorageTypeOK, Empty, Tier
<1>2. QED
    BY <1>1, TypeStep, PTL DEF FSpec

-----------------------------------------------------------------------------
(* The initial storage is the abstract store's initial state.             *)
LEMMA InitRefines == FInit => Abstract!SInit
<1> SUFFICES ASSUME FInit PROVE Abstract!SInit
    OBVIOUS
<1>1. EffStore = Abstract!SourceStore(fork)
    BY DEF FInit, EffStore, Resolve, Abstract!SourceStore, Empty
<1>2. Saved = << >>
    BY DEF FInit, Saved
<1>3. Image(blob) = NoBlob
    BY DEF FInit, Image
<1>4. QED
    BY <1>1, <1>2, <1>3 DEF FInit, Abstract!SInit

(* Steps that leave the tiers, the fork and the checkpoints alone leave   *)
(* the mapped store and checkpoints alone.                                *)
LEMMA MappedUnchanged ==
    ASSUME UNCHANGED <<local, cache, fork, snapshots>>
    PROVE  EffStore' = EffStore /\ Saved' = Saved
BY DEF EffStore, Saved, Resolve

(* A read: a hit or a default answers the store's value; a fetch memoizes *)
(* exactly what the key already read as; a failed fetch changes nothing.  *)
LEMMA ReadRefines ==
    ASSUME StorageTypeOK, NEW k \in Keys, ReadValue(k)
    PROVE  Abstract!SRead(k)
<1> USE ForkStorageAssumption
<1>0. UNCHANGED <<local, fork, snapshots, nextSnapshotId, blob>>
    BY DEF ReadValue
<1>1. CASE /\ \/ local[k] # Unset \/ cache[k] # Unset \/ fork = NoFork
           /\ reply' = Resolve(local, cache, fork, k)
           /\ UNCHANGED cache
    BY <1>0, <1>1, MappedUnchanged DEF Abstract!SRead, EffStore, Image
<1>2. CASE /\ local[k] = Unset /\ cache[k] = Unset /\ fork # NoFork
           /\ cache' = [cache EXCEPT ![k] = Remote[fork][k]]
           /\ reply' = Remote[fork][k]
    <2>1. Remote[fork][k] \in Values
        BY <1>2 DEF StorageTypeOK
    <2>2. \A j \in Keys : Resolve(local, cache', fork, j) = Resolve(local, cache, fork, j)
        BY <1>2, <2>1 DEF StorageTypeOK, Tier, Resolve
    <2>3. EffStore' = EffStore
        BY <1>0, <2>2 DEF EffStore
    <2>4. Saved' = Saved
        BY <1>0 DEF Saved
    <2>5. reply' = EffStore[k]
        BY <1>2 DEF EffStore, Resolve
    <2>6. QED
        BY <1>0, <2>3, <2>4, <2>5 DEF Abstract!SRead, Image
<1>3. CASE /\ local[k] = Unset /\ cache[k] = Unset /\ fork # NoFork
           /\ reply' = Unavailable
           /\ UNCHANGED cache
    BY <1>0, <1>3, MappedUnchanged DEF Abstract!SRead, Image
<1>4. QED
    BY <1>1, <1>2, <1>3 DEF ReadValue

(* An override write is a write of the one-map store, with its reply.     *)
LEMMA WriteRefines ==
    ASSUME StorageTypeOK, NEW k \in Keys, NEW v \in Values,
           SetStorageAt(k, v) \/ SetCode(k, v)
    PROVE  Abstract!SWrite(k, v)
<1> USE ForkStorageAssumption
<1>0. /\ local' = [local EXCEPT ![k] = v]
      /\ UNCHANGED <<cache, fork, snapshots, nextSnapshotId, blob>>
    BY DEF SetStorageAt, SetCode
<1>1. EffStore' = [EffStore EXCEPT ![k] = v]
    BY <1>0 DEF StorageTypeOK, Tier, EffStore, Resolve
<1>2. Saved' = Saved
    BY <1>0 DEF Saved
<1>3. reply' = IF k \in CodeKeys THEN Unit ELSE (EffStore[k] # v)
    BY DEF SetStorageAt, SetCode, EffStore
<1>4. QED
    BY <1>0, <1>1, <1>2, <1>3 DEF Abstract!SWrite, Image

(* A snapshot pushes the checkpoint of the store as it reads now.         *)
LEMMA SnapshotRefines ==
    ASSUME StorageTypeOK, Snapshot
    PROVE  Abstract!SSnapshot
<1> USE ForkStorageAssumption
<1> DEFINE rec == [id |-> nextSnapshotId, local |-> local, cache |-> cache]
<1>1. snapshots \in Seq(SnapRec) /\ rec \in SnapRec
    BY DEF StorageTypeOK, SnapRec, Snapshot
<1>2. /\ DOMAIN snapshots' = 1 .. Len(snapshots) + 1
      /\ \A i \in 1 .. Len(snapshots) : snapshots'[i] = snapshots[i]
      /\ snapshots'[Len(snapshots) + 1] = rec
    BY <1>1, AppendProperties DEF Snapshot
<1>3. DOMAIN snapshots = 1 .. Len(snapshots)
    BY <1>1
<1>4. Saved \in Seq(SavedRec) /\ Len(Saved) = Len(snapshots)
    <2>1. \A i \in 1 .. Len(snapshots) : Saved[i] \in SavedRec
        <3> SUFFICES ASSUME NEW i \in 1 .. Len(snapshots)
                     PROVE  Saved[i] \in SavedRec
            OBVIOUS
        <3>1. snapshots[i] \in SnapRec
            BY <1>1, LenProperties
        <3>2. \A k \in Keys :
                 Resolve(snapshots[i].local, snapshots[i].cache, fork, k) \in Values
            BY <3>1, ResolveType DEF SnapRec, StorageTypeOK
        <3>3. QED
            BY <1>3, <3>1, <3>2 DEF Saved, SnapRec, SavedRec
    <2>2. Saved \in [1 .. Len(snapshots) -> SavedRec]
        BY <1>3, <2>1 DEF Saved
    <2>3. Len(snapshots) \in Nat
        BY <1>1, LenProperties
    <2>4. Saved \in Seq(SavedRec)
        BY <2>2, <2>3, SeqDef
    <2>5. QED
        BY <2>2, <2>3, <2>4, LenProperties
<1>5. Saved' = Append(Saved, [id |-> nextSnapshotId, store |-> EffStore])
    <2> DEFINE r == [id |-> nextSnapshotId, store |-> EffStore]
               A == Append(Saved, r)
               n == Len(snapshots)
    <2>0. r \in SavedRec
        BY ResolveType DEF Snapshot, StorageTypeOK, EffStore, SavedRec
    <2>1. /\ A \in Seq(SavedRec) /\ Len(A) = n + 1
          /\ \A i \in 1 .. n : A[i] = Saved[i]
          /\ A[n + 1] = r
        BY <1>4, <2>0, AppendProperties
    <2>2. A = [i \in 1 .. n + 1 |-> A[i]]
        BY <2>1, LenProperties
    <2>3. Saved' = [i \in 1 .. n + 1 |-> Saved'[i]]
        BY <1>2 DEF Saved
    <2>4. \A i \in 1 .. n : Saved'[i] = Saved[i]
        BY <1>2, <1>3 DEF Saved, Snapshot
    <2>5. Saved'[n + 1] = r
        BY <1>2 DEF Saved, Snapshot, EffStore
    <2>6. \A i \in 1 .. n + 1 : Saved'[i] = A[i]
        BY <2>1, <2>4, <2>5, <1>1, LenProperties
    <2>7. QED
        BY <2>2, <2>3, <2>6
<1>6. EffStore' = EffStore
    BY DEF Snapshot, EffStore
<1>7. QED
    BY <1>5, <1>6 DEF Snapshot, Abstract!SSnapshot, Image

(* A revert restores the checkpoint the abstract store restores, and      *)
(* keeps the same earlier checkpoints; an unknown id is refused by both.  *)
LEMMA RevertRefines ==
    ASSUME StorageTypeOK, NEW id \in 1 .. MaxSnapshotId, Revert(id)
    PROVE  Abstract!SRevert(id)
<1> USE ForkStorageAssumption
<1>0. snapshots \in Seq(SnapRec) /\ DOMAIN Saved = DOMAIN snapshots
    BY DEF StorageTypeOK, SnapRec, Saved
<1>1. CASE \E i \in DOMAIN snapshots :
              /\ snapshots[i].id = id
              /\ local' = snapshots[i].local
              /\ cache' = snapshots[i].cache
              /\ snapshots' = SubSeq(snapshots, 1, i - 1)
              /\ reply' = TRUE
              /\ UNCHANGED <<fork, nextSnapshotId, blob>>
    <2>1. PICK i \in DOMAIN snapshots :
              /\ snapshots[i].id = id
              /\ local' = snapshots[i].local
              /\ cache' = snapshots[i].cache
              /\ snapshots' = SubSeq(snapshots, 1, i - 1)
              /\ reply' = TRUE
              /\ UNCHANGED <<fork, nextSnapshotId, blob>>
        BY <1>1
    <2>2. i \in 1 .. Len(snapshots)
        BY <1>0
    <2>3. Saved[i].id = id /\ EffStore' = Saved[i].store
        BY <2>1 DEF Saved, EffStore
    <2>4. /\ DOMAIN snapshots' = 1 .. i - 1
          /\ \A j \in 1 .. i - 1 : snapshots'[j] = snapshots[j]
        BY <1>0, <2>1, <2>2, SubSeqProperties
    <2>5. Saved' = SubSeq(Saved, 1, i - 1)
        BY <2>1, <2>2, <2>4 DEF Saved
    <2>6. QED
        BY <1>0, <2>1, <2>3, <2>5 DEF Abstract!SRevert, Image
<1>2. CASE /\ \A i \in DOMAIN snapshots : snapshots[i].id # id
           /\ reply' = FALSE
           /\ UNCHANGED <<local, cache, fork, snapshots, nextSnapshotId, blob>>
    <2>1. \A i \in DOMAIN Saved : Saved[i].id # id
        BY <1>0, <1>2 DEF Saved
    <2>2. QED
        BY <1>2, <2>1, MappedUnchanged DEF Abstract!SRevert, Image
<1>3. QED
    BY <1>1, <1>2 DEF Revert

(* A dump records exactly the keys a local tier holds, with the values    *)
(* they read as: values that do not depend on the fork.                   *)
LEMMA DumpRefines ==
    ASSUME StorageTypeOK, DumpState
    PROVE  Abstract!SDump
<1> USE ForkStorageAssumption
<1> DEFINE D == {j \in Keys : local[j] # Unset \/ cache[j] # Unset}
<1>1. blob' # NoBlob /\ blob'.local = local /\ blob'.cache = cache
    BY DEF DumpState, StorageTypeOK, Tier
<1>2. Image(blob') = [k \in D |-> Resolve(local, cache, NoFork, k)]
    BY <1>1 DEF Image
<1>3. \A k \in D : Resolve(local, cache, NoFork, k) = EffStore[k]
    BY ResolveHeld DEF StorageTypeOK, EffStore
<1>4. Image(blob') = [k \in D |-> EffStore[k]]
    BY <1>2, <1>3
<1>5. \E E \in SUBSET Keys : Image(blob') = [k \in E |-> EffStore[k]]
    BY <1>4
<1>6. QED
    BY <1>5, MappedUnchanged DEF DumpState, Abstract!SDump

(* A load sets every key the dump held and leaves the rest to the fork,   *)
(* as the abstract overlay does.                                          *)
LEMMA LoadRefines ==
    ASSUME StorageTypeOK, LoadState
    PROVE  Abstract!SLoad
<1> USE ForkStorageAssumption
<1> DEFINE D == {j \in Keys : blob.local[j] # Unset \/ blob.cache[j] # Unset}
<1>1. blob \in BlobRec
    BY DEF LoadState, StorageTypeOK, BlobRec
<1>2. Image(blob) = [k \in D |-> Resolve(blob.local, blob.cache, NoFork, k)]
    BY DEF LoadState, Image
<1>3. Image(blob) \in [D -> Values]
    BY <1>1, <1>2, ResolveType DEF BlobRec
<1>4. Image(blob) # NoBlob
    BY <1>3
<1>5. \A k \in Keys : EffStore'[k] = Abstract!Overlay(Image(blob), fork)[k]
    <2> SUFFICES ASSUME NEW k \in Keys
                 PROVE  EffStore'[k] = Abstract!Overlay(Image(blob), fork)[k]
        OBVIOUS
    <2>1. CASE k \in D
        <3>1. Resolve(blob.local, blob.cache, fork, k)
                = Resolve(blob.local, blob.cache, NoFork, k)
            BY <1>1, <2>1, ResolveHeld DEF BlobRec, StorageTypeOK
        <3>2. QED
            BY <1>2, <2>1, <3>1 DEF LoadState, EffStore, Abstract!Overlay
    <2>2. CASE k \notin D
        BY <1>2, <2>2 DEF LoadState, EffStore, Resolve, Abstract!Overlay,
                          Abstract!SourceStore
    <2>3. QED
        BY <2>1, <2>2
<1>6. EffStore' = Abstract!Overlay(Image(blob), fork)
    BY <1>5 DEF EffStore, Abstract!Overlay
<1>7. Saved' = Saved
    BY DEF LoadState, Saved
<1>8. QED
    BY <1>4, <1>6, <1>7 DEF LoadState, Abstract!SLoad, Image

(* A reset is a reset of the abstract store onto the same source.         *)
LEMMA ResetRefines ==
    ASSUME NEW f \in Forks \cup {NoFork}, ResetNetwork(f)
    PROVE  Abstract!SReset(f)
<1>1. EffStore' = Abstract!SourceStore(f)
    BY DEF ResetNetwork, EffStore, Empty, Resolve, Abstract!SourceStore
<1>2. Saved' = << >>
    BY DEF ResetNetwork, Saved
<1>3. QED
    BY <1>1, <1>2 DEF ResetNetwork, Abstract!SReset, Image

(* Every step of the tiered storage is a step of the one-map store or     *)
(* leaves the mapped state alone.                                         *)
LEMMA StepRefines ==
    ASSUME StorageTypeOK, [FNext]_fvars
    PROVE  [Abstract!SNext]_(Abstract!svars)
<1>1. CASE \E k \in Keys : ReadValue(k)
    BY <1>1, ReadRefines DEF Abstract!SNext
<1>2. CASE \E k \in Keys, v \in Values : SetStorageAt(k, v) \/ SetCode(k, v)
    BY <1>2, WriteRefines DEF Abstract!SNext
<1>3. CASE Snapshot
    BY <1>3, SnapshotRefines DEF Abstract!SNext
<1>4. CASE \E id \in 1 .. MaxSnapshotId : Revert(id)
    BY <1>4, RevertRefines DEF Abstract!SNext
<1>5. CASE DumpState
    BY <1>5, DumpRefines DEF Abstract!SNext
<1>6. CASE LoadState
    BY <1>6, LoadRefines DEF Abstract!SNext
<1>7. CASE \E f \in Forks \cup {NoFork} : ResetNetwork(f)
    BY <1>7, ResetRefines DEF Abstract!SNext
<1>8. CASE UNCHANGED fvars
    BY <1>8, MappedUnchanged DEF fvars, Abstract!svars, Image
<1>9. QED
    BY <1>1, <1>2, <1>3, <1>4, <1>5, <1>6, <1>7, <1>8 DEF FNext

(* The tiered fork storage implements the one-map store of StoreSpec: the *)
(* override/cache/fork tiers, the read-through memoization, the tiered    *)
(* checkpoints and the dump of both tiers are invisible to every caller.  *)
THEOREM Refinement == FSpec => StoreRefinement
<1>1. FSpec => []StorageTypeOK
    BY StorageTypeCorrect
<1>2. QED
    BY <1>1, InitRefines, StepRefines, PTL
    DEF FSpec, StoreRefinement, Abstract!SSpec
=============================================================================
