---------------------------- MODULE ForkStorage -----------------------------
(***************************************************************************)
(* The fork storage and the account overrides written into it, as the     *)
(* anvil_* handlers of anvil.rs and the read_value_internal callers of    *)
(* zks.rs drive them.  Two tiers are local (spec 4.1): the overrides the  *)
(* set_* handlers write and the cache the read-through fills; below them  *)
(* is the remote source, a fixed map per fork.  Snapshots capture both    *)
(* tiers (spec 4.2; the chain half is Node.tla); a dump exports both, a   *)
(* load imports them (spec 4.1); reset_network starts over on a new fork. *)
(***************************************************************************)
EXTENDS Naturals, Sequences

CONSTANTS
    Keys,           \* storage keys: balance, nonce and storage slots, code
    CodeKeys,       \* the keys set_code writes
    Values,         \* the values a key may hold
    Zero,           \* the default of an unfetched key without a fork
    Forks,          \* remote sources reset_network may select
    NoFork,         \* no remote source
    Remote,         \* Remote[f][k]: what fork f answers for key k
    Unset,          \* a tier that holds nothing for a key
    Unavailable,    \* the reply of a read whose remote fetch failed
    Unit,           \* the reply of a handler that returns ()
    NoBlob,         \* no dump taken yet
    MaxSnapshotId   \* bound on the snapshot ids handed out

ASSUME ForkStorageAssumption ==
    /\ CodeKeys \subseteq Keys
    /\ Zero \in Values
    /\ Unset \notin Values
    /\ NoFork \notin Forks
    /\ Remote \in [Forks -> [Keys -> Values]]
    /\ MaxSnapshotId \in Nat
    /\ NoBlob \notin [local : [Keys -> Values \cup {Unset}],
                      cache : [Keys -> Values \cup {Unset}]]
    /\ \A D \in SUBSET Keys : NoBlob \notin [D -> Values]

VARIABLES
    local,          \* local[k]: the override tier
    cache,          \* cache[k]: values memoized from the fork
    fork,           \* the configured remote source
    snapshots,      \* stack of [id, local, cache] checkpoints, oldest first
    nextSnapshotId, \* id the next snapshot() returns
    blob,           \* the last dump_state output the caller holds
    reply           \* what the last handler returned

fvars == <<local, cache, fork, snapshots, nextSnapshotId, blob, reply>>

Tier == [Keys -> Values \cup {Unset}]
Empty == [k \in Keys |-> Unset]

(* The read path of spec 4.1 without its fetch: override, then cache, then *)
(* the fork's answer, then the default.                                   *)
Resolve(l, c, f, k) ==
    IF l[k] # Unset THEN l[k]
    ELSE IF c[k] # Unset THEN c[k]
    ELSE IF f = NoFork THEN Zero
    ELSE Remote[f][k]

FInit ==
    /\ local = Empty
    /\ cache = Empty
    /\ fork \in Forks \cup {NoFork}
    /\ snapshots = << >>
    /\ nextSnapshotId = 1
    /\ blob = NoBlob
    /\ reply = Zero

-----------------------------------------------------------------------------
(* Mutant: a failed fetch is memoized as its error.                       *)
ReadValueCachesFailure(k) ==
    /\ local[k] = Unset /\ cache[k] = Unset /\ fork # NoFork
    /\ cache' = [cache EXCEPT ![k] = Unavailable]
    /\ reply' = Unavailable
    /\ UNCHANGED <<local, fork, snapshots, nextSnapshotId, blob>>

(* Mutant: the cache is looked up before the overrides.                   *)
ReadValueCacheFirst(k) ==
    /\ \/ /\ \/ local[k] # Unset \/ cache[k] # Unset \/ fork = NoFork
          /\ reply' = Resolve(cache, local, fork, k)
          /\ UNCHANGED cache
       \/ /\ local[k] = Unset /\ cache[k] = Unset /\ fork # NoFork
          /\ cache' = [cache EXCEPT ![k] = Remote[fork][k]]
          /\ reply' = Remote[fork][k]
    /\ UNCHANGED <<local, fork, snapshots, nextSnapshotId, blob>>

(***************************************************************************)
(* read_value_internal (spec 4.1): a key held locally answers at once; an  *)
(* unheld key without a fork answers the default; otherwise the fork is   *)
(* asked, and only a successful answer is memoized.                       *)
(***************************************************************************)
ReadValue(k) ==
    /\ \/ /\ \/ local[k] # Unset \/ cache[k] # Unset \/ fork = NoFork
          /\ reply' = Resolve(local, cache, fork, k)
          /\ UNCHANGED cache
       \/ /\ local[k] = Unset /\ cache[k] = Unset /\ fork # NoFork
          /\ cache' = [cache EXCEPT ![k] = Remote[fork][k]]
          /\ reply' = Remote[fork][k]
       \/ /\ local[k] = Unset /\ cache[k] = Unset /\ fork # NoFork
          /\ reply' = Unavailable
          /\ UNCHANGED cache
    /\ UNCHANGED <<local, fork, snapshots, nextSnapshotId, blob>>

(* set_balance, set_nonce, set_storage_at: write the override and report  *)
(* whether the value the key reads as changed (spec 4.5).                 *)
SetStorageAt(k, v) ==
    /\ k \notin CodeKeys
    /\ local' = [local EXCEPT ![k] = v]
    /\ reply' = (Resolve(local, cache, fork, k) # v)
    /\ UNCHANGED <<cache, fork, snapshots, nextSnapshotId, blob>>

(* set_code: write the override; the handler returns ().                  *)
SetCode(k, v) ==
    /\ k \in CodeKeys
    /\ local' = [local EXCEPT ![k] = v]
    /\ reply' = Unit
    /\ UNCHANGED <<cache, fork, snapshots, nextSnapshotId, blob>>

Snapshot ==
    /\ nextSnapshotId <= MaxSnapshotId
    /\ snapshots' = Append(snapshots, [id |-> nextSnapshotId, local |-> local,
                                       cache |-> cache])
    /\ nextSnapshotId' = nextSnapshotId + 1
    /\ reply' = Unit
    /\ UNCHANGED <<local, cache, fork, blob>>

(* revert_snapshot: restore both tiers of a live checkpoint and drop it    *)
(* and every later one; an unknown id answers false and changes nothing.  *)
Revert(id) ==
    \/ \E i \in DOMAIN snapshots :
          /\ snapshots[i].id = id
          /\ local' = snapshots[i].local
          /\ cache' = snapshots[i].cache
          /\ snapshots' = SubSeq(snapshots, 1, i - 1)
          /\ reply' = TRUE
          /\ UNCHANGED <<fork, nextSnapshotId, blob>>
    \/ /\ \A i \in DOMAIN snapshots : snapshots[i].id # id
       /\ reply' = FALSE
       /\ UNCHANGED <<local, cache, fork, snapshots, nextSnapshotId, blob>>

(* dump_state exports both local tiers, never the remote source.          *)
DumpState ==
    /\ blob' = [local |-> local, cache |-> cache]
    /\ reply' = TRUE
    /\ UNCHANGED <<local, cache, fork, snapshots, nextSnapshotId>>

(* load_state replaces both local tiers with a dump's.                    *)
LoadState ==
    /\ blob # NoBlob
    /\ local' = blob.local
    /\ cache' = blob.cache
    /\ reply' = TRUE
    /\ UNCHANGED <<fork, snapshots, nextSnapshotId, blob>>

(* reset_network: a fresh storage over the chosen fork (or none).         *)
ResetNetwork(f) ==
    /\ fork' = f
    /\ local' = Empty
    /\ cache' = Empty
    /\ snapshots' = << >>
    /\ reply' = TRUE
    /\ UNCHANGED <<nextSnapshotId, blob>>

FNext ==
    \/ \E k \in Keys : ReadValue(k)
    \/ \E k \in Keys, v \in Values : SetStorageAt(k, v) \/ SetCode(k, v)
    \/ Snapshot
    \/ \E id \in 1 .. MaxSnapshotId : Revert(id)
    \/ DumpState
    \/ LoadState
    \/ \E f \in Forks \cup {NoFork} : ResetNetwork(f)

FSpec == FInit /\ [][FNext]_fvars

-----------------------------------------------------------------------------
StorageTypeOK ==
    /\ local \in Tier
    /\ cache \in Tier
    /\ fork \in Forks \cup {NoFork}
    /\ snapshots \in Seq([id : 1 .. MaxSnapshotId, local : Tier, cache : Tier])
    /\ nextSnapshotId \in 1 .. MaxSnapshotId + 1
    /\ blob \in [local : Tier, cache : Tier] \cup {NoBlob}

(* The refinement mapping: what every key reads as now, in each          *)
(* checkpoint and in the last dump.                                       *)
EffStore == [k \in Keys |-> Resolve(local, cache, fork, k)]

Saved ==
    [i \in DOMAIN snapshots |->
        [id |-> snapshots[i].id,
         store |-> [k \in Keys |-> Resolve(snapshots[i].local, snapshots[i].cache, fork, k)]]]

Image(b) ==
    IF b = NoBlob THEN NoBlob
    ELSE [k \in {j \in Keys : b.local[j] # Unset \/ b.cache[j] # Unset} |->
            Resolve(b.local, b.cache, NoFork, k)]

Abstract == INSTANCE StoreSpec
    WITH store <- EffStore, source <- fork, saved <- Saved,
         nextId <- nextSnapshotId, image <- Image(blob),
         Sources <- Forks, NoSource <- NoFork, NoImage <- NoBlob

(***************************************************************************)
(* The tiers are invisible: every read, write, snapshot, revert, dump,    *)
(* load and reset the handlers perform is a step of the one-map store of  *)
(* StoreSpec, so memoizing a fetched value never changes what any key,    *)
(* checkpoint or dump reads as, and an override always shadows the cache  *)
(* and the fork (spec 8, local override shadows remote; snapshot          *)
(* round-trip).                                                           *)
(***************************************************************************)
StoreRefinement == Abstract!SSpec
=============================================================================
