----------------------------- MODULE StoreSpec ------------------------------
(***************************************************************************)
(* What the fork storage promises its callers (spec 4.1, 4.2, 4.5), with  *)
(* the tiers hidden: one map from keys to values.  Reads never change it; *)
(* a write replaces one value and reports whether it changed (set_code    *)
(* reports nothing); snapshot and revert save and restore the whole map;  *)
(* a dump records the values of some keys, and loading it sets those and  *)
(* leaves every other key to the remote source; a reset starts over on a  *)
(* new source.                                                            *)
(***************************************************************************)
EXTENDS Naturals, Sequences

CONSTANTS
    Keys,           \* storage keys (balance, nonce and storage slots, code)
    CodeKeys,       \* the keys set_code writes; it reports nothing
    Unit,           \* the reply of an operation that returns ()
    Values,         \* the values a key may hold
    Zero,           \* the default of an unfetched key without a source
    Sources,        \* remote sources a reset may select
    NoSource,       \* no remote source
    Remote,         \* Remote[s][k]: what source s answers for key k
    Unavailable,    \* the reply of a read whose remote fetch failed
    NoImage,        \* no dump taken yet
    MaxSnapshotId   \* bound on the snapshot ids handed out

VARIABLES
    store,          \* store[k]: what a read of k returns
    source,         \* the configured remote source
    saved,          \* stack of [id, store] checkpoints, oldest first
    nextId,         \* id the next snapshot returns
    image,          \* the values the last dump recorded, a partial map
    reply           \* what the last operation returned

svars == <<store, source, saved, nextId, image, reply>>

(* The map a source stands for: its answers, or Zero without a source.    *)
SourceStore(s) == [k \in Keys |-> IF s = NoSource THEN Zero ELSE Remote[s][k]]

(* The store after loading a partial map on top of source s.              *)
Overlay(m, s) == [k \in Keys |-> IF k \in DOMAIN m THEN m[k] ELSE SourceStore(s)[k]]

SInit ==
    /\ source \in Sources \cup {NoSource}
    /\ store = SourceStore(source)
    /\ saved = << >>
    /\ nextId = 1
    /\ image = NoImage
    /\ reply = Zero

(* A read answers the value, or fails while a source is configured.       *)
SRead(k) ==
    /\ \/ reply' = store[k]
       \/ source # NoSource /\ reply' = Unavailable
    /\ UNCHANGED <<store, source, saved, nextId, image>>

SWrite(k, v) ==
    /\ store' = [store EXCEPT ![k] = v]
    /\ reply' = IF k \in CodeKeys THEN Unit ELSE (store[k] # v)
    /\ UNCHANGED <<source, saved, nextId, image>>

SSnapshot ==
    /\ nextId <= MaxSnapshotId
    /\ saved' = Append(saved, [id |-> nextId, store |-> store])
    /\ nextId' = nextId + 1
    /\ reply' = Unit
    /\ UNCHANGED <<store, source, image>>

(* Revert to a live checkpoint restores it and drops it and every later   *)
(* one; any other id is refused.                                          *)
SRevert(id) ==
    \/ \E i \in DOMAIN saved :
          /\ saved[i].id = id
          /\ store' = saved[i].store
          /\ saved' = SubSeq(saved, 1, i - 1)
          /\ reply' = TRUE
          /\ UNCHANGED <<source, nextId, image>>
    \/ /\ \A i \in DOMAIN saved : saved[i].id # id
       /\ reply' = FALSE
       /\ UNCHANGED <<store, source, saved, nextId, image>>

SDump ==
    /\ \E D \in SUBSET Keys : image' = [k \in D |-> store[k]]
    /\ reply' = TRUE
    /\ UNCHANGED <<store, source, saved, nextId>>

SLoad ==
    /\ image # NoImage
    /\ store' = Overlay(image, source)
    /\ reply' = TRUE
    /\ UNCHANGED <<source, saved, nextId, image>>

SReset(s) ==
    /\ source' = s
    /\ store' = SourceStore(s)
    /\ saved' = << >>
    /\ reply' = TRUE
    /\ UNCHANGED <<nextId, image>>

SNext ==
    \/ \E k \in Keys : SRead(k)
    \/ \E k \in Keys, v \in Values : SWrite(k, v)
    \/ SSnapshot
    \/ \E id \in 1 .. MaxSnapshotId : SRevert(id)
    \/ SDump
    \/ SLoad
    \/ \E s \in Sources \cup {NoSource} : SReset(s)

SSpec == SInit /\ [][SNext]_svars
=============================================================================
