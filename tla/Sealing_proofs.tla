--------------------------- MODULE Sealing_proofs ---------------------------
(***************************************************************************)
(* Proofs about the clock and sealing controller composed with the chain: *)
(* the type invariant, the alignment of clock checkpoints with chain      *)
(* checkpoints, and the block timestamp interval, for every value of the  *)
(* constants.                                                             *)
(***************************************************************************)
EXTENDS Sealing, Node_proofs, TLAPS

(* Every block up to the tip has a timestamp: the interval adds to the    *)
(* tip's, so a missing one would make the next stamp undefined.           *)
StampsSet == \A n \in 0 .. inner.current : stamps[n] \in Time

(***************************************************************************)
(* The inductive invariant.  CheckpointsAligned alone is not inductive: a *)
(* seal rewrites stamps above the tip, which is harmless only because     *)
(* every checkpoint's chain is no longer than the live one, and a revert *)
(* to checkpoint i keeps checkpoint j < i aligned only because j's chain *)
(* is no longer than i's; SnapshotStackOrdered gives both.                *)
(***************************************************************************)
SInv ==
    /\ SealingTypeOK
    /\ SnapshotStackOrdered
    /\ StampsSet
    /\ CheckpointsAligned

ClockSavedRec == [clock : ClockRec, stamps : [0 .. MaxBlock -> Time \cup {NoTime}]]

-----------------------------------------------------------------------------
(* The initial state satisfies the inductive invariant.                   *)
LEMMA SInvInit == CInit => SInv
<1> USE NodeAssumption, SealingAssumption
<1> SUFFICES ASSUME CInit PROVE SInv
    OBVIOUS
<1>1. TypeOK
    BY GenesisType DEF CInit, Init, TypeOK
<1>2. inner.current = 0
    BY DEF CInit, Init, Genesis
<1>3. /\ clock \in ClockRec
      /\ stamps \in [0 .. MaxBlock -> Time \cup {NoTime}]
      /\ stamps[0] = 0
    BY DEF CInit, ClockRec, Time
<1>4. mode \in Modes
    BY DEF CInit, Modes
<1>5. SealingTypeOK
    <2>1. clockSaved \in Seq(ClockSavedRec)
        BY DEF CInit
    <2>2. QED
        BY <1>1, <1>3, <1>4, <2>1 DEF CInit, SealingTypeOK, ClockSavedRec
<1>6. StampsSet
    BY <1>2, <1>3 DEF StampsSet, Time
<1>7. SnapshotStackOrdered /\ CheckpointsAligned
    BY DEF CInit, Init, SnapshotStackOrdered, CheckpointsAligned
<1>8. QED
    BY <1>5, <1>6, <1>7 DEF SInv

(***************************************************************************)
(* A handler that leaves the chain, the checkpoints and the block stamps  *)
(* alone keeps the invariant, whatever it does to the pool, the clock,    *)
(* the sealing mode or the impersonation set, as long as those stay well *)
(* typed.                                                                 *)
(***************************************************************************)
LEMMA FrameStep ==
    ASSUME SInv,
           UNCHANGED <<inner, snapshots, nextSnapshotId, stamps, clockSaved>>,
           pool' \subseteq Txs, clock' \in ClockRec, mode' \in Modes,
           impersonated' \subseteq Addresses, autoImpersonate' \in BOOLEAN
    PROVE  SInv'
<1>1. TypeOK'
    BY DEF SInv, SealingTypeOK, TypeOK
<1>2. SnapshotStackOrdered'
    BY DEF SInv, SnapshotStackOrdered, IsChainPrefix
<1>3. QED
    BY <1>1, <1>2 DEF SInv, SealingTypeOK, StampsSet, CheckpointsAligned


(* The checkpoints' chain states, typed, and no longer than the live one.  *)
LEMMA SavedStates ==
    ASSUME SInv
    PROVE  /\ DOMAIN snapshots = 1 .. Len(snapshots)
           /\ \A i \in DOMAIN snapshots :
                 /\ snapshots[i] \in SnapshotRec
                 /\ snapshots[i].state.current \in 0 .. inner.current
<1>1. snapshots \in Seq(SnapshotRec)
    BY DEF SInv, SealingTypeOK, TypeOK, SnapshotRec
<1>2. /\ DOMAIN snapshots = 1 .. Len(snapshots)
      /\ \A i \in DOMAIN snapshots : snapshots[i] \in SnapshotRec
    BY <1>1, LenProperties
<1>3. QED
    BY <1>2, NodeAssumption
       DEF SInv, SnapshotStackOrdered, IsChainPrefix, SnapshotRec, ChainState

(* The step IntervalSpacing constrains.                                   *)
SpacingStep ==
    inner'.current > inner.current
    /\ clock.interval # NoTime /\ clock.pinned = NoTime
    => stamps'[inner.current + 1] = stamps[inner.current] + clock.interval

(***************************************************************************)
(* Sealing k blocks (anvil_mine, anvil_mine_detailed, the interval timer  *)
(* or a submission in immediate mode) keeps the invariant, and stamps    *)
(* the first new block with the tip's timestamp plus the interval when   *)
(* one is set and nothing is pinned.                                      *)
(***************************************************************************)
LEMMA SealStep ==
    ASSUME SInv, NEW k \in Nat \ {0}, NEW gap \in Gaps \cup {NoTime},
           NEW inc \in SUBSET Txs,
           inner.current + k <= MaxBlock,
           inner' = MineBlocks(inner, inc, k), pool' = {},
           UNCHANGED <<snapshots, nextSnapshotId, mode, impersonated,
                       autoImpersonate>>,
           SealClock(k, gap)
    PROVE  SInv' /\ SpacingStep
<1> USE NodeAssumption, SealingAssumption
<1> DEFINE c == inner.current
           F == FirstStamp
           S == Spacing(gap)
           New == c + 1 .. c + k
<1>0. /\ inner \in ChainState /\ c \in 0 .. MaxBlock
      /\ clock \in ClockRec
      /\ stamps \in [0 .. MaxBlock -> Time \cup {NoTime}]
      /\ stamps[c] \in Time
    BY DEF SInv, SealingTypeOK, TypeOK, ChainState, StampsSet
<1>1. F \in Nat
    <2>0. /\ clock.now \in Nat
          /\ clock.pinned \in Time \cup {NoTime}
          /\ clock.interval \in Gaps \cup {NoTime}
          /\ stamps[c] \in Nat
        BY <1>0 DEF ClockRec, Time
    <2>1. CASE clock.pinned # NoTime
        <3>1. F = clock.pinned
            BY <2>1 DEF FirstStamp
        <3>2. QED
            BY <2>0, <2>1, <3>1 DEF Time
    <2>2. CASE clock.pinned = NoTime /\ clock.interval # NoTime
        <3>1. F = stamps[c] + clock.interval
            BY <2>2 DEF FirstStamp
        <3>2. clock.interval \in Nat
            BY <2>0, <2>2
        <3>3. QED
            BY <2>0, <3>1, <3>2
    <2>3. CASE clock.pinned = NoTime /\ clock.interval = NoTime
        <3>1. F = clock.now + 1
            BY <2>3 DEF FirstStamp
        <3>2. QED
            BY <2>0, <3>1
    <2>4. QED
        BY <2>1, <2>2, <2>3
<1>2. S \in Nat
    BY <1>0 DEF Spacing, ClockRec
<1>3. /\ F + (k - 1) * S <= MaxTime
      /\ stamps' = [n \in 0 .. MaxBlock |->
                      IF n \in New THEN F + (n - c - 1) * S ELSE stamps[n]]
      /\ clock' = [now |-> F + (k - 1) * S, pinned |-> NoTime,
                   interval |-> clock.interval]
      /\ UNCHANGED clockSaved
    BY DEF SealClock
<1>4. \A n \in New : F + (n - c - 1) * S \in Time
    <2> SUFFICES ASSUME NEW n \in New PROVE F + (n - c - 1) * S \in Time
        OBVIOUS
    <2>1. n - c - 1 \in 0 .. k - 1
        BY <1>0
    <2>2. (n - c - 1) * S <= (k - 1) * S
        BY <1>2, <2>1
    <2>3. (n - c - 1) * S \in Nat
        BY <1>2, <2>1
    <2>4. QED
        BY <1>1, <1>2, <1>3, <2>1, <2>2, <2>3 DEF Time
<1>5. inner' \in ChainState /\ IsChainPrefix(inner, inner')
    BY <1>0, MineBlocksType, MinePrefix
<1>6. inner'.current = c + k
    BY DEF MineBlocks
<1>7. SealingTypeOK'
    <2>1. TypeOK'
        BY <1>5 DEF SInv, SealingTypeOK, TypeOK
    <2>2. stamps' \in [0 .. MaxBlock -> Time \cup {NoTime}]
        BY <1>0, <1>3, <1>4
    <2>3. clock' \in ClockRec
        BY <1>0, <1>1, <1>2, <1>3 DEF ClockRec, Time
    <2>4. QED
        BY <1>3, <2>1, <2>2, <2>3 DEF SInv, SealingTypeOK
<1>8. SnapshotStackOrdered'
    <2>1. \A i \in DOMAIN snapshots : IsChainPrefix(snapshots[i].state, inner')
        BY <1>0, <1>5, SavedStates, PrefixTrans
           DEF SInv, SnapshotStackOrdered, SnapshotRec
    <2>2. QED
        BY <2>1 DEF SInv, SnapshotStackOrdered
<1>9. StampsSet'
    <2> SUFFICES ASSUME NEW n \in 0 .. c + k PROVE stamps'[n] \in Time
        BY <1>6 DEF StampsSet
    <2>1. CASE n \in New
        BY <1>0, <1>3, <1>4, <2>1
    <2>2. CASE n \notin New
        BY <1>0, <1>3, <2>2 DEF SInv, StampsSet
    <2>3. QED
        BY <2>1, <2>2
<1>10. CheckpointsAligned'
    <2> SUFFICES ASSUME NEW i \in DOMAIN snapshots,
                        NEW n \in 0 .. snapshots[i].state.current
                 PROVE  clockSaved[i].stamps[n] = stamps'[n]
        <3>1. snapshots' = snapshots /\ clockSaved' = clockSaved
            BY <1>3
        <3>2. Len(clockSaved) = Len(snapshots)
            BY DEF SInv, CheckpointsAligned
        <3>3. QED
            BY <3>1, <3>2 DEF CheckpointsAligned
    <2>1. n \in 0 .. MaxBlock /\ n \notin New
        BY <1>0, SavedStates
    <2>2. QED
        BY <1>3, <2>1 DEF SInv, CheckpointsAligned
<1>11. ASSUME clock.interval # NoTime, clock.pinned = NoTime
       PROVE  stamps'[c + 1] = stamps[c] + clock.interval
    <2>1. c + 1 \in New /\ c + 1 \in 0 .. MaxBlock
        BY <1>0
    <2>2. stamps'[c + 1] = F
        <3>1. stamps'[c + 1] = F + (c + 1 - c - 1) * S
            BY <1>0, <1>3, <2>1
        <3>2. (c + 1 - c - 1) * S = 0
            BY <1>0, <1>2
        <3>3. QED
            BY <1>1, <3>1, <3>2
    <2>3. F = stamps[c] + clock.interval
        BY <1>11 DEF FirstStamp
    <2>4. QED
        BY <2>2, <2>3
<1>12. QED
    BY <1>7, <1>8, <1>9, <1>10, <1>11 DEF SInv, SpacingStep


(* The clock checkpoints are a typed sequence as long as the chain's.     *)
LEMMA SavedClocks ==
    ASSUME SInv
    PROVE  /\ clockSaved \in Seq(ClockSavedRec)
           /\ Len(clockSaved) = Len(snapshots)
           /\ DOMAIN clockSaved = DOMAIN snapshots
           /\ \A i \in DOMAIN snapshots : clockSaved[i] \in ClockSavedRec
<1>1. clockSaved \in Seq(ClockSavedRec) /\ Len(clockSaved) = Len(snapshots)
    BY DEF SInv, SealingTypeOK, CheckpointsAligned, ClockSavedRec
<1>2. QED
    BY <1>1, SavedStates, LenProperties

(* evm_snapshot pushes the clock with the chain: the invariant holds.     *)
LEMMA SnapshotStep ==
    ASSUME SInv, CSnapshot
    PROVE  SInv'
<1> USE NodeAssumption, SealingAssumption
<1> DEFINE e == [clock |-> clock, stamps |-> stamps]
<1>1. TypeOK' /\ SnapshotStackOrdered'
    <2>1. Snapshot /\ TypeOK /\ SnapshotStackOrdered
        BY DEF CSnapshot, SInv, SealingTypeOK
    <2>2. [Next]_vars
        BY <2>1 DEF Next
    <2>3. QED
        BY <2>1, <2>2, TypeCorrect_Step, StackStep
<1>2. e \in ClockSavedRec
    BY DEF SInv, SealingTypeOK, ClockSavedRec
<1>3. /\ clockSaved' = Append(clockSaved, e)
      /\ clockSaved' \in Seq(ClockSavedRec)
      /\ Len(clockSaved') = Len(clockSaved) + 1
      /\ \A i \in 1 .. Len(clockSaved) : clockSaved'[i] = clockSaved[i]
      /\ clockSaved'[Len(clockSaved) + 1] = e
    BY <1>2, SavedClocks, AppendProperties DEF CSnapshot
<1>4. /\ snapshots' = Append(snapshots, [id |-> nextSnapshotId, state |-> inner])
      /\ Len(snapshots') = Len(snapshots) + 1
      /\ DOMAIN snapshots' = 1 .. Len(snapshots) + 1
      /\ \A i \in 1 .. Len(snapshots) : snapshots'[i] = snapshots[i]
      /\ snapshots'[Len(snapshots) + 1].state = inner
    <2>1. [id |-> nextSnapshotId, state |-> inner] \in SnapshotRec
        BY DEF SInv, SealingTypeOK, TypeOK, SnapshotRec, CSnapshot, Snapshot
    <2>2. snapshots \in Seq(SnapshotRec)
        BY DEF SInv, SealingTypeOK, TypeOK, SnapshotRec
    <2>3. QED
        BY <2>1, <2>2, AppendProperties, LenProperties DEF CSnapshot, Snapshot
<1>5. UNCHANGED <<inner, clock, stamps, mode, impersonated, autoImpersonate>>
    BY DEF CSnapshot, Snapshot, configVars
<1>6. CheckpointsAligned'
    <2>1. Len(clockSaved') = Len(snapshots')
        BY <1>3, <1>4, SavedClocks
    <2>2. ASSUME NEW i \in DOMAIN snapshots',
                 NEW n \in 0 .. snapshots'[i].state.current
          PROVE  clockSaved'[i].stamps[n] = stamps'[n]
        <3>1. CASE i = Len(snapshots) + 1
            BY <1>3, <1>4, <1>5, <2>2, <3>1, SavedClocks
        <3>2. CASE i # Len(snapshots) + 1
            <4>1. i \in DOMAIN snapshots /\ i \in 1 .. Len(clockSaved)
                BY <1>4, <3>2, <2>2, SavedStates, SavedClocks
            <4>2. QED
                BY <1>3, <1>4, <1>5, <2>2, <4>1 DEF SInv, CheckpointsAligned
        <3>3. QED
            BY <3>1, <3>2
    <2>3. QED
        BY <2>1, <2>2 DEF CheckpointsAligned
<1>7. QED
    BY <1>1, <1>3, <1>5, <1>6 DEF SInv, SealingTypeOK, StampsSet, ClockSavedRec


(***************************************************************************)
(* evm_revert to checkpoint i restores the chain and the clock saved with *)
(* it and drops both stacks to i - 1 entries: the invariant holds, and    *)
(* the tip does not move forward.                                         *)
(***************************************************************************)
LEMMA RevertStep ==
    ASSUME SInv, NEW i \in DOMAIN snapshots, RevertSnapshot(i),
           clock' = clockSaved[i].clock,
           stamps' = clockSaved[i].stamps,
           clockSaved' = SubSeq(clockSaved, 1, i - 1),
           UNCHANGED configVars
    PROVE  SInv' /\ ~(inner'.current > inner.current)
<1> USE NodeAssumption, SealingAssumption
<1> DEFINE ci == snapshots[i].state.current
<1>0. /\ DOMAIN snapshots = 1 .. Len(snapshots)
      /\ snapshots[i] \in SnapshotRec
      /\ ci \in 0 .. inner.current
      /\ clockSaved[i] \in ClockSavedRec
      /\ Len(clockSaved) = Len(snapshots)
      /\ inner.current \in Nat
    <2>1. /\ DOMAIN snapshots = 1 .. Len(snapshots)
          /\ snapshots[i] \in SnapshotRec
          /\ ci \in 0 .. inner.current
        BY SavedStates
    <2>2. clockSaved[i] \in ClockSavedRec /\ Len(clockSaved) = Len(snapshots)
        BY SavedClocks
    <2>3. inner.current \in Nat
        BY DEF SInv, SealingTypeOK, TypeOK, ChainState
    <2>4. QED
        BY <2>1, <2>2, <2>3
<1>1. TypeOK' /\ SnapshotStackOrdered'
    <2>1. Revert(snapshots[i].id) /\ snapshots[i].id \in 1 .. MaxSnapshotId
        BY <1>0 DEF Revert, SnapshotRec
    <2>2. [Next]_vars
        BY <2>1 DEF Next
    <2>3. QED
        BY <2>2, TypeCorrect_Step, StackStep DEF SInv, SealingTypeOK
<1>2. /\ inner' = snapshots[i].state
      /\ DOMAIN snapshots' = 1 .. i - 1
      /\ Len(snapshots') = i - 1
      /\ \A j \in 1 .. i - 1 : snapshots'[j] = snapshots[j]
    <2>1. \A j \in 1 .. i - 1 : snapshots[j] \in SnapshotRec
        BY <1>0, SavedStates
    <2>2. snapshots' = SubSeq(snapshots, 1, i - 1)
        BY DEF RevertSnapshot
    <2>3. QED
        BY <1>0, <2>1, <2>2, SubSeqProperties, LenProperties DEF RevertSnapshot
<1>3. /\ clockSaved' \in Seq(ClockSavedRec)
      /\ Len(clockSaved') = i - 1
      /\ \A j \in 1 .. i - 1 : clockSaved'[j] = clockSaved[j]
    <2>1. \A j \in 1 .. i - 1 : clockSaved[j] \in ClockSavedRec
        BY <1>0, SavedClocks
    <2>2. QED
        BY <1>0, <2>1, SubSeqProperties
<1>4. SealingTypeOK'
    BY <1>0, <1>1, <1>3 DEF SealingTypeOK, ClockSavedRec, SInv, configVars
<1>5. \A n \in 0 .. ci : clockSaved[i].stamps[n] = stamps[n]
    BY DEF SInv, CheckpointsAligned
<1>6. StampsSet'
    <2> SUFFICES ASSUME NEW n \in 0 .. ci PROVE stamps'[n] \in Time
        BY <1>2 DEF StampsSet
    <2>1. n \in 0 .. inner.current
        BY <1>0
    <2>2. QED
        BY <1>5, <2>1 DEF SInv, StampsSet
<1>7. CheckpointsAligned'
    <2>1. ASSUME NEW j \in DOMAIN snapshots',
                 NEW n \in 0 .. snapshots'[j].state.current
          PROVE  clockSaved'[j].stamps[n] = stamps'[n]
        <3>1. j \in 1 .. i - 1 /\ j \in DOMAIN snapshots /\ j < i
            BY <1>0, <1>2
        <3>2. snapshots[j].state.current <= ci
            BY <1>0, <3>1 DEF SInv, SnapshotStackOrdered, IsChainPrefix
        <3>3. n \in 0 .. ci /\ n \in 0 .. snapshots[j].state.current
            <4>1. snapshots[j] \in SnapshotRec
                BY <3>1, SavedStates
            <4>2. QED
                BY <1>0, <1>2, <2>1, <3>1, <3>2, <4>1 DEF SnapshotRec, ChainState
        <3>4. clockSaved[j].stamps[n] = stamps[n]
            BY <3>1, <3>3 DEF SInv, CheckpointsAligned
        <3>5. QED
            BY <1>3, <1>5, <3>1, <3>3, <3>4
    <2>2. QED
        BY <1>2, <1>3, <2>1 DEF CheckpointsAligned
<1>8. QED
    BY <1>0, <1>1, <1>2, <1>4, <1>6, <1>7 DEF SInv


(* A step that leaves the chain alone satisfies SpacingStep vacuously.    *)
LEMMA NoSealSpacing ==
    ASSUME ~(inner'.current > inner.current)
    PROVE  SpacingStep
BY DEF SpacingStep

(* The typed configuration variables, for the frame cases.                *)
LEMMA ConfigTyped ==
    ASSUME SInv
    PROVE  /\ pool \subseteq Txs /\ clock \in ClockRec /\ mode \in Modes
           /\ impersonated \subseteq Addresses /\ autoImpersonate \in BOOLEAN
           /\ inner.current \in Nat
BY NodeAssumption DEF SInv, SealingTypeOK, TypeOK, ChainState

(***************************************************************************)
(* Every step of the composed system keeps the inductive invariant and    *)
(* satisfies SpacingStep.  One case per disjunct of CNext: the seals go   *)
(* through SealStep, evm_snapshot and evm_revert through SnapshotStep and *)
(* RevertStep, and every other handler through FrameStep.                 *)
(***************************************************************************)
LEMMA SInvStep ==
    ASSUME SInv, [CNext]_cvars
    PROVE  SInv' /\ SpacingStep
<1> USE NodeAssumption, SealingAssumption
<1>0. /\ pool \subseteq Txs /\ clock \in ClockRec /\ mode \in Modes
      /\ impersonated \subseteq Addresses /\ autoImpersonate \in BOOLEAN
      /\ inner.current \in Nat
    BY ConfigTyped
<1>1. ASSUME NEW t \in Txs, CSubmitTx(t) PROVE SInv' /\ SpacingStep
    <2>1. CASE mode # Immediate /\ SubmitTx(t) /\ UNCHANGED timeVars
        <3>1. UNCHANGED <<inner, snapshots, nextSnapshotId, stamps, clockSaved,
                          clock, mode, impersonated, autoImpersonate>>
              /\ pool' \subseteq Txs
            BY <1>0, <1>1, <2>1 DEF CSubmitTx, SubmitTx, timeVars, configVars
        <3>2. QED
            BY <1>0, <3>1, FrameStep, NoSealSpacing
    <2>2. CASE /\ mode = Immediate
               /\ inner.current + 1 <= MaxBlock
               /\ \E included \in SUBSET (pool \cup {t}) :
                     inner' = MineBlocks(inner, included, 1)
               /\ pool' = {}
               /\ SealClock(1, NoTime)
               /\ UNCHANGED <<snapshots, nextSnapshotId>>
        <3>1. PICK inc \in SUBSET (pool \cup {t}) : inner' = MineBlocks(inner, inc, 1)
            BY <2>2
        <3>2. /\ inc \in SUBSET Txs
              /\ UNCHANGED <<snapshots, nextSnapshotId, mode, impersonated,
                             autoImpersonate>>
            BY <1>0, <1>1, <2>2 DEF CSubmitTx, configVars
        <3>3. /\ 1 \in Nat \ {0} /\ NoTime \in Gaps \cup {NoTime}
              /\ inner.current + 1 <= MaxBlock /\ pool' = {}
              /\ SealClock(1, NoTime)
            BY <2>2
        <3>4. QED
            BY <3>1, <3>2, <3>3, SealStep
    <2>3. QED
        BY <1>1, <2>1, <2>2 DEF CSubmitTx
<1>2. ASSUME NEW k \in 1 .. MaxMine, NEW gap \in Gaps \cup {NoTime}, CAnvilMine(k, gap)
      PROVE  SInv' /\ SpacingStep
    <2>1. PICK inc \in SUBSET pool : inner' = MineBlocks(inner, inc, k)
        BY <1>2 DEF CAnvilMine, AnvilMine
    <2>2. /\ inc \in SUBSET Txs /\ k \in Nat \ {0}
          /\ inner.current + k <= MaxBlock /\ pool' = {}
          /\ UNCHANGED <<snapshots, nextSnapshotId, mode, impersonated,
                         autoImpersonate>>
          /\ SealClock(k, gap)
        BY <1>0, <1>2 DEF CAnvilMine, AnvilMine, configVars
    <2>3. QED
        BY <2>1, <2>2, SealStep
<1>3. ASSUME CMineDetailed \/ IntervalSeal PROVE SInv' /\ SpacingStep
    <2>1. /\ AnvilMine(1) /\ SealClock(1, NoTime) /\ UNCHANGED configVars
        BY <1>3 DEF CMineDetailed, MineDetailed, IntervalSeal
    <2>2. PICK inc \in SUBSET pool : inner' = MineBlocks(inner, inc, 1)
        BY <2>1 DEF AnvilMine
    <2>3. /\ inc \in SUBSET Txs /\ 1 \in Nat \ {0} /\ NoTime \in Gaps \cup {NoTime}
          /\ inner.current + 1 <= MaxBlock /\ pool' = {}
          /\ UNCHANGED <<snapshots, nextSnapshotId, mode, impersonated,
                         autoImpersonate>>
        BY <1>0, <2>1 DEF AnvilMine, configVars
    <2>4. QED
        BY <2>1, <2>2, <2>3, SealStep
<1>4. ASSUME \/ \E t \in Txs : PoolOnly(DropTransaction(t))
             \/ PoolOnly(DropAllTransactions)
             \/ \E a \in Addresses : PoolOnly(RemovePoolTransactions(a))
      PROVE  SInv' /\ SpacingStep
    <2>1. UNCHANGED <<inner, snapshots, nextSnapshotId, stamps, clockSaved,
                      clock, mode, impersonated, autoImpersonate>>
          /\ pool' \subseteq Txs
        BY <1>0, <1>4 DEF PoolOnly, DropTransaction, DropAllTransactions,
                          RemovePoolTransactions, timeVars, configVars
    <2>2. QED
        BY <1>0, <2>1, FrameStep, NoSealSpacing
<1>5. ASSUME CSnapshot PROVE SInv' /\ SpacingStep
    BY <1>5, SnapshotStep, NoSealSpacing, <1>0 DEF CSnapshot, Snapshot
<1>6. ASSUME NEW id \in 1 .. MaxSnapshotId, CRevert(id) PROVE SInv' /\ SpacingStep
    <2>1. CASE \E i \in DOMAIN snapshots :
                  /\ snapshots[i].id = id
                  /\ RevertSnapshot(i)
                  /\ clock' = clockSaved[i].clock
                  /\ stamps' = clockSaved[i].stamps
                  /\ clockSaved' = SubSeq(clockSaved, 1, i - 1)
                  /\ UNCHANGED configVars
        BY <2>1, RevertStep, NoSealSpacing
    <2>2. CASE UNCHANGED <<vars, timeVars, configVars>>
        BY <1>0, <2>2, FrameStep, NoSealSpacing DEF vars, timeVars, configVars
    <2>3. QED
        BY <1>6, <2>1, <2>2 DEF CRevert
<1>7. ASSUME \/ \E t \in Time : SetTime(t) \/ SetNextBlockTimestamp(t)
             \/ \E s \in 1 .. MaxTime : IncreaseTime(s)
             \/ \E s \in Gaps : SetBlockTimestampInterval(s)
             \/ RemoveBlockTimestampInterval
      PROVE  SInv' /\ SpacingStep
    <2>1. /\ UNCHANGED <<vars, stamps, clockSaved, configVars>>
          /\ clock' \in ClockRec
        BY <1>0, <1>7 DEF SetTime, SetNextBlockTimestamp, IncreaseTime,
                          SetBlockTimestampInterval, RemoveBlockTimestampInterval,
                          ClockRec, Time, timeVars
    <2>2. QED
        BY <1>0, <2>1, FrameStep, NoSealSpacing DEF vars, configVars
<1>8. ASSUME \/ \E b \in BOOLEAN : SetAutoMine(b) \/ AutoImpersonateAccount(b)
             \/ \E p \in Periods : SetIntervalMining(p)
             \/ \E a \in Addresses : ImpersonateAccount(a) \/ StopImpersonatingAccount(a)
      PROVE  SInv' /\ SpacingStep
    <2>1. /\ UNCHANGED <<vars, timeVars>>
          /\ mode' \in Modes /\ impersonated' \subseteq Addresses
          /\ autoImpersonate' \in BOOLEAN
        BY <1>0, <1>8 DEF SetAutoMine, AutoImpersonateAccount, SetIntervalMining,
                          ImpersonateAccount, StopImpersonatingAccount, Modes
    <2>2. QED
        BY <1>0, <2>1, FrameStep, NoSealSpacing DEF vars, timeVars
<1>9. CASE UNCHANGED cvars
    BY <1>0, <1>9, FrameStep, NoSealSpacing DEF cvars, vars
<1>10. QED
    BY <1>1, <1>2, <1>3, <1>4, <1>5, <1>6, <1>7, <1>8, <1>9 DEF CNext


-----------------------------------------------------------------------------
(* The inductive invariant holds in every reachable state.                *)
LEMMA SInvAlways == CSpec => []SInv
<1>1. SInv /\ [CNext]_cvars => SInv'
    BY SInvStep
<1>2. QED
    BY SInvInit, <1>1, PTL DEF CSpec

(***************************************************************************)
(* Every reachable state of the clock and sealing handlers composed with  *)
(* the chain is well typed, for every value of the constants: in          *)
(* particular every timestamp a seal computes stays within MaxTime and a *)
(* removed interval is None, never Some(0).                               *)
(***************************************************************************)
THEOREM SealingTypeCorrect == CSpec => []SealingTypeOK
<1>1. SInv => SealingTypeOK
    BY DEF SInv
<1>2. QED
    BY <1>1, SInvAlways, PTL

(***************************************************************************)
(* evm_snapshot and evm_revert keep the clock checkpoints in step with    *)
(* the chain checkpoints across any sequence of seals, clock changes and *)
(* reverts: one per snapshot, each holding the timestamps of the blocks   *)
(* its chain shares with the live chain (spec 4.2).                       *)
(***************************************************************************)
THEOREM ClockCheckpointsAligned == CSpec => []CheckpointsAligned
<1>1. SInv => CheckpointsAligned
    BY DEF SInv
<1>2. QED
    BY <1>1, SInvAlways, PTL

(***************************************************************************)
(* The block timestamp interval is enforced against the previous block    *)
(* (spec 8) by every seal: anvil_mine, anvil_mine_detailed, the interval  *)
(* timer and immediate sealing on submission, whatever set_time,          *)
(* increase_time or evm_revert did to the clock before.                   *)
(***************************************************************************)
THEOREM IntervalEnforced == CSpec => IntervalSpacing
<1>1. SInv /\ [CNext]_cvars => [SpacingStep]_cvars
    BY SInvStep
<1>2. QED
    BY <1>1, SInvAlways, PTL DEF CSpec, IntervalSpacing, SpacingStep

=============================================================================
