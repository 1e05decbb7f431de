------------------------------- MODULE Sealing -------------------------------
(***************************************************************************)
(* The sealing & time controller and the impersonation set, composed with *)
(* the chain index of Node.  The anvil_* handlers of anvil.rs drive them: *)
(* the clock (set_time, increase_time, set_next_block_timestamp, the      *)
(* block timestamp interval), the sealing mode (auto / interval mining),  *)
(* mining, and impersonation.  Spec 4.2 puts the clock in every snapshot, *)
(* so evm_snapshot and evm_revert push and pop a clock checkpoint beside  *)
(* the chain checkpoint; every sealed block gets a timestamp (spec 4.4).  *)
(***************************************************************************)
EXTENDS Node

CONSTANTS
    MaxTime,        \* bound on every timestamp the model reaches
    Gaps,           \* block timestamp intervals and anvil_mine spacings
    Periods,        \* interval-mining periods
    NoTime          \* an unset Option<u64>

ASSUME SealingAssumption ==
    /\ MaxTime \in Nat
    /\ Gaps \subseteq Nat \ {0}
    /\ Periods \subseteq Nat \ {0}
    /\ NoTime \notin Nat

VARIABLES
    clock,          \* [now, pinned, interval]: the TimeManager
    stamps,         \* stamps[n]: timestamp of block n, NoTime past the tip
    clockSaved,     \* clock checkpoints, one per entry of snapshots
    mode,           \* Manual, Immediate or IntervalMining(p)
    impersonated,   \* addresses whose transactions skip signature checks
    autoImpersonate \* every sender is impersonated

cvars == <<vars, clock, stamps, clockSaved, mode, impersonated,
           autoImpersonate>>
timeVars == <<clock, stamps, clockSaved>>
configVars == <<mode, impersonated, autoImpersonate>>

Time == 0 .. MaxTime
ClockRec == [now : Time, pinned : Time \cup {NoTime},
             interval : Gaps \cup {NoTime}]
(* The sealing modes of spec 4.4.                                        *)
Manual == [kind |-> "manual", period |-> 0]
Immediate == [kind |-> "immediate", period |-> 0]
IntervalMining(p) == [kind |-> "interval", period |-> p]
Modes == {Manual, Immediate} \cup {IntervalMining(p) : p \in Periods}

CInit ==
    /\ Init
    /\ clock = [now |-> 0, pinned |-> NoTime, interval |-> NoTime]
    /\ stamps = [n \in 0 .. MaxBlock |-> IF n = 0 THEN 0 ELSE NoTime]
    /\ clockSaved = << >>
    /\ mode = Manual
    /\ impersonated = {}
    /\ autoImpersonate = FALSE

-----------------------------------------------------------------------------
(* Mutant: the interval is added to the clock instead of the last block. *)
FirstStampFromClock ==
    IF clock.pinned # NoTime THEN clock.pinned
    ELSE IF clock.interval # NoTime THEN clock.now + clock.interval
    ELSE clock.now + 1

(***************************************************************************)
(* The timestamp of the next sealed block (spec 4.4): a pinned timestamp *)
(* if set_next_block_timestamp pinned one; else, with a block timestamp  *)
(* interval, the last block's timestamp plus the interval whatever the   *)
(* clock says; else the clock's next second.                             *)
(***************************************************************************)
FirstStamp ==
    IF clock.pinned # NoTime THEN clock.pinned
    ELSE IF clock.interval # NoTime THEN stamps[inner.current] + clock.interval
    ELSE clock.now + 1

(* Spacing of the later blocks of one anvil_mine batch: its interval      *)
(* argument, else the block timestamp interval, else one second.          *)
Spacing(gap) ==
    IF gap # NoTime THEN gap
    ELSE IF clock.interval # NoTime THEN clock.interval
    ELSE 1

(* Timestamps of k blocks sealed at once; the clock moves to the last and *)
(* the pin is consumed.                                                   *)
SealClock(k, gap) ==
    LET last == FirstStamp + (k - 1) * Spacing(gap)
    IN  /\ last <= MaxTime
        /\ stamps' = [n \in 0 .. MaxBlock |->
                        IF n \in inner.current + 1 .. inner.current + k
                        THEN FirstStamp + (n - inner.current - 1) * Spacing(gap)
                        ELSE stamps[n]]
        /\ clock' = [now |-> last, pinned |-> NoTime, interval |-> clock.interval]
        /\ UNCHANGED clockSaved

(* anvil_mine(num_blocks, interval) and anvil_mine_detailed.              *)
CAnvilMine(k, gap) ==
    /\ AnvilMine(k)
    /\ SealClock(k, gap)
    /\ UNCHANGED configVars

CMineDetailed ==
    /\ MineDetailed
    /\ SealClock(1, NoTime)
    /\ UNCHANGED configVars

(* eth_sendRawTransaction: in immediate mode the accepted transaction     *)
(* seals its own block at once, with whatever else is pending.            *)
CSubmitTx(t) ==
    \/ /\ mode # Immediate
       /\ SubmitTx(t)
       /\ UNCHANGED timeVars
    \/ /\ mode = Immediate
       /\ t \notin pool
       /\ inner.txResults[t] = None
       /\ inner.current + 1 <= MaxBlock
       /\ \E included \in SUBSET (pool \cup {t}) :
             inner' = MineBlocks(inner, included, 1)
       /\ pool' = {}
       /\ SealClock(1, NoTime)
       /\ UNCHANGED <<snapshots, nextSnapshotId>>
    /\ UNCHANGED configVars

(* The interval-mining timer: every period, seal what is pending.         *)
IntervalSeal ==
    /\ mode.kind = "interval"
    /\ AnvilMine(1)
    /\ SealClock(1, NoTime)
    /\ UNCHANGED configVars

(* Handlers that leave the chain and the clock alone.                     *)
PoolOnly(A) == A /\ UNCHANGED <<timeVars, configVars>>

(* Mutant: revert keeps the target's clock checkpoint on the stack.       *)
CRevertKeepTarget(id) ==
    \E i \in DOMAIN snapshots :
        /\ snapshots[i].id = id
        /\ RevertSnapshot(i)
        /\ clock' = clockSaved[i].clock
        /\ stamps' = clockSaved[i].stamps
        /\ clockSaved' = SubSeq(clockSaved, 1, i)
        /\ UNCHANGED configVars

(* evm_snapshot: the clock is checkpointed with the chain.                *)
CSnapshot ==
    /\ Snapshot
    /\ clockSaved' = Append(clockSaved, [clock |-> clock, stamps |-> stamps])
    /\ UNCHANGED <<clock, stamps, configVars>>

(* evm_revert(id): restore the chain and the clock of the checkpoint and *)
(* drop it and every later one; an unknown id answers false.              *)
CRevert(id) ==
    \/ \E i \in DOMAIN snapshots :
          /\ snapshots[i].id = id
          /\ RevertSnapshot(i)
          /\ clock' = clockSaved[i].clock
          /\ stamps' = clockSaved[i].stamps
          /\ clockSaved' = SubSeq(clockSaved, 1, i - 1)
          /\ UNCHANGED configVars
    \/ /\ \A i \in DOMAIN snapshots : snapshots[i].id # id
       /\ UNCHANGED <<vars, timeVars, configVars>>

-----------------------------------------------------------------------------
(* set_time(t): jump the clock, answer the signed delta (an i128).        *)
SetTime(t) ==
    /\ clock' = [clock EXCEPT !.now = t]
    /\ UNCHANGED <<vars, stamps, clockSaved, configVars>>

(* increase_time(s): advance the clock, answer the new time.              *)
IncreaseTime(s) ==
    /\ clock.now + s <= MaxTime
    /\ clock' = [clock EXCEPT !.now = clock.now + s]
    /\ UNCHANGED <<vars, stamps, clockSaved, configVars>>

(* set_next_block_timestamp(t): pin the next block's timestamp; a time   *)
(* before the clock is rejected before any change.                        *)
SetNextBlockTimestamp(t) ==
    \/ /\ t >= clock.now
       /\ clock' = [clock EXCEPT !.pinned = t]
       /\ UNCHANGED <<vars, stamps, clockSaved, configVars>>
    \/ /\ t < clock.now
       /\ UNCHANGED <<vars, timeVars, configVars>>

(* set_block_timestamp_interval / remove_block_timestamp_interval; the   *)
(* latter answers whether an interval was set.                            *)
SetBlockTimestampInterval(s) ==
    /\ clock' = [clock EXCEPT !.interval = s]
    /\ UNCHANGED <<vars, stamps, clockSaved, configVars>>

(* Mutant: the interval is cleared to Some(0) instead of None.            *)
RemoveBlockTimestampIntervalZero ==
    /\ clock' = [clock EXCEPT !.interval = 0]
    /\ UNCHANGED <<vars, stamps, clockSaved, configVars>>

RemoveBlockTimestampInterval ==
    /\ clock' = [clock EXCEPT !.interval = NoTime]
    /\ UNCHANGED <<vars, stamps, clockSaved, configVars>>

(* set_auto_mine, set_interval_mining: the sealing mode.                  *)
SetAutoMine(enable) ==
    /\ mode' = IF enable THEN Immediate ELSE Manual
    /\ UNCHANGED <<vars, timeVars, impersonated, autoImpersonate>>

SetIntervalMining(p) ==
    /\ mode' = IntervalMining(p)
    /\ UNCHANGED <<vars, timeVars, impersonated, autoImpersonate>>

(* impersonate_account / stop_impersonating_account: the node reports    *)
(* whether the set changed, and the handler answers () in its place.      *)
ImpersonateAccount(a) ==
    /\ impersonated' = impersonated \cup {a}
    /\ UNCHANGED <<vars, timeVars, mode, autoImpersonate>>

StopImpersonatingAccount(a) ==
    /\ impersonated' = impersonated \ {a}
    /\ UNCHANGED <<vars, timeVars, mode, autoImpersonate>>

AutoImpersonateAccount(enable) ==
    /\ autoImpersonate' = enable
    /\ UNCHANGED <<vars, timeVars, mode, impersonated>>

CNext ==
    \/ \E t \in Txs : CSubmitTx(t) \/ PoolOnly(DropTransaction(t))
    \/ \E k \in 1 .. MaxMine, gap \in Gaps \cup {NoTime} : CAnvilMine(k, gap)
    \/ CMineDetailed
    \/ IntervalSeal
    \/ PoolOnly(DropAllTransactions)
    \/ \E a \in Addresses : PoolOnly(RemovePoolTransactions(a))
    \/ CSnapshot
    \/ \E id \in 1 .. MaxSnapshotId : CRevert(id)
    \/ \E t \in Time : SetTime(t) \/ SetNextBlockTimestamp(t)
    \/ \E s \in 1 .. MaxTime : IncreaseTime(s)
    \/ \E s \in Gaps : SetBlockTimestampInterval(s)
    \/ RemoveBlockTimestampInterval
    \/ \E b \in BOOLEAN : SetAutoMine(b) \/ AutoImpersonateAccount(b)
    \/ \E p \in Periods : SetIntervalMining(p)
    \/ \E a \in Addresses : ImpersonateAccount(a) \/ StopImpersonatingAccount(a)

CSpec == CInit /\ [][CNext]_cvars

-----------------------------------------------------------------------------
SealingTypeOK ==
    /\ TypeOK
    /\ clock \in ClockRec
    /\ stamps \in [0 .. MaxBlock -> Time \cup {NoTime}]
    /\ clockSaved \in Seq([clock : ClockRec,
                           stamps : [0 .. MaxBlock -> Time \cup {NoTime}]])
    /\ mode \in Modes
    /\ impersonated \subseteq Addresses
    /\ autoImpersonate \in BOOLEAN

(***************************************************************************)
(* Timestamp interval enforcement (spec 8): while a block timestamp      *)
(* interval is set and nothing is pinned, a newly sealed block is the    *)
(* previous block's timestamp plus the interval, whatever increase_time, *)
(* set_time or a revert did to the clock in between.                     *)
(***************************************************************************)
IntervalSpacing ==
    [][ inner'.current > inner.current
        /\ clock.interval # NoTime /\ clock.pinned = NoTime
        => stamps'[inner.current + 1] = stamps[inner.current] + clock.interval
      ]_cvars

(***************************************************************************)
(* The clock checkpoints stay in step with the chain checkpoints (spec   *)
(* 4.2): one per snapshot, and each records the timestamps of the blocks *)
(* its chain shares with the live chain.  A revert that popped one stack *)
(* further than the other would restore one snapshot's chain with        *)
(* another's clock.                                                       *)
(***************************************************************************)
CheckpointsAligned ==
    /\ Len(clockSaved) = Len(snapshots)
    /\ \A i \in DOMAIN snapshots :
          \A n \in 0 .. snapshots[i].state.current :
              clockSaved[i].stamps[n] = stamps[n]
=============================================================================
