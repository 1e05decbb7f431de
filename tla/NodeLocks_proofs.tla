-------------------------- MODULE NodeLocks_proofs --------------------------
(***************************************************************************)
(* Proofs about the locks the RPC handlers take: the type invariant, and  *)
(* that every remote read goes to the fork configured while it runs, for *)
(* every number of threads and every set of handlers.                     *)
(***************************************************************************)
EXTENDS NodeLocks, TLAPS

(* The steps of a call at which it holds an inner guard it took earlier:  *)
(* every fetch, and every step between the guard and a fetch or a swap.   *)
InnerHeld == Fetching \cup {"fr_fork", "bc_load", "bc_fork", "tc_time",
                            "tc_vm", "bal_read", "sw_fork", "sw_set"}

(* The steps of set_rpc_url after write_inner() succeeded.                *)
Swapping == {"sw_fork", "sw_set"}

(* A thread past its first inner acquisition still holds that guard.      *)
HoldsInner == \A t \in Threads : pc[t] \in InnerHeld => held[t]["inner"] # "none"

(* The thread about to swap the fork holds the inner write guard.         *)
SwapperWrites == \A t \in Threads : pc[t] \in Swapping => held[t]["inner"] = "w"

(* An inner write guard excludes every other guard on the node.           *)
InnerExclusive ==
    \A t, u \in Threads :
        t # u /\ held[t]["inner"] = "w" => held[u]["inner"] = "none"

(***************************************************************************)
(* The inductive invariant.  FetchFromCurrentFork alone is not inductive: *)
(* it needs that a fetching thread holds an inner guard, that the thread  *)
(* swapping the fork holds the inner write guard, and that the write      *)
(* guard excludes every other guard on the lock.                          *)
(***************************************************************************)
LInv ==
    /\ LocksTypeOK
    /\ HoldsInner
    /\ SwapperWrites
    /\ InnerExclusive
    /\ FetchFromCurrentFork
-----------------------------------------------------------------------------
(* Every acquiring step names a lock and a guard mode.                    *)
LEMMA AcquiresTyped ==
    \A p \in DOMAIN Acquires : Acquires[p][1] \in Locks /\ Acquires[p][2] \in {"r", "w"}
BY DEF Acquires, Locks

LEMMA LInvInit == Init => LInv
<1> SUFFICES ASSUME Init PROVE LInv
  OBVIOUS
<1>1. LocksTypeOK
  BY LocksAssumption DEF Init, LocksTypeOK, PCs, NoGuards, Modes, Outcomes, Fetching
<1>2. HoldsInner /\ SwapperWrites /\ FetchFromCurrentFork
  BY DEF Init, HoldsInner, SwapperWrites, FetchFromCurrentFork, InnerHeld,
         Swapping, Fetching
<1>3. InnerExclusive
  BY DEF Init, InnerExclusive, NoGuards, Locks
<1> QED BY <1>1, <1>2, <1>3 DEF LInv

(***************************************************************************)
(* A call returns: its guards are dropped and it goes idle.  The fork may *)
(* change only if the returning thread is the swapper, and its own       *)
(* fetchFork may be set to the current fork (bal_read).                   *)
(***************************************************************************)
LEMMA FinishStep ==
    ASSUME LInv, NEW t \in Threads, NEW out \in Outcomes, Finish(t, out),
           \/ fork' = fork
           \/ pc[t] = "sw_set" /\ fork' \in Forks \cup {NoFork},
           \/ fetchFork' = fetchFork
           \/ fetchFork' = [fetchFork EXCEPT ![t] = fork],
           UNCHANGED <<tokFork, call>>,
           faults' \in 0 .. MaxFaults
    PROVE  LInv'
<1> USE DEF LInv
<1>1. /\ pc' = [pc EXCEPT ![t] = "idle"]
      /\ held' = [held EXCEPT ![t] = NoGuards]
      /\ outcome' = [outcome EXCEPT ![t] = out]
      /\ poisoned' \subseteq Locks
  BY DEF Finish, LocksTypeOK
<1>2. LocksTypeOK'
  <2>1. pc' \in [Threads -> PCs] /\ held' \in [Threads -> [Locks -> Modes]]
    BY <1>1 DEF LocksTypeOK, PCs, NoGuards, Modes
  <2>2. fork' \in Forks \cup {NoFork}
    BY DEF LocksTypeOK
  <2>3. fetchFork' \in [Threads -> Forks \cup {NoFork}]
    BY DEF LocksTypeOK
  <2>4. \A u \in Threads : pc'[u] \in Fetching => fetchFork'[u] \in Forks
    BY <1>1 DEF LocksTypeOK, Fetching
  <2>5. faults' \in 0 .. MaxFaults /\ poisoned' \subseteq Locks
        /\ outcome' \in [Threads -> Outcomes] /\ UNCHANGED <<tokFork, call>>
    BY <1>1 DEF LocksTypeOK
  <2> QED BY <2>1, <2>2, <2>3, <2>4, <2>5 DEF LocksTypeOK
<1>3. HoldsInner' /\ SwapperWrites'
  BY <1>1 DEF LocksTypeOK, HoldsInner, SwapperWrites, InnerHeld, Fetching, Swapping
<1>4. InnerExclusive'
  BY <1>1 DEF LocksTypeOK, InnerExclusive, NoGuards, Locks
<1>5. FetchFromCurrentFork'
  <2>1. CASE fork' = fork
    BY <1>1, <2>1 DEF LocksTypeOK, FetchFromCurrentFork, Fetching
  <2>2. CASE pc[t] = "sw_set"
    <3>1. \A u \in Threads \ {t} : pc[u] \notin Fetching
      BY <2>2 DEF LocksTypeOK, HoldsInner, SwapperWrites, InnerExclusive,
                  InnerHeld, Swapping
    <3> QED BY <1>1, <3>1 DEF LocksTypeOK, FetchFromCurrentFork, Fetching
  <2> QED BY <2>1, <2>2
<1> QED BY <1>2, <1>3, <1>4, <1>5
(***************************************************************************)
(* A thread takes the guard it waits for and moves to p.  A step into a  *)
(* fetch records the current fork; a step into InnerHeld either keeps the *)
(* inner guard or takes it; a step into Swapping takes the write guard or *)
(* keeps it.                                                              *)
(***************************************************************************)
LEMMA TakeStep ==
    ASSUME LInv, NEW t \in Threads, NEW p \in PCs, pc[t] \in DOMAIN Acquires,
           Take(t, p),
           UNCHANGED <<poisoned, fork, tokFork, outcome, faults, call>>,
           \/ fetchFork' = fetchFork /\ p \notin Fetching
           \/ fetchFork' = [fetchFork EXCEPT ![t] = fork] /\ fork # NoFork,
           p \in InnerHeld => pc[t] \in InnerHeld \/ Acquires[pc[t]][1] = "inner",
           p \in Swapping =>
              \/ pc[t] \in Swapping /\ Acquires[pc[t]][1] # "inner"
              \/ Acquires[pc[t]] = <<"inner", "w">>
    PROVE  LInv'
<1> DEFINE l == Acquires[pc[t]][1]
           m == Acquires[pc[t]][2]
<1> USE DEF LInv
<1>1. l \in Locks /\ m \in {"r", "w"}
  BY AcquiresTyped
<1>2. /\ held' = [held EXCEPT ![t][l] = m]
      /\ pc' = [pc EXCEPT ![t] = p]
      /\ CanTake(Acquires[pc[t]])
  BY DEF Take, Goto
<1>3. /\ held' \in [Threads -> [Locks -> Modes]]
      /\ held'[t]["inner"] = IF l = "inner" THEN m ELSE held[t]["inner"]
      /\ \A u \in Threads \ {t} : held'[u] = held[u]
  BY <1>1, <1>2 DEF LocksTypeOK, Locks, Modes
<1>4. LocksTypeOK'
  <2>1. pc' \in [Threads -> PCs]
    BY <1>2 DEF LocksTypeOK
  <2>2. fetchFork' \in [Threads -> Forks \cup {NoFork}]
    BY DEF LocksTypeOK
  <2>3. \A u \in Threads : pc'[u] \in Fetching => fetchFork'[u] \in Forks
    BY <1>2 DEF LocksTypeOK
  <2> QED BY <1>3, <2>1, <2>2, <2>3 DEF LocksTypeOK
<1>5. HoldsInner'
  BY <1>1, <1>2, <1>3 DEF LocksTypeOK, HoldsInner
<1>6. SwapperWrites'
  BY <1>1, <1>2, <1>3 DEF LocksTypeOK, SwapperWrites
<1>7. InnerExclusive'
  <2>1. CASE l = "inner" /\ m = "w"
    <3>1. \A u \in Threads : held[u]["inner"] = "none"
      BY <1>2, <2>1 DEF CanTake, CanWrite, WritersOf, ReadersOf, LocksTypeOK,
                       Locks, Modes
    <3> QED BY <1>3, <2>1, <3>1 DEF InnerExclusive
  <2>2. CASE l = "inner" /\ m = "r"
    <3>1. \A u \in Threads : held[u]["inner"] # "w"
      BY <1>2, <2>2 DEF CanTake, CanRead, WritersOf
    <3> QED BY <1>3, <2>2, <3>1 DEF InnerExclusive
  <2>3. CASE l # "inner"
    BY <1>3, <2>3 DEF InnerExclusive
  <2> QED BY <1>1, <2>1, <2>2, <2>3
<1>8. FetchFromCurrentFork'
  BY <1>2 DEF FetchFromCurrentFork, LocksTypeOK
<1> QED BY <1>4, <1>5, <1>6, <1>7, <1>8
(* An acquisition through read_inner()/write_inner() or a poisoned-aware *)
(* lock: it fails with an error on a poisoned lock, else takes the guard. *)
LEMMA TakeOrFailStep ==
    ASSUME LInv, NEW t \in Threads, NEW p \in PCs \ Fetching,
           pc[t] \in DOMAIN Acquires,
           TakeOrFail(t, p),
           p \in InnerHeld => pc[t] \in InnerHeld \/ Acquires[pc[t]][1] = "inner",
           p \in Swapping =>
              \/ pc[t] \in Swapping /\ Acquires[pc[t]][1] # "inner"
              \/ Acquires[pc[t]] = <<"inner", "w">>
    PROVE  LInv'
<1>1. CASE Acquires[pc[t]][1] \in poisoned
  <2>1. /\ Finish(t, "Error")
        /\ UNCHANGED <<fork, fetchFork, tokFork, faults, call>>
    BY <1>1 DEF TakeOrFail
  <2>2. "Error" \in Outcomes /\ faults' \in 0 .. MaxFaults
    BY <2>1 DEF Outcomes, LInv, LocksTypeOK
  <2> QED BY <2>1, <2>2, FinishStep
<1>2. CASE Acquires[pc[t]][1] \notin poisoned
  <2>1. /\ Take(t, p)
        /\ UNCHANGED <<poisoned, fork, fetchFork, tokFork, outcome, faults, call>>
    BY <1>2 DEF TakeOrFail
  <2> QED BY <2>1, TakeStep
<1> QED BY <1>1, <1>2

(* A step between two acquisitions: no guard changes hands.               *)
LEMMA GotoStep ==
    ASSUME LInv, NEW t \in Threads, NEW p \in PCs, Goto(t, p),
           UNCHANGED <<held, poisoned, fork, fetchFork, tokFork, outcome, faults, call>>,
           p \notin Fetching \cup Swapping,
           p \in InnerHeld => pc[t] \in InnerHeld
    PROVE  LInv'
BY DEF Goto, LInv, LocksTypeOK, HoldsInner, SwapperWrites, InnerExclusive,
       FetchFromCurrentFork

(* get_confirmed_tokens returns its tokens: every guard is dropped and   *)
(* get_all_account_balances goes on to take the write lock.               *)
LEMMA DropStep ==
    ASSUME LInv, NEW t \in Threads, Goto(t, "bal_inner"),
           held' = [held EXCEPT ![t] = NoGuards],
           tokFork' \in [Threads -> Forks \cup {NoFork}],
           UNCHANGED <<poisoned, fork, fetchFork, outcome, faults, call>>
    PROVE  LInv'
<1> USE DEF LInv
<1>1. "bal_inner" \in PCs \ (InnerHeld \cup Swapping \cup Fetching)
  BY DEF PCs, Acquires, InnerHeld, Swapping, Fetching
<1>2. LocksTypeOK'
  BY <1>1 DEF Goto, LocksTypeOK, NoGuards, Modes
<1>3. HoldsInner' /\ SwapperWrites' /\ FetchFromCurrentFork'
  BY <1>1 DEF Goto, LocksTypeOK, HoldsInner, SwapperWrites, FetchFromCurrentFork
<1>4. InnerExclusive'
  BY DEF LocksTypeOK, InnerExclusive, NoGuards, Locks
<1> QED BY <1>2, <1>3, <1>4

(* A call starts at its first acquisition, holding nothing.              *)
LEMMA StartStep ==
    ASSUME LInv, NEW t \in Threads, NEW c \in Calls, Start(t, c)
    PROVE  LInv'
<1> USE DEF LInv
<1>1. /\ pc'[t] \in PCs \ (InnerHeld \cup Swapping \cup Fetching)
      /\ pc' = [pc EXCEPT ![t] = pc'[t]]
  BY DEF Start, PCs, Acquires, InnerHeld, Swapping, Fetching, LocksTypeOK
<1>2. LocksTypeOK'
  BY <1>1 DEF Start, LocksTypeOK
<1> QED BY <1>1, <1>2 DEF Start, LocksTypeOK, HoldsInner, SwapperWrites,
                           InnerExclusive, FetchFromCurrentFork
(* A call returns without touching the fork or the fetch bookkeeping.     *)
LEMMA ReturnStep ==
    ASSUME LInv, NEW t \in Threads, NEW out \in Outcomes, Finish(t, out),
           UNCHANGED <<fork, fetchFork, tokFork, faults, call>>
    PROVE  LInv'
BY FinishStep DEF LInv, LocksTypeOK

-----------------------------------------------------------------------------
(* The handlers, one lemma each, one step per step of the handler.        *)

LEMMA EstimateFeeStep ==
    ASSUME LInv, NEW t \in Threads, EstimateFee(t)
    PROVE  LInv'
<1>1. CASE /\ pc[t] = "ef_time"
           /\ Take(t, "ef_inner")
           /\ UNCHANGED <<poisoned, fork, fetchFork, tokFork, outcome, faults, call>>
  <2>1. /\ "ef_inner" \in PCs \ (InnerHeld \cup Swapping \cup Fetching)
        /\ pc[t] \in DOMAIN Acquires
    BY <1>1 DEF PCs, Acquires, InnerHeld, Swapping, Fetching
  <2> QED BY <1>1, <2>1, TakeStep
<1>2. CASE pc[t] = "ef_inner" /\ TakeOrFail(t, "ef_run")
  <2>1. /\ "ef_run" \in PCs \ (InnerHeld \cup Swapping \cup Fetching)
        /\ pc[t] \in DOMAIN Acquires
    BY <1>2 DEF PCs, Acquires, InnerHeld, Swapping, Fetching
  <2> QED BY <1>2, <2>1, TakeOrFailStep
<1>3. CASE /\ pc[t] = "ef_run"
           /\ \E ok \in BOOLEAN : Finish(t, IF ok THEN "Ok" ELSE "Error")
           /\ UNCHANGED <<fork, fetchFork, tokFork, faults, call>>
  <2>1. PICK ok \in BOOLEAN : Finish(t, IF ok THEN "Ok" ELSE "Error")
    BY <1>3
  <2>2. (IF ok THEN "Ok" ELSE "Error") \in Outcomes
    BY DEF Outcomes
  <2> QED BY <1>3, <2>1, <2>2, ReturnStep
<1> QED BY <1>1, <1>2, <1>3 DEF EstimateFee

LEMMA TraceCallStep ==
    ASSUME LInv, NEW t \in Threads, TraceCall(t)
    PROVE  LInv'
<1>1. CASE pc[t] = "tc_inner" /\ TakeOrFail(t, "tc_time")
  <2>1. /\ "tc_time" \in ((PCs \ Fetching) \cap InnerHeld) \ Swapping
        /\ pc[t] \in DOMAIN Acquires /\ Acquires[pc[t]][1] = "inner"
    BY <1>1 DEF PCs, Acquires, InnerHeld, Swapping, Fetching
  <2> QED BY <1>1, <2>1, TakeOrFailStep
<1>2. CASE /\ pc[t] = "tc_inner"
           /\ Finish(t, "Error")
           /\ UNCHANGED <<fork, fetchFork, tokFork, faults, call>>
  BY <1>2, ReturnStep DEF Outcomes
<1>3. CASE /\ pc[t] = "tc_time"
           /\ Goto(t, "tc_vm")
           /\ UNCHANGED <<held, poisoned, fork, fetchFork, tokFork, outcome, faults, call>>
  <2>1. "tc_vm" \in (PCs \cap InnerHeld) \ (Fetching \cup Swapping) /\ pc[t] \in InnerHeld
    BY <1>3 DEF PCs, Acquires, InnerHeld, Swapping, Fetching
  <2> QED BY <1>3, <2>1, GotoStep
<1>4. CASE /\ pc[t] = "tc_vm"
           /\ \E ok \in BOOLEAN :
                 Finish(t, IF ok /\ "fork" \notin poisoned THEN "Ok" ELSE "Error")
           /\ UNCHANGED <<fork, fetchFork, tokFork, faults, call>>
  <2>1. PICK ok \in BOOLEAN :
           Finish(t, IF ok /\ "fork" \notin poisoned THEN "Ok" ELSE "Error")
    BY <1>4
  <2>2. (IF ok /\ "fork" \notin poisoned THEN "Ok" ELSE "Error") \in Outcomes
    BY DEF Outcomes
  <2> QED BY <1>4, <2>1, <2>2, ReturnStep
<1>5. CASE /\ pc[t] = "tc_vm"
           /\ fork # NoFork
           /\ Take(t, "tc_mem")
           /\ fetchFork' = [fetchFork EXCEPT ![t] = fork]
           /\ UNCHANGED <<poisoned, fork, tokFork, outcome, faults, call>>
  <2>1. /\ "tc_mem" \in (PCs \cap InnerHeld) \ Swapping
        /\ pc[t] \in DOMAIN Acquires \cap InnerHeld
    BY <1>5 DEF PCs, Acquires, InnerHeld, Swapping, Fetching
  <2> QED BY <1>5, <2>1, TakeStep
<1>6. CASE /\ pc[t] = "tc_mem"
           /\ \E ok \in BOOLEAN : Finish(t, IF ok THEN "Ok" ELSE "Error")
           /\ UNCHANGED <<fork, fetchFork, tokFork, faults, call>>
  <2>1. PICK ok \in BOOLEAN : Finish(t, IF ok THEN "Ok" ELSE "Error")
    BY <1>6
  <2>2. (IF ok THEN "Ok" ELSE "Error") \in Outcomes
    BY DEF Outcomes
  <2> QED BY <1>6, <2>1, <2>2, ReturnStep
<1> QED BY <1>1, <1>2, <1>3, <1>4, <1>5, <1>6 DEF TraceCall

LEMMA ForkFallbackReadStep ==
    ASSUME LInv, NEW t \in Threads, ForkFallbackRead(t)
    PROVE  LInv'
<1>1. CASE pc[t] = "fr_inner" /\ TakeOrFail(t, "fr_fork")
  <2>1. /\ "fr_fork" \in ((PCs \ Fetching) \cap InnerHeld) \ Swapping
        /\ pc[t] \in DOMAIN Acquires /\ Acquires[pc[t]][1] = "inner"
    BY <1>1 DEF PCs, Acquires, InnerHeld, Swapping, Fetching
  <2> QED BY <1>1, <2>1, TakeOrFailStep
<1>2. CASE /\ Finish(t, "Ok")
           /\ UNCHANGED <<fork, fetchFork, tokFork, faults, call>>
  BY <1>2, ReturnStep DEF Outcomes
<1> QED BY <1>1, <1>2 DEF ForkFallbackRead
LEMMA ForkGuardStep ==
    ASSUME LInv, NEW t \in Threads, ForkGuard(t)
    PROVE  LInv'
<1>1. CASE /\ Finish(t, "Panic")
           /\ UNCHANGED <<fork, fetchFork, tokFork, faults, call>>
  BY <1>1, ReturnStep DEF Outcomes
<1>2. CASE /\ tokFork' = [tokFork EXCEPT ![t] = NoFork]
           /\ held' = [held EXCEPT ![t] = NoGuards]
           /\ Goto(t, "bal_inner")
           /\ UNCHANGED <<poisoned, fork, fetchFork, outcome, faults, call>>
  <2>1. tokFork' \in [Threads -> Forks \cup {NoFork}]
    BY <1>2 DEF LInv, LocksTypeOK
  <2> QED BY <1>2, <2>1, DropStep
<1>3. CASE /\ Finish(t, IF call[t] \in SwallowsFetchError THEN "None" ELSE "Ok")
           /\ UNCHANGED <<fork, fetchFork, tokFork, faults, call>>
  <2>1. (IF call[t] \in SwallowsFetchError THEN "None" ELSE "Ok") \in Outcomes
    BY DEF Outcomes
  <2> QED BY <1>3, <2>1, ReturnStep
<1>4. CASE /\ pc[t] = "fr_fork"
           /\ fork # NoFork
           /\ Take(t, "fetch")
           /\ fetchFork' = [fetchFork EXCEPT ![t] = fork]
           /\ UNCHANGED <<poisoned, fork, tokFork, outcome, faults, call>>
  <2>1. /\ "fetch" \in (PCs \cap InnerHeld) \ Swapping
        /\ pc[t] \in DOMAIN Acquires \cap InnerHeld
    BY <1>4 DEF PCs, Acquires, InnerHeld, Swapping, Fetching
  <2> QED BY <1>4, <2>1, TakeStep
<1> QED BY <1>1, <1>2, <1>3, <1>4 DEF ForkGuard

LEMMA FetchReturnStep ==
    ASSUME LInv, NEW t \in Threads, FetchReturn(t)
    PROVE  LInv'
<1>1. PICK ok \in BOOLEAN :
          IF call[t] = "get_all_account_balances" /\ ok
          THEN /\ tokFork' = [tokFork EXCEPT ![t] = fetchFork[t]]
               /\ held' = [held EXCEPT ![t] = NoGuards]
               /\ Goto(t, "bal_inner")
               /\ UNCHANGED <<poisoned, fork, fetchFork, outcome, faults, call>>
          ELSE /\ Finish(t, IF ok THEN "Ok"
                             ELSE IF call[t] \in SwallowsFetchError THEN "None"
                             ELSE "Error")
               /\ UNCHANGED <<fork, fetchFork, tokFork, faults, call>>
  BY DEF FetchReturn
<1>2. CASE call[t] = "get_all_account_balances" /\ ok
  <2>1. /\ tokFork' = [tokFork EXCEPT ![t] = fetchFork[t]]
        /\ held' = [held EXCEPT ![t] = NoGuards]
        /\ Goto(t, "bal_inner")
        /\ UNCHANGED <<poisoned, fork, fetchFork, outcome, faults, call>>
    BY <1>1, <1>2
  <2>2. tokFork' \in [Threads -> Forks \cup {NoFork}]
    BY <2>1 DEF LInv, LocksTypeOK
  <2> QED BY <2>1, <2>2, DropStep
<1>3. CASE ~(call[t] = "get_all_account_balances" /\ ok)
  <2> DEFINE out == IF ok THEN "Ok"
                    ELSE IF call[t] \in SwallowsFetchError THEN "None"
                    ELSE "Error"
  <2>1. Finish(t, out) /\ UNCHANGED <<fork, fetchFork, tokFork, faults, call>>
    BY <1>1, <1>3
  <2>2. out \in Outcomes
    BY DEF Outcomes
  <2> QED BY <2>1, <2>2, ReturnStep
<1> QED BY <1>2, <1>3

LEMMA GetBytecodeByHashStep ==
    ASSUME LInv, NEW t \in Threads, GetBytecodeByHash(t)
    PROVE  LInv'
<1>1. CASE pc[t] = "bc_inner" /\ TakeOrFail(t, "bc_load")
  <2>1. /\ "bc_load" \in ((PCs \ Fetching) \cap InnerHeld) \ Swapping
        /\ pc[t] \in DOMAIN Acquires /\ Acquires[pc[t]][1] = "inner"
    BY <1>1 DEF PCs, Acquires, InnerHeld, Swapping, Fetching
  <2> QED BY <1>1, <2>1, TakeOrFailStep
<1>2. CASE /\ \E ok \in BOOLEAN :
                 Finish(t, IF ok /\ "fork" \notin poisoned THEN "Ok" ELSE "Error")
           /\ UNCHANGED <<fork, fetchFork, tokFork, faults, call>>
  <2>1. PICK ok \in BOOLEAN :
           Finish(t, IF ok /\ "fork" \notin poisoned THEN "Ok" ELSE "Error")
    BY <1>2
  <2>2. (IF ok /\ "fork" \notin poisoned THEN "Ok" ELSE "Error") \in Outcomes
    BY DEF Outcomes
  <2> QED BY <1>2, <2>1, <2>2, ReturnStep
<1>3. CASE /\ pc[t] = "bc_load"
           /\ Goto(t, "bc_fork")
           /\ UNCHANGED <<held, poisoned, fork, fetchFork, tokFork, outcome, faults, call>>
  <2>1. "bc_fork" \in (PCs \cap InnerHeld) \ (Fetching \cup Swapping) /\ pc[t] \in InnerHeld
    BY <1>3 DEF PCs, Acquires, InnerHeld, Swapping, Fetching
  <2> QED BY <1>3, <2>1, GotoStep
<1>4. CASE /\ Finish(t, "Ok")
           /\ UNCHANGED <<fork, fetchFork, tokFork, faults, call>>
  BY <1>4, ReturnStep DEF Outcomes
<1>5. CASE /\ pc[t] = "bc_fork"
           /\ fork # NoFork
           /\ Take(t, "fetch")
           /\ fetchFork' = [fetchFork EXCEPT ![t] = fork]
           /\ UNCHANGED <<poisoned, fork, tokFork, outcome, faults, call>>
  <2>1. /\ "fetch" \in (PCs \cap InnerHeld) \ Swapping
        /\ pc[t] \in DOMAIN Acquires \cap InnerHeld
    BY <1>5 DEF PCs, Acquires, InnerHeld, Swapping, Fetching
  <2> QED BY <1>5, <2>1, TakeStep
<1> QED BY <1>1, <1>2, <1>3, <1>4, <1>5 DEF GetBytecodeByHash
LEMMA GetAllAccountBalancesStep ==
    ASSUME LInv, NEW t \in Threads, GetAllAccountBalances(t)
    PROVE  LInv'
<1>1. CASE pc[t] = "bal_inner" /\ TakeOrFail(t, "bal_read")
  <2>1. /\ "bal_read" \in ((PCs \ Fetching) \cap InnerHeld) \ Swapping
        /\ pc[t] \in DOMAIN Acquires /\ Acquires[pc[t]][1] = "inner"
    BY <1>1 DEF PCs, Acquires, InnerHeld, Swapping, Fetching
  <2> QED BY <1>1, <2>1, TakeOrFailStep
<1>2. CASE /\ pc[t] = "bal_read"
           /\ fetchFork' = [fetchFork EXCEPT ![t] = fork]
           /\ fork = NoFork \/ "fork" \in poisoned
           /\ Finish(t, IF "fork" \in poisoned THEN "Error" ELSE "Ok")
           /\ UNCHANGED <<fork, tokFork, faults, call>>
  <2>1. /\ (IF "fork" \in poisoned THEN "Error" ELSE "Ok") \in Outcomes
        /\ faults' \in 0 .. MaxFaults
    BY <1>2 DEF Outcomes, LInv, LocksTypeOK
  <2> QED BY <1>2, <2>1, FinishStep
<1>3. CASE /\ pc[t] = "bal_read"
           /\ fetchFork' = [fetchFork EXCEPT ![t] = fork]
           /\ ~(fork = NoFork \/ "fork" \in poisoned)
           /\ Take(t, "bal_fetch")
           /\ UNCHANGED <<poisoned, fork, tokFork, outcome, faults, call>>
  <2>1. /\ "bal_fetch" \in (PCs \cap InnerHeld) \ Swapping
        /\ pc[t] \in DOMAIN Acquires \cap InnerHeld
    BY <1>3 DEF PCs, Acquires, InnerHeld, Swapping, Fetching
  <2> QED BY <1>3, <2>1, TakeStep
<1>4. CASE /\ pc[t] = "bal_fetch"
           /\ \E ok \in BOOLEAN : Finish(t, IF ok THEN "Ok" ELSE "Error")
           /\ UNCHANGED <<fork, fetchFork, tokFork, faults, call>>
  <2>1. PICK ok \in BOOLEAN : Finish(t, IF ok THEN "Ok" ELSE "Error")
    BY <1>4
  <2>2. (IF ok THEN "Ok" ELSE "Error") \in Outcomes
    BY DEF Outcomes
  <2> QED BY <1>4, <2>1, <2>2, ReturnStep
<1> QED BY <1>1, <1>2, <1>3, <1>4 DEF GetAllAccountBalances

LEMMA SetRpcUrlStep ==
    ASSUME LInv, NEW t \in Threads, SetRpcUrl(t)
    PROVE  LInv'
<1>1. CASE pc[t] = "sw_inner" /\ TakeOrFail(t, "sw_fork")
  <2>1. /\ "sw_fork" \in (PCs \ Fetching) \cap InnerHeld \cap Swapping
        /\ pc[t] \in DOMAIN Acquires /\ Acquires[pc[t]] = <<"inner", "w">>
    BY <1>1 DEF PCs, Acquires, InnerHeld, Swapping, Fetching
  <2> QED BY <1>1, <2>1, TakeOrFailStep
<1>2. CASE pc[t] = "sw_fork" /\ TakeOrFail(t, "sw_set")
  <2>1. /\ "sw_set" \in (PCs \ Fetching) \cap InnerHeld \cap Swapping
        /\ pc[t] \in DOMAIN Acquires \cap InnerHeld \cap Swapping
        /\ Acquires[pc[t]][1] # "inner"
    BY <1>2 DEF PCs, Acquires, InnerHeld, Swapping, Fetching
  <2> QED BY <1>2, <2>1, TakeOrFailStep
<1>3. CASE /\ pc[t] = "sw_set"
           /\ \E f \in Forks \cup {NoFork} : fork' = f
           /\ Finish(t, "Ok")
           /\ UNCHANGED <<fetchFork, tokFork, faults, call>>
  <2>1. "Ok" \in Outcomes /\ faults' \in 0 .. MaxFaults
    BY <1>3 DEF Outcomes, LInv, LocksTypeOK
  <2> QED BY <1>3, <2>1, FinishStep
<1> QED BY <1>1, <1>2, <1>3 DEF SetRpcUrl

LEMMA AnvilWriteStep ==
    ASSUME LInv, NEW t \in Threads, AnvilWrite(t)
    PROVE  LInv'
<1>1. CASE pc[t] = "aw_inner" /\ TakeOrFail(t, "aw_run")
  <2>1. /\ "aw_run" \in PCs \ (InnerHeld \cup Swapping \cup Fetching)
        /\ pc[t] \in DOMAIN Acquires
    BY <1>1 DEF PCs, Acquires, InnerHeld, Swapping, Fetching
  <2> QED BY <1>1, <2>1, TakeOrFailStep
<1>2. CASE /\ Finish(t, "Ok")
           /\ UNCHANGED <<fork, fetchFork, tokFork, faults, call>>
  BY <1>2, ReturnStep DEF Outcomes
<1> QED BY <1>1, <1>2 DEF AnvilWrite

(* A writer crashes: its guards are dropped and the fault is counted.     *)
LEMMA CrashStep ==
    ASSUME LInv, NEW t \in Threads, Crash(t)
    PROVE  LInv'
<1>1. "Crashed" \in Outcomes /\ faults' \in 0 .. MaxFaults
  BY LocksAssumption DEF Crash, Outcomes, LInv, LocksTypeOK
<1> QED BY <1>1, FinishStep DEF Crash

LEMMA LInvStep ==
    ASSUME LInv, [LNext]_lvars
    PROVE  LInv'
<1>1. CASE UNCHANGED lvars
  BY <1>1 DEF lvars, LInv, LocksTypeOK, HoldsInner, SwapperWrites,
              InnerExclusive, FetchFromCurrentFork
<1>2. CASE LNext
  <2>1. PICK t \in Threads :
           \/ \E c \in Calls : Start(t, c)
           \/ InCall(t)
           \/ Crash(t)
    BY <1>2 DEF LNext
  <2>2. CASE \E c \in Calls : Start(t, c)
    BY <2>2, StartStep
  <2>3. CASE InCall(t)
    BY <2>3, EstimateFeeStep, TraceCallStep, ForkFallbackReadStep,
       ForkGuardStep, FetchReturnStep, GetBytecodeByHashStep,
       GetAllAccountBalancesStep, SetRpcUrlStep, AnvilWriteStep
    DEF InCall
  <2>4. CASE Crash(t)
    BY <2>4, CrashStep
  <2> QED BY <2>1, <2>2, <2>3, <2>4
<1> QED BY <1>1, <1>2

LEMMA LInvAlways == LSpec => []LInv
BY LInvInit, LInvStep, PTL DEF LSpec

-----------------------------------------------------------------------------
(***************************************************************************)
(* Type correctness of the lock model: every thread is at a step of its   *)
(* handler, guards are "none", "r" or "w", and a thread that is fetching  *)
(* has a remote source, for every number of threads and forks.            *)
(***************************************************************************)
THEOREM LocksTypeCorrect == LSpec => []LocksTypeOK
BY LInvAlways, PTL DEF LInv

(***************************************************************************)
(* Every remote read of the handlers in zks.rs and debug.rs (the fork-     *)
(* fallback readers, get_bytecode_by_hash, get_all_account_balances and   *)
(* the VM's storage misses in trace_call) is answered by the fork that is *)
(* configured while it runs: set_rpc_url cannot swap the source under it, *)
(* for any number of threads.                                             *)
(***************************************************************************)
THEOREM FetchCurrentFork == LSpec => []FetchFromCurrentFork
BY LInvAlways, PTL DEF LInv
=============================================================================
