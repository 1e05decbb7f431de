--------------------------- MODULE MC_ForkStorage ---------------------------
EXTENDS ForkStorage, TLC

CONSTANTS k1, k2, f1, v0, v1

(* A storage key and a code key, so that set_code and the change-reporting *)
(* setters both fire and a dump can record part of the keys.              *)
MC_Keys == {k1, k2}
MC_CodeKeys == {k2}
(* One fork besides NoFork: resets and loads still cross two sources.     *)
MC_OneFork == {f1}
MC_Values == {v0, v1}
(* f1 answers v1 for k1 and Zero for k2, so a value from the wrong tier   *)
(* or the wrong source is visible.                                        *)
MC_Remote == [f \in Forks |-> [k \in Keys |-> IF (f = f1) = (k = k1) THEN v1 ELSE v0]]
=============================================================================
