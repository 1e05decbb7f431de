------------------------------ MODULE MC_Readers ------------------------------
EXTENDS Readers, TLC

CONSTANTS t1, t2, a1, a2, r1

MC_Txs == {t1, t2}
MC_Addresses == {a1, a2}
MC_Sender == (t1 :> a1) @@ (t2 :> a2)
MC_Readers == {r1}
=============================================================================
