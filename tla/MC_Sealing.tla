------------------------------ MODULE MC_Sealing ------------------------------
EXTENDS Sealing, TLC

CONSTANTS t1, a1

(* One transaction and one address: enough for immediate sealing on      *)
(* submission and for impersonation; the transaction index itself is     *)
(* checked at larger bounds by MC_Readers.                                *)
MC_Txs == {t1}
MC_Addresses == {a1}
MC_Sender == t1 :> a1
=============================================================================
