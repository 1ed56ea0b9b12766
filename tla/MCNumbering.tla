----------------------------- MODULE MCNumbering -----------------------------
(* Two tenants' order series whose hashed keys collide on one lock, and a    *)
(* donation series with a lock of its own.                                   *)
EXTENDS Numbering, TLC

CONSTANTS t1, t2, t3, ordA, ordB, donA, k1, k2

MCTxns == {t1, t2, t3}
MCSeries == {ordA, ordB, donA}
MCLocks == {k1, k2}
MCLockOf == [s \in MCSeries |-> IF s = donA THEN k2 ELSE k1]

TxnSymmetry == Permutations(MCTxns)
=============================================================================
