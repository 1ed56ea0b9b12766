----------------------------- MODULE MCPosShift ------------------------------
(* A day at the till: two opens, two closes, three sales, a cancellation.     *)
EXTENDS PosShift, TLC

CONSTANTS o1, o2, c1, c2, cash1, card, x1

MCOpeners == {o1, o2}
MCClosers == {c1, c2}
OneSale == {cash1}
OneCard == {card}
OneCancel == {x1}
None == {}

ShiftSymmetry == Permutations(MCOpeners) \cup Permutations(MCClosers)
=============================================================================
