--------------------------- MODULE SequenceCounter ---------------------------
(* What auto-numbering promises (services/numbering.py, lines 3-4): in each  *)
(* series the numbers 1, 2, 3, ... are issued one after the other, none      *)
(* skipped and none issued twice.                                            *)
EXTENDS Naturals, Sequences

CONSTANT Series        \* the numbered series: a tenant and a prefix

VARIABLE issued        \* issued[s]: the numbers committed rows carry, in order

Init == issued = [s \in Series |-> <<>>]

Issue(s) == issued' = [issued EXCEPT ![s] = Append(@, Len(@) + 1)]

Next == \E s \in Series : Issue(s)

Spec == Init /\ [][Next]_issued
=============================================================================
