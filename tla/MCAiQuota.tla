------------------------------ MODULE MCAiQuota -------------------------------
(* A dashboard user with two chats, and a storefront visitor with one, over a *)
(* quota of two estimates and a month that may end.                            *)
EXTENDS AiQuota, TLC

CONSTANTS a1, a2, v1, ann, vis

MCChats == {a1, a2, v1}
MCUsers == {ann, vis}
MCUserOf == [c \in MCChats |-> IF c = v1 THEN vis ELSE ann]
MCEstimate == [c \in MCChats |-> IF c = v1 THEN 2 ELSE 3]
MCUsages == {1, 4}
MCRateLimit == [k \in MCUsers |-> 1]
ChatSymmetry == Permutations({a1, a2})
=============================================================================
