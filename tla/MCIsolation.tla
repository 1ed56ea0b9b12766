----------------------------- MODULE MCIsolation -----------------------------
(* Two tenants. ann owns one and is invited to the other; bob was removed    *)
(* from the first, and is invited by both; cyd works for both; pat, an admin *)
(* of the first, administers the platform.                                   *)
EXTENDS Isolation, TLC

CONSTANTS t1, t2, ann, bob, cyd, pat

Member(t, u, role) ==
    [tenant |-> t, user |-> u, email |-> None, role |-> role, status |-> "active"]
Invitation(t, u) ==
    [tenant |-> t, user |-> None, email |-> u, role |-> "member", status |-> "invited"]

MCMemberships ==
    {Member(t1, ann, "owner"), Invitation(t2, ann),
     [Member(t1, bob, "member") EXCEPT !.status = "removed"],
     Invitation(t1, bob), Invitation(t2, bob),
     Member(t1, cyd, "admin"), Member(t2, cyd, "cashier"), Member(t1, pat, "admin")}

Symmetry == Permutations(Clients)

==============================================================================
