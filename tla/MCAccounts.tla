----------------------------- MODULE MCAccounts ------------------------------
(* Two tenants with an owner, one with two, invitations of one person by     *)
(* both, a free slug; three concurrent requests.                             *)
EXTENDS Accounts, TLC

CONSTANTS t1, t2, t3, ann, bob, cat, dan, root, acme, bistro, corner,
          ea, eb, ec, er, pd1

MCTxns == {t1, t2, t3}
MCSubs == {ann, bob, cat, dan, root}
MCEmails == {ea, eb, ec, er, pd1}
MCTenants == {acme, bistro, corner}
Symmetry3 == Permutations(MCTxns)

MCInitUsers == ann :> ea @@ bob :> eb @@ cat :> None @@ dan :> None @@ root :> er
\* A token with the address, and one without: a placeholder.
MCTokenEmail == ann :> ea @@ bob :> eb @@ cat :> ec @@ dan :> pd1 @@ root :> er
MCInitTenants == acme :> "active" @@ bistro :> "active" @@ corner :> "none"

Row(n, s, e, r, st) == [tenant |-> n, user |-> s, email |-> e, role |-> r, status |-> st]
MCInitMembers == 1 :> Row(acme, ann, None, "owner", "active")
              @@ 2 :> Row(acme, bob, eb, "owner", "active")
              @@ 3 :> Row(acme, None, ec, "member", "invited")
              @@ 4 :> Row(bistro, root, None, "owner", "active")
              @@ 5 :> Row(bistro, None, ec, "admin", "invited")
              @@ 6 :> NoRow @@ 7 :> NoRow @@ 8 :> NoRow

Ask(op, s) == [op |-> op, by |-> s, email |-> None, tenant |-> None, target |-> 0, role |-> None]
In(q, n) == [q EXCEPT !.tenant = n]
On(q, m) == [q EXCEPT !.target = m]
To(q, r) == [q EXCEPT !.role = r]
For(q, e) == [q EXCEPT !.email = e]

OwnerRequests ==
    {On(In(Ask("remove", ann), acme), 2), On(Ask("remove", bob), 1),
     To(On(In(Ask("role", ann), acme), 2), "admin"),
     On(In(Ask("remove", root), bistro), 4)}
InviteRequests ==
    {On(In(Ask("remove", ann), acme), 3), Ask("accept", cat),
     To(For(In(Ask("invite", bob), acme), ec), "member"),
     To(For(In(Ask("invite", ann), acme), eb), "member")}
UserRequests ==
    {For(Ask("login", cat), ec), For(Ask("login", dan), ec), For(Ask("login", bob), ec),
     In(Ask("create", cat), corner), In(Ask("create", dan), corner), Ask("serve", cat)}
AdminRequests ==
    {In(Ask("suspend", root), acme), In(Ask("reactivate", root), acme),
     In(Ask("suspend", ann), bistro), In(Ask("serve", bob), acme)}
AllRequests == OwnerRequests \cup InviteRequests \cup UserRequests \cup AdminRequests
=============================================================================
