--------------------------- MODULE AccountsProofs ----------------------------
(* Proofs about Accounts for any requests over any users and tenants: who is *)
(* served was entitled, the audit trail tells the state, a tenant loses its  *)
(* last owner and a removed member comes back only by a request that had     *)
(* read memberships since changed.                                           *)
EXTENDS Accounts, FiniteSetTheorems, TLAPS

Event == [entity : Members \cup Tenants, to : Roles \cup {"active", "suspended"}, at : Nat]

\* Some rows of a table.
Rows(keys, rows) == UNION {[ks -> rows] : ks \in SUBSET keys}
Writes ==
    [users : Rows(Subs, Emails), tenants : Rows(Tenants, {"active", "suspended"}),
     members : Rows(Members, TenantMember), audit : {<<>>} \cup {<<e>> : e \in Event}]

AnyRow == [tenant : Tenants \cup {None}, user : Subs \cup {None}, email : Emails \cup {None},
           role : Roles \cup {None}, status : {"active", "invited", "removed", "none"}]

Now ==
    /\ user \in [Subs -> Emails \cup {None}]
    /\ tenant \in [Tenants -> {"none", "active", "suspended"}]
    /\ member \in [Members -> TenantMember \cup {NoRow}]
    /\ audit \in Seq(Event)
    /\ wr \in [Txns -> Writes]
    /\ pc \in [Txns -> Pcs]
    /\ req \in [Txns -> Requests]
    /\ result = [t \in Txns |-> result[t]]
    /\ me \in [Txns -> Emails \cup {None}]
    /\ tid \in [Txns -> Tenants \cup {None}]
    /\ own \in [Txns -> [id : Members \cup {0}, role : Roles \cup {None}]]
    /\ seen \in [Txns -> AnyRow]
    /\ invites \in [Txns -> SUBSET Members]
History ==
    /\ clock \in Nat /\ began \in [Txns -> Nat]
    /\ stale \in [Txns -> BOOLEAN]
    /\ entitled \in [Txns -> SUBSET {"role", "tenant", "clash", "removed"}]

\* The statement c belongs to the handler of operation op.
Fits(c, op) ==
    /\ c = "provision" => op # "login"
    /\ c \in {"find_email", "insert_user", "update_email", "refetch"} => op = "login"
    /\ c \in {"membership", "tenant", "role"} => op \in TenantOps
    /\ c \in {"invitee", "pending", "insert_member"} => op = "invite"
    /\ c \in {"target", "count", "write"} => op \in {"remove", "role"}
    /\ c = "insert_tenant" => op = "create"
    /\ c \in {"load_invites", "accept"} => op = "accept"
    /\ c \in {"load_tenant", "write_tenant"} => op \in AdminOps

ControlOK(t) ==
    /\ Fits(pc[t], req[t].op)
    /\ pc[t] # "end" => result[t] = "none"
    /\ pc[t] = "provision" => me[t] \in Emails

\* The events es are one, about k, which names v.
Names(es, k, v) == \E e \in Event : es = <<e>> /\ e.entity = k /\ e.to = v

\* What t has written of row m, against the row as it is.
RowOK(t, m) ==
    LET row == wr[t].members[m]
        target == m = req[t].target
    IN  member[m] # NoRow =>
          /\ row.tenant = member[m].tenant
          /\ \/ row.role = member[m].role
             \/ req[t].op = "role" /\ target /\ Names(wr[t].audit, m, row.role)
          /\ \/ row.status = member[m].status
             \/ req[t].op = "remove" /\ target /\ row.status = "removed"
             \/ req[t].op = "accept" /\ m \in invites[t] /\ row.status = "active"

OwnerRow(row, n) == row.tenant = n /\ row.role = "owner" /\ row.status = "active"

\* A new tenant comes with an owner, another one with its event.
TenantRowOK(t, n) ==
    \/ /\ tenant[n] = "none" /\ wr[t].audit = <<>>
       /\ \E m \in DOMAIN wr[t].members :
             member[m] = NoRow /\ OwnerRow(wr[t].members[m], n)
    \/ tenant[n] # "none" /\ Names(wr[t].audit, n, wr[t].tenants[n])

\* Events are about the rows they are written with.
EventOK(t, e) ==
    \/ /\ e.entity \in DOMAIN wr[t].members /\ member[e.entity] # NoRow
       /\ wr[t].members[e.entity].role = e.to
    \/ e.entity \in DOMAIN wr[t].tenants /\ wr[t].tenants[e.entity] = e.to

WritesOK(t) ==
    /\ pc[t] # "commit" =>
          wr[t].tenants = <<>> /\ wr[t].members = <<>> /\ wr[t].audit = <<>>
    /\ \A m \in DOMAIN wr[t].members : RowOK(t, m)
    /\ \A n \in DOMAIN wr[t].tenants : TenantRowOK(t, n)
    /\ \A e \in Event : wr[t].audit = <<e>> => EventOK(t, e)
    /\ req[t].op \in {"remove", "role"} =>
          DOMAIN wr[t].members \subseteq {req[t].target} /\ DOMAIN wr[t].tenants = {}

\* The tenant of the target keeps an owner without it.
Spared(t) ==
    LET k == req[t].target IN
    member[k].role = "owner" => ActiveOwners(tid[t]) \ {k} # {}

InTenant(t) ==
    \/ pc[t] \in {"invitee", "pending", "insert_member", "target", "count", "write"}
    \/ pc[t] = "commit" /\ req[t].op \in TenantOps
AtTarget(t) ==
    \/ pc[t] \in {"count", "write"}
    \/ pc[t] = "commit" /\ req[t].op \in {"remove", "role"}
Accepting(t) == pc[t] = "accept" \/ (pc[t] = "commit" /\ req[t].op = "accept")

\* What a handler has loaded, against what is there.
LoadedOK(t) ==
    LET q == req[t] IN
    /\ pc[t] \in {"tenant", "role"} \/ InTenant(t) => tid[t] \in Tenants
    /\ pc[t] \in {"tenant", "role"} => q.tenant \in {None, tid[t]}
    /\ pc[t] \in {"tenant", "role", "target"} =>
          /\ own[t].id \in Members /\ own[t].role \in Roles
          /\ member[own[t].id] # NoRow
          /\ ~stale[t] => own[t].role = member[own[t].id].role
    /\ AtTarget(t) => member[q.target] # NoRow /\ member[q.target].tenant = tid[t]
    /\ AtTarget(t) /\ pc[t] # "count" /\ ~stale[t] => Spared(t)
    /\ pc[t] = "accept" => \A m \in invites[t] : member[m] # NoRow
    /\ Accepting(t) /\ ~stale[t] => \A m \in invites[t] : member[m].status = "invited"
    /\ pc[t] = "write_tenant" => tenant[q.tenant] # "none"
    /\ pc[t] \in {"pending", "insert_member"} /\ ~stale[t] /\ seen[t].user # None =>
          \A m \in Members : member[m].tenant = tid[t] /\ member[m].user = seen[t].user
             => member[m].status = "removed"

Suffices(t) == role_hierarchy[own[t].role] >= role_hierarchy[MinRole(req[t].op)]
Unique(t) == result[t] = "500 unique" /\ req[t].op = "invite" /\ ~stale[t]

\* What the history says of a request that has come so far.
EntitledOK(t) ==
    /\ pc[t] \in {"tenant", "role"} /\ Suffices(t) => "role" \in entitled[t]
    /\ pc[t] = "role" => "tenant" \in entitled[t]
    /\ InTenant(t) \/ (result[t] = "ok" /\ req[t].op \in TenantOps) =>
          {"role", "tenant"} \subseteq entitled[t]
    /\ pc[t] = "refetch" => user[req[t].by] # None \/ "clash" \in entitled[t]
    /\ result[t] = "409 index" => "clash" \in entitled[t]
    /\ Unique(t) => "removed" \in entitled[t]

TxnOK(t) == ControlOK(t) /\ WritesOK(t) /\ LoadedOK(t) /\ EntitledOK(t)

\* The row locks: no row is written by two transactions.
Alone(t, u) ==
    /\ DOMAIN wr[t].members \cap DOMAIN wr[u].members = {}
    /\ DOMAIN wr[t].tenants \cap DOMAIN wr[u].tenants = {}
LocksOK == \A t, u \in Txns : t # u => Alone(t, u)

\* The last event of a row names what it is, and no row is lost.
Current(e) ==
    IF e.entity \in Members THEN e.to = member[e.entity].role ELSE e.to = tenant[e.entity]
There(e) ==
    IF e.entity \in Members THEN member[e.entity] # NoRow ELSE tenant[e.entity] # "none"
Last(i) == \A j \in DOMAIN audit : j > i => audit[j].entity # audit[i].entity
AuditOK == \A i \in DOMAIN audit : There(audit[i]) /\ (Last(i) => Current(audit[i]))

\* Each request that is audited begins at a time of its own, and its event is
\* of that time.
Stamped(t) ==
    /\ began[t] <= clock
    /\ pc[t] = "idle" => began[t] = 0
    /\ pc[t] # "idle" /\ req[t].op \in Audited => began[t] # 0
    /\ \A u \in Txns : began[t] = began[u] => t = u \/ began[t] = 0
    /\ \A e \in Event : wr[t].audit = <<e>> => req[t].op \in Audited /\ e.at = began[t]
    /\ \A i \in DOMAIN audit : audit[i].at = began[t] => pc[t] = "end"
StampsOK ==
    /\ \A t \in Txns : Stamped(t)
    /\ \A i \in DOMAIN audit :
          /\ audit[i].at \in 1 .. clock
          /\ \A j \in DOMAIN audit : audit[i].at = audit[j].at => i = j
          /\ \E j \in DOMAIN audit : audit[j].entity = audit[i].entity /\ Last(j)

Typed == Now /\ History
Inv == Typed /\ LocksOK /\ AuditOK /\ StampsOK /\ \A t \in Txns : TxnOK(t)
-----------------------------------------------------------------------------
LEMMA RowsTyped ==
    /\ NoRow \notin TenantMember /\ NoRow \in AnyRow /\ TenantMember \subseteq AnyRow
    /\ \A m \in Members, s \in Subs : NoRow.tenant \notin Tenants /\ NoRow.user # s
BY AccountsAssumption DEF NoRow, TenantMember, AnyRow

LEMMA Nothing ==
    /\ DOMAIN <<>> = {} /\ \A e : <<>> # <<e>>
    /\ \A keys, rows : <<>> \in Rows(keys, rows)
<1>1. DOMAIN <<>> = {} /\ \A e : <<>> # <<e>>
  OBVIOUS
<1>2. ASSUME NEW rows PROVE <<>> \in [{} -> rows]
  OBVIOUS
<1> QED  BY <1>1, <1>2 DEF Rows

LEMMA OneRow ==
    ASSUME NEW keys, NEW rows, NEW x \in keys, NEW row \in rows
    PROVE  /\ Only(x, row) \in Rows(keys, rows)
           /\ DOMAIN Only(x, row) = {x} /\ Only(x, row)[x] = row
<1>1. Only(x, row) \in [{x} -> rows]
  BY DEF Only
<1> QED  BY <1>1 DEF Rows, Only

LEMMA RowsAre ==
    ASSUME NEW keys, NEW rows, NEW f \in Rows(keys, rows)
    PROVE  DOMAIN f \subseteq keys /\ \A x \in DOMAIN f : f[x] \in rows
BY DEF Rows

LEMMA WritesAre ==
    ASSUME NEW w \in Writes
    PROVE  /\ DOMAIN w.users \subseteq Subs /\ \A s \in DOMAIN w.users : w.users[s] \in Emails
           /\ DOMAIN w.tenants \subseteq Tenants
           /\ \A n \in DOMAIN w.tenants : w.tenants[n] \in {"active", "suspended"}
           /\ DOMAIN w.members \subseteq Members
           /\ \A m \in DOMAIN w.members : w.members[m] \in TenantMember
           /\ w.audit = <<>> \/ \E e \in Event : w.audit = <<e>>
<1>1. /\ w.users \in Rows(Subs, Emails) /\ w.tenants \in Rows(Tenants, {"active", "suspended"})
      /\ w.members \in Rows(Members, TenantMember)
      /\ w.audit = <<>> \/ \E e \in Event : w.audit = <<e>>
  BY DEF Writes
<1> QED  BY <1>1, RowsAre

LEMMA NoWritesAre ==
    NoWrites.tenants = <<>> /\ NoWrites.members = <<>> /\ NoWrites.audit = <<>>
BY DEF NoWrites

LEMMA NoWritesTyped == NoWrites \in Writes
BY Nothing DEF NoWrites, Writes

\* The three ways a statement of a request ends.
LEMMA OutcomeTyped ==
    ASSUME Now, NEW t \in Txns,
           \/ \E c \in Pcs : Goto(t, c)
           \/ \E a : End(t, a)
           \/ \E c \in Pcs, w \in Writes : Write(t, w, c),
           me' \in [Txns -> Emails \cup {None}],
           tid' \in [Txns -> Tenants \cup {None}],
           own' \in [Txns -> [id : Members \cup {0}, role : Roles \cup {None}]],
           seen' \in [Txns -> AnyRow],
           invites' \in [Txns -> SUBSET Members]
    PROVE  Now'
<1>1. CASE \E c \in Pcs : Goto(t, c)
  BY <1>1 DEF Now, Goto, store
<1>2. CASE \E a : End(t, a)
  <2>1. "end" \in Pcs
    BY DEF Pcs
  <2>2. PICK a : End(t, a)
    BY <1>2
  <2>3. result' = [u \in Txns |-> result'[u]]
    BY <2>2 DEF Now, End
  <2>4. wr' \in [Txns -> Writes] /\ pc' \in [Txns -> Pcs]
    BY <2>1, <2>2, NoWritesTyped DEF Now, End
  <2> QED  BY <2>2, <2>3, <2>4 DEF Now, End, store
<1>3. CASE \E c \in Pcs, w \in Writes : Write(t, w, c)
  BY <1>3 DEF Now, Write, store
<1> QED  BY <1>1, <1>2, <1>3

LEMMA KeepTyped ==
    ASSUME Now, NEW t \in Txns, Keep,
           \/ \E c \in Pcs : Goto(t, c)
           \/ \E a : End(t, a)
           \/ \E c \in Pcs, w \in Writes : Write(t, w, c)
    PROVE  Now'
<1>1. /\ me' \in [Txns -> Emails \cup {None}]
      /\ tid' \in [Txns -> Tenants \cup {None}]
      /\ own' \in [Txns -> [id : Members \cup {0}, role : Roles \cup {None}]]
      /\ seen' \in [Txns -> AnyRow]
      /\ invites' \in [Txns -> SUBSET Members]
  BY DEF Keep, loads, Now
<1> QED  BY <1>1, OutcomeTyped

LEMMA InitTyped == Init => Typed
<1> SUFFICES ASSUME Init PROVE Typed
  OBVIOUS
<1>1. NoRow \in AnyRow /\ NoWrites \in Writes
  BY RowsTyped, NoWritesTyped
<1>2. /\ user \in [Subs -> Emails \cup {None}]
      /\ tenant \in [Tenants -> {"none", "active", "suspended"}]
      /\ member \in [Members -> TenantMember \cup {NoRow}]
      /\ audit \in Seq(Event)
  BY AccountsAssumption DEF Init
<1>3. /\ wr \in [Txns -> Writes] /\ req \in [Txns -> Requests]
      /\ pc \in [Txns -> Pcs] /\ result = [t \in Txns |-> result[t]]
  <2>1. wr \in [Txns -> Writes]
    BY <1>1 DEF Init
  <2>2. "idle" \in Pcs
    BY DEF Pcs
  <2>3. pc \in [Txns -> Pcs] /\ result = [t \in Txns |-> result[t]]
    BY <2>2 DEF Init
  <2> QED  BY <2>1, <2>3 DEF Init
<1>4. /\ me \in [Txns -> Emails \cup {None}]
      /\ tid \in [Txns -> Tenants \cup {None}]
      /\ own \in [Txns -> [id : Members \cup {0}, role : Roles \cup {None}]]
      /\ seen \in [Txns -> AnyRow] /\ invites \in [Txns -> SUBSET Members]
  BY <1>1 DEF Init
<1>5. History
  BY DEF Init, History
<1> QED  BY <1>2, <1>3, <1>4, <1>5 DEF Typed, Now

LEMMA HistoryTyped == ASSUME Typed, Observe PROVE History'
BY DEF Typed, History, Observe, Facts, Running
\* A request names what its handler works on.
LEMMA Asked ==
    ASSUME Now, NEW t \in Txns
    PROVE  /\ req[t] \in Request
           /\ req[t].op \in TenantOps \cup AdminOps \cup {"login", "create", "accept"}
           /\ req[t].by \in Subs
           /\ req[t].op \in {"login", "invite"} => req[t].email \in Emails
           /\ req[t].op \in {"invite", "role"} => req[t].role \in Roles
           /\ req[t].op \in {"remove", "role"} => req[t].target \in Members
           /\ req[t].op \in AdminOps \cup {"create"} => req[t].tenant \in Tenants
<1>1. req[t] \in Requests
  BY DEF Now
<1>2. req[t] \in Request
  BY <1>1, AccountsAssumption
<1>3. req[t].op \in TenantOps \cup AdminOps \cup {"login", "create", "accept"}
      /\ req[t].by \in Subs
  BY <1>2 DEF Request
<1> QED  BY <1>1, <1>2, <1>3, AccountsAssumption

LEMMA UserSteps ==
    ASSUME Now, NEW t \in Txns, ControlOK(t),
           \/ CurrentUser(t) \/ ProvisionUser(t) \/ FindSub(t) \/ FindEmail(t)
           \/ InsertUser(t) \/ Refetch(t) \/ UpdateEmail(t)
    PROVE  Now'
<1> PICK s, e : s = req[t].by /\ e = req[t].email
  OBVIOUS
<1>1. s \in Subs /\ (req[t].op = "login" => e \in Emails) /\ user[s] \in Emails \cup {None}
  BY Asked DEF Now
<1>2. AfterUser(t) \in Pcs
  BY DEF AfterUser, Pcs
<1>3. ASSUME NEW x \in Emails
      PROVE  [wr[t] EXCEPT !.users = Only(s, x)] \in Writes
  <2>1. wr[t] \in Writes /\ Only(s, x) \in Rows(Subs, Emails)
    BY <1>1, OneRow DEF Now
  <2> QED  BY <2>1 DEF Writes
<1>4. TokenEmail[s] \in Emails
  BY <1>1, AccountsAssumption
<1>5. ASSUME NEW x \in Emails \cup {None}, SetMe(t, x),
             (\E c \in Pcs : Goto(t, c)) \/ (\E a : End(t, a))
      PROVE  Now'
  <2>1. /\ me' \in [Txns -> Emails \cup {None}]
        /\ tid' = tid /\ own' = own /\ seen' = seen /\ invites' = invites
    BY <1>5 DEF SetMe, Now
  <2> QED  BY <1>5, <2>1, OutcomeTyped DEF Now
<1>6. CASE CurrentUser(t)
  <2>1. CASE \E a : End(t, a) /\ Keep
    BY <2>1, KeepTyped
  <2>2. CASE Goto(t, AfterUser(t)) /\ SetMe(t, user[s])
    BY <1>1, <1>2, <1>5, <2>2
  <2>3. CASE Goto(t, "provision") /\ SetMe(t, TokenEmail[s])
    <3>1. "provision" \in Pcs
      BY DEF Pcs
    <3> QED  BY <1>4, <1>5, <2>3, <3>1
  <2> QED  BY <1>6, <2>1, <2>2, <2>3 DEF CurrentUser
<1>7. CASE ProvisionUser(t)
  <2>1. Keep /\ me[t] \in Emails
    BY <1>7 DEF ProvisionUser, ControlOK
  <2>2. (\E a : End(t, a)) \/ Write(t, [wr[t] EXCEPT !.users = Only(s, me[t])], AfterUser(t))
    BY <1>7 DEF ProvisionUser
  <2> QED  BY <1>2, <1>3, <2>1, <2>2, KeepTyped
<1>8. CASE FindSub(t)
  <2>1. e \in Emails /\ SetMe(t, e)
    BY <1>1, <1>8 DEF FindSub
  <2>2. "find_email" \in Pcs /\ "update_email" \in Pcs
    BY DEF Pcs
  <2>3. (\E c \in Pcs : Goto(t, c)) \/ (\E a : End(t, a))
    BY <1>8, <2>2 DEF FindSub
  <2> QED  BY <1>5, <2>1, <2>3
<1>9. CASE FindEmail(t) \/ Refetch(t)
  <2>1. "insert_user" \in Pcs
    BY DEF Pcs
  <2>2. (\E c \in Pcs : Goto(t, c)) \/ (\E a : End(t, a))
    BY <1>9, <2>1 DEF FindEmail, Refetch
  <2> QED  BY <1>9, <2>2, KeepTyped DEF FindEmail, Refetch
<1>10. CASE InsertUser(t) \/ UpdateEmail(t)
  <2>1. "refetch" \in Pcs /\ "commit" \in Pcs /\ e \in Emails
    BY <1>1, <1>10 DEF Pcs, InsertUser, UpdateEmail, ControlOK, Fits
  <2>2. \/ Goto(t, "refetch") \/ (\E a : End(t, a))
        \/ Write(t, [wr[t] EXCEPT !.users = Only(s, e)], "commit")
    BY <1>10 DEF InsertUser, UpdateEmail
  <2> QED  BY <1>3, <1>10, <2>1, <2>2, KeepTyped DEF InsertUser, UpdateEmail
<1> QED  BY <1>6, <1>7, <1>8, <1>9, <1>10

LEMMA TenantSteps ==
    ASSUME Now, NEW t \in Txns, Membership(t) \/ CheckTenant(t) \/ RequireRole(t)
    PROVE  Now'
<1>1. "tenant" \in Pcs /\ "role" \in Pcs /\ "invitee" \in Pcs /\ "target" \in Pcs
  BY DEF Pcs
<1>2. CASE Membership(t)
  <2>1. CASE \E a : End(t, a) /\ Keep
    BY <2>1, KeepTyped
  <2>2. ASSUME NEW m \in Members, Memberships(t) = {m}, Goto(t, "tenant"),
               tid' = [tid EXCEPT ![t] = member[m].tenant],
               own' = [own EXCEPT ![t] = [id |-> m, role |-> member[m].role]],
               UNCHANGED <<me, seen, invites>>
        PROVE  Now'
    <3>1. member[m] \in TenantMember \cup {NoRow} /\ member[m].user \in Subs
      BY <2>2, Asked DEF Memberships, Now
    <3>2. member[m].tenant \in Tenants /\ member[m].role \in Roles
      BY <3>1, RowsTyped DEF TenantMember
    <3>3. /\ tid' \in [Txns -> Tenants \cup {None}]
          /\ own' \in [Txns -> [id : Members \cup {0}, role : Roles \cup {None}]]
      BY <2>2, <3>2 DEF Now
    <3> QED  BY <1>1, <2>2, <3>3, OutcomeTyped DEF Now
  <2> QED  BY <1>2, <2>1, <2>2 DEF Membership
<1>3. CASE CheckTenant(t)
  <2>1. (\E c \in Pcs : Goto(t, c)) \/ (\E a : End(t, a))
    BY <1>1, <1>3 DEF CheckTenant
  <2> QED  BY <1>3, <2>1, KeepTyped DEF CheckTenant
<1>4. CASE RequireRole(t)
  <2>1. CASE \E a : End(t, a) /\ Keep
    BY <2>1, KeepTyped
  <2>2. ASSUME NEW m \in Mine(t), NEW role \in LoadedRoles(t, m),
               (\E c \in Pcs : Goto(t, c)) \/ (\E a : End(t, a)),
               own' = [own EXCEPT ![t] = [id |-> m, role |-> role]],
               UNCHANGED <<me, tid, seen, invites>>
        PROVE  Now'
    <3>1. member[m] \in TenantMember \cup {NoRow} /\ m \in Members
      BY DEF Mine, Now
    <3>2. role \in Roles \cup {None}
      BY <3>1 DEF LoadedRoles, TenantMember, NoRow, Now
    <3>3. own' \in [Txns -> [id : Members \cup {0}, role : Roles \cup {None}]]
      BY <2>2, <3>1, <3>2 DEF Now
    <3> QED  BY <2>2, <3>3, OutcomeTyped DEF Now
  <2> QED  BY <1>1, <1>4, <2>1, <2>2 DEF RequireRole
<1> QED  BY <1>2, <1>3, <1>4

LEMMA FreeIsFree ==
    ASSUME FreeMembers # {}
    PROVE  /\ FreeMember \in Members /\ member[FreeMember] = NoRow
           /\ \A u \in Txns : FreeMember \notin DOMAIN wr[u].members
<1>1. FreeMember \in FreeMembers
  BY DEF FreeMember
<1> QED  BY <1>1 DEF FreeMembers

LEMMA WithMembers ==
    ASSUME NEW w \in Writes, NEW f \in Rows(Members, TenantMember)
    PROVE  /\ [w EXCEPT !.members = f] \in Writes
           /\ \A n \in Tenants : [w EXCEPT !.tenants = Only(n, "active"), !.members = f] \in Writes
           /\ \A e \in Event : [w EXCEPT !.members = f, !.audit = <<e>>] \in Writes
<1>1. [w EXCEPT !.members = f] \in Writes
  BY DEF Writes
<1>2. ASSUME NEW n \in Tenants
      PROVE  [w EXCEPT !.tenants = Only(n, "active"), !.members = f] \in Writes
  <2>1. Only(n, "active") \in Rows(Tenants, {"active", "suspended"})
    BY OneRow
  <2> QED  BY <2>1 DEF Writes
<1>3. ASSUME NEW e \in Event
      PROVE  [w EXCEPT !.members = f, !.audit = <<e>>] \in Writes
  BY DEF Writes
<1> QED  BY <1>1, <1>2, <1>3

LEMMA InviteSteps ==
    ASSUME Now, NEW t \in Txns, ControlOK(t), LoadedOK(t),
           FindInvitee(t) \/ CheckPending(t) \/ InsertInvitation(t)
    PROVE  Now'
<1>1. "pending" \in Pcs /\ "insert_member" \in Pcs /\ "commit" \in Pcs
  BY DEF Pcs
<1>2. CASE FindInvitee(t)
  <2>1. CASE \E a : End(t, a) /\ Keep
    BY <2>1, KeepTyped
  <2>2. ASSUME NEW s \in Subs \cup {None}, Goto(t, "pending"),
               Load(t, [NoRow EXCEPT !.user = s])
        PROVE  Now'
    <3>1. [NoRow EXCEPT !.user = s] \in AnyRow
      BY RowsTyped DEF NoRow, AnyRow
    <3>2. seen' \in [Txns -> AnyRow] /\ UNCHANGED <<me, tid, own, invites>>
      BY <2>2, <3>1 DEF Load, Now
    <3> QED  BY <1>1, <2>2, <3>2, OutcomeTyped DEF Now
  <2> QED  BY <1>2, <2>1, <2>2 DEF FindInvitee
<1>3. CASE CheckPending(t)
  <2>1. (\E c \in Pcs : Goto(t, c)) \/ (\E a : End(t, a))
    BY <1>1, <1>3 DEF CheckPending
  <2> QED  BY <1>3, <2>1, KeepTyped DEF CheckPending
<1>4. CASE InsertInvitation(t)
  <2> PICK row : row = [tenant |-> tid[t], user |-> seen[t].user, email |-> req[t].email,
                        role |-> req[t].role, status |-> "invited"]
    OBVIOUS
  <2>1. tid[t] \in Tenants /\ seen[t].user \in Subs \cup {None}
        /\ req[t].email \in Emails /\ req[t].role \in Roles
    BY <1>4, Asked DEF InsertInvitation, ControlOK, Fits, LoadedOK, InTenant, Now, AnyRow
  <2>2. Only(FreeMember, row) \in Rows(Members, TenantMember)
    <3>1. row \in TenantMember
      BY <2>1 DEF TenantMember
    <3>2. FreeMember \in Members
      BY <1>4, FreeIsFree DEF InsertInvitation
    <3> QED  BY <3>1, <3>2, OneRow
  <2>3. [wr[t] EXCEPT !.members = Only(FreeMember, row)] \in Writes
    BY <2>2, WithMembers DEF Now
  <2>4. \/ \E a : End(t, a)
        \/ Write(t, [wr[t] EXCEPT !.members = Only(FreeMember, row)], "commit")
    BY <1>4 DEF InsertInvitation
  <2> QED  BY <1>1, <1>4, <2>3, <2>4, KeepTyped DEF InsertInvitation
<1> QED  BY <1>2, <1>3, <1>4

\* The rows remove_member and update_member_role may load.
Targets(t) ==
    LET m == req[t].target IN
    {[member[m] EXCEPT !.role = role] : role \in LoadedRoles(t, m)}

LEMMA TargetTyped ==
    ASSUME Now, NEW t \in Txns, ControlOK(t), LoadedOK(t), pc[t] = "target",
           NEW row \in Targets(t)
    PROVE  /\ req[t].target \in Members
           /\ row \in AnyRow /\ row.tenant = member[req[t].target].tenant
           /\ row.status = member[req[t].target].status
           /\ tid[t] \in Tenants
           /\ ~stale[t] => row.role = member[req[t].target].role
<1>1. /\ req[t].target \in Members /\ req[t].op \in {"remove", "role"}
      /\ own[t].id \in Members /\ own[t].role \in Roles /\ tid[t] \in Tenants
      /\ ~stale[t] => own[t].role = member[own[t].id].role
  BY Asked DEF ControlOK, Fits, LoadedOK, InTenant
<1>2. member[req[t].target] \in AnyRow
  BY <1>1, RowsTyped DEF Now
<1> QED  BY <1>1, <1>2 DEF Targets, LoadedRoles, AnyRow

LEMMA TargetSteps ==
    ASSUME Now, NEW t \in Txns, ControlOK(t), LoadedOK(t),
           LoadTarget(t) \/ CountOwners(t) \/ WriteTarget(t), began[t] \in Nat
    PROVE  Now'
<1>1. "count" \in Pcs /\ "write" \in Pcs /\ "commit" \in Pcs
  BY DEF Pcs
<1>2. CASE LoadTarget(t)
  <2>1. \A row \in Targets(t) : row \in AnyRow
    BY <1>2, TargetTyped DEF LoadTarget
  <2>2. CASE \E a : End(t, a) /\ Keep
    BY <2>2, KeepTyped
  <2>3. ASSUME NEW c \in Pcs, Goto(t, c), NEW row \in Targets(t), Load(t, row) PROVE Now'
    <3>1. seen' \in [Txns -> AnyRow] /\ UNCHANGED <<me, tid, own, invites>>
      BY <2>1, <2>3 DEF Load, Now
    <3> QED  BY <2>3, <3>1, OutcomeTyped DEF Now
  <2>4. \/ \E a : End(t, a) /\ Keep
        \/ \E c \in Pcs : Goto(t, c) /\ \E row \in Targets(t) : Load(t, row)
    BY <1>1, <1>2 DEF LoadTarget, Targets
  <2> QED  BY <2>2, <2>3, <2>4
<1>3. CASE CountOwners(t)
  <2>1. (\E c \in Pcs : Goto(t, c)) \/ (\E a : End(t, a))
    BY <1>1, <1>3 DEF CountOwners
  <2> QED  BY <1>3, <2>1, KeepTyped DEF CountOwners
<1>4. CASE WriteTarget(t)
  <2> PICK m : m = req[t].target
    OBVIOUS
  <2>1. /\ m \in Members /\ member[m] \in TenantMember
        /\ req[t].op # "remove" => req[t].role \in Roles /\ req[t].op = "role"
    BY <1>4, Asked DEF WriteTarget, ControlOK, Fits, LoadedOK, AtTarget, Now
  <2>2. CASE \E a : End(t, a)
    BY <1>4, <2>2, KeepTyped DEF WriteTarget
  <2>3. CASE /\ req[t].op = "remove"
             /\ Write(t, [wr[t] EXCEPT !.members =
                             Only(m, [member[m] EXCEPT !.status = "removed"])], "commit")
    <3>1. [member[m] EXCEPT !.status = "removed"] \in TenantMember
      BY <2>1 DEF TenantMember
    <3>2. Only(m, [member[m] EXCEPT !.status = "removed"]) \in Rows(Members, TenantMember)
      BY <2>1, <3>1, OneRow
    <3>3. [wr[t] EXCEPT !.members = Only(m, [member[m] EXCEPT !.status = "removed"])] \in Writes
      BY <3>2, WithMembers DEF Now
    <3> QED  BY <1>1, <1>4, <2>3, <3>3, KeepTyped DEF WriteTarget
  <2>4. CASE /\ req[t].op # "remove"
             /\ Write(t, [wr[t] EXCEPT !.members =
                             Only(m, [member[m] EXCEPT !.role = req[t].role]),
                           !.audit = <<RoleEvent(t)>>], "commit")
    <3>1. [member[m] EXCEPT !.role = req[t].role] \in TenantMember
      BY <2>1, <2>4 DEF TenantMember
    <3>2. Only(m, [member[m] EXCEPT !.role = req[t].role]) \in Rows(Members, TenantMember)
      BY <2>1, <3>1, OneRow
    <3>3. RoleEvent(t) \in Event
      BY <2>1, <2>4 DEF RoleEvent, Event
    <3>4. [wr[t] EXCEPT !.members = Only(m, [member[m] EXCEPT !.role = req[t].role]),
                        !.audit = <<RoleEvent(t)>>] \in Writes
      BY <3>2, <3>3, WithMembers DEF Now
    <3> QED  BY <1>1, <1>4, <2>4, <3>4, KeepTyped DEF WriteTarget
  <2> QED  BY <1>4, <2>2, <2>3, <2>4 DEF WriteTarget
<1> QED  BY <1>2, <1>3, <1>4

LEMMA CreateSteps == ASSUME Now, NEW t \in Txns, ControlOK(t), CreateTenant(t) PROVE Now'
<1> PICK n, row :
       /\ n = req[t].tenant
       /\ row = [tenant |-> n, user |-> req[t].by, email |-> None,
                 role |-> "owner", status |-> "active"]
  OBVIOUS
<1>1. n \in Tenants /\ req[t].by \in Subs
  BY Asked DEF CreateTenant, ControlOK, Fits
<1>2. Only(FreeMember, row) \in Rows(Members, TenantMember)
  <2>1. row \in TenantMember
    BY <1>1 DEF TenantMember, Roles
  <2>2. FreeMember \in Members
    BY FreeIsFree DEF CreateTenant
  <2> QED  BY <2>1, <2>2, OneRow
<1>3. [wr[t] EXCEPT !.tenants = Only(n, "active"), !.members = Only(FreeMember, row)] \in Writes
  BY <1>1, <1>2, WithMembers DEF Now
<1>4. "commit" \in Pcs
  BY DEF Pcs
<1>5. \/ \E a : End(t, a)
      \/ Write(t, [wr[t] EXCEPT !.tenants = Only(n, "active"),
                                !.members = Only(FreeMember, row)], "commit")
  BY DEF CreateTenant
<1> QED  BY <1>3, <1>4, <1>5, KeepTyped DEF CreateTenant

\* What accept_invite writes to the invitations of V.
Accepted(t, V) ==
    [m \in V |-> [member[m] EXCEPT !.user = req[t].by, !.status = "active"]]

LEMMA AcceptSteps ==
    ASSUME Now, NEW t \in Txns, LoadedOK(t), LoadInvitations(t) \/ AcceptInvitations(t)
    PROVE  Now'
<1>1. "accept" \in Pcs /\ "commit" \in Pcs
  BY DEF Pcs
<1>2. CASE LoadInvitations(t)
  <2>1. CASE \E a : End(t, a) /\ Keep
    BY <2>1, KeepTyped
  <2>2. ASSUME NEW last \in Invitations(me[t]), Goto(t, "accept"),
               tid' = [tid EXCEPT ![t] = member[last].tenant],
               invites' = [invites EXCEPT ![t] = Invitations(me[t])],
               UNCHANGED <<me, own, seen>>
        PROVE  Now'
    <3>1. Invitations(me[t]) \in SUBSET Members /\ last \in Members
      BY DEF Invitations
    <3>2. member[last].tenant \in Tenants \cup {None}
      BY <3>1 DEF Now, TenantMember, NoRow
    <3>3. tid' \in [Txns -> Tenants \cup {None}] /\ invites' \in [Txns -> SUBSET Members]
      BY <2>2, <3>1, <3>2 DEF Now
    <3> QED  BY <1>1, <2>2, <3>3, OutcomeTyped DEF Now
  <2> QED  BY <1>2, <2>1, <2>2 DEF LoadInvitations
<1>3. CASE AcceptInvitations(t)
  <2> PICK V : V = {m \in invites[t] : FlushesBeforeText \/ member[m].tenant = tid[t]}
    OBVIOUS
  <2>1. V \in SUBSET Members /\ req[t].by \in Subs
    BY Asked DEF Now
  <2>2. \A m \in V : member[m] \in TenantMember
    BY <1>3, <2>1 DEF AcceptInvitations, LoadedOK, Now
  <2>3. Accepted(t, V) \in Rows(Members, TenantMember)
    <3>1. \A m \in V : [member[m] EXCEPT !.user = req[t].by, !.status = "active"] \in TenantMember
      BY <2>1, <2>2 DEF TenantMember
    <3>2. Accepted(t, V) \in [V -> TenantMember]
      BY <3>1 DEF Accepted
    <3> QED  BY <2>1, <3>2 DEF Rows
  <2>4. [wr[t] EXCEPT !.members = Accepted(t, V)] \in Writes
    BY <2>3, WithMembers DEF Now
  <2>5. \/ \E a : End(t, a)
        \/ Write(t, [wr[t] EXCEPT !.members = Accepted(t, V)], "commit")
    BY <1>3 DEF AcceptInvitations, Accepted
  <2> QED  BY <1>1, <1>3, <2>4, <2>5, KeepTyped DEF AcceptInvitations
<1> QED  BY <1>2, <1>3

LEMMA AdminSteps ==
    ASSUME Now, NEW t \in Txns, ControlOK(t), LoadTenant(t) \/ WriteTenant(t), began[t] \in Nat
    PROVE  Now'
<1>1. "write_tenant" \in Pcs /\ "commit" \in Pcs
  BY DEF Pcs
<1>2. CASE LoadTenant(t)
  <2>1. (\E c \in Pcs : Goto(t, c)) \/ (\E a : End(t, a))
    BY <1>1, <1>2 DEF LoadTenant
  <2> QED  BY <1>2, <2>1, KeepTyped DEF LoadTenant
<1>3. CASE WriteTenant(t)
  <2> PICK n, to : n = req[t].tenant
                   /\ to = IF req[t].op = "suspend" THEN "suspended" ELSE "active"
    OBVIOUS
  <2>1. n \in Tenants /\ to \in {"active", "suspended"}
    BY <1>3, Asked DEF WriteTenant, ControlOK, Fits
  <2>2. [wr[t] EXCEPT !.tenants = Only(n, to),
                      !.audit = <<[entity |-> n, to |-> to, at |-> began[t]]>>] \in Writes
    <3>1. Only(n, to) \in Rows(Tenants, {"active", "suspended"})
      BY <2>1, OneRow
    <3>2. [entity |-> n, to |-> to, at |-> began[t]] \in Event
      BY <2>1 DEF Event
    <3>3. wr[t] \in Writes
      BY DEF Now
    <3> QED  BY <3>1, <3>2, <3>3 DEF Writes
  <2>3. Write(t, [wr[t] EXCEPT !.tenants = Only(n, to),
                               !.audit = <<[entity |-> n, to |-> to, at |-> began[t]]>>],
                    "commit")
    BY <1>3 DEF WriteTenant
  <2> QED  BY <1>1, <1>3, <2>2, <2>3, KeepTyped DEF WriteTenant
<1> QED  BY <1>2, <1>3

LEMMA CommitSteps == ASSUME Now, NEW t \in Txns, Commit(t) PROVE Now'
<1>1. wr[t] \in Writes
  BY DEF Now
<1>2. user' \in [Subs -> Emails \cup {None}]
  BY <1>1, WritesAre DEF Commit, Now, Merge
<1>3. tenant' \in [Tenants -> {"none", "active", "suspended"}]
  BY <1>1, WritesAre DEF Commit, Now, Merge
<1>4. member' \in [Members -> TenantMember \cup {NoRow}]
  BY <1>1, WritesAre DEF Commit, Now, Merge
<1>5. audit' \in Seq(Event)
  <2>1. CASE wr[t].audit = <<>>
    BY <2>1 DEF Commit, Now
  <2>2. ASSUME NEW e \in Event, wr[t].audit = <<e>> PROVE audit' \in Seq(Event)
    <3>1. <<e>> \in Seq(Event)
      OBVIOUS
    <3> QED  BY <2>2, <3>1 DEF Commit, Now
  <2> QED  BY <1>1, <2>1, <2>2, WritesAre
<1>6. wr' \in [Txns -> Writes] /\ pc' \in [Txns -> Pcs] /\ result' = [u \in Txns |-> result'[u]]
  <2>1. "end" \in Pcs
    BY DEF Pcs
  <2> QED  BY <2>1, NoWritesTyped DEF Commit, Now
<1> QED  BY <1>2, <1>3, <1>4, <1>5, <1>6 DEF Commit, Keep, loads, Now

LEMMA StepTyped ==
    ASSUME Typed, NEW t \in Txns, TxnOK(t), Step(t), Observe
    PROVE  Typed'
<1> SUFFICES Now'
  BY HistoryTyped DEF Typed
<1>1. Now /\ ControlOK(t) /\ LoadedOK(t) /\ began[t] \in Nat
  BY DEF Typed, TxnOK, History
<1>2. CASE Crash(t)
  <2>1. (\E a : End(t, a)) /\ Keep
    BY <1>2 DEF Crash
  <2> QED  BY <1>1, <2>1, KeepTyped
<1>3. CASE \/ CurrentUser(t) \/ ProvisionUser(t) \/ FindSub(t) \/ FindEmail(t)
           \/ InsertUser(t) \/ Refetch(t) \/ UpdateEmail(t)
  BY <1>1, <1>3, UserSteps
<1>4. CASE Membership(t) \/ CheckTenant(t) \/ RequireRole(t)
  BY <1>1, <1>4, TenantSteps
<1>5. CASE FindInvitee(t) \/ CheckPending(t) \/ InsertInvitation(t)
  BY <1>1, <1>5, InviteSteps
<1>6. CASE LoadTarget(t) \/ CountOwners(t) \/ WriteTarget(t)
  BY <1>1, <1>6, TargetSteps
<1>7. CASE CreateTenant(t) \/ LoadInvitations(t) \/ AcceptInvitations(t)
  BY <1>1, <1>7, CreateSteps, AcceptSteps
<1>8. CASE LoadTenant(t) \/ WriteTenant(t) \/ Commit(t)
  BY <1>1, <1>8, AdminSteps, CommitSteps
<1> QED  BY <1>2, <1>3, <1>4, <1>5, <1>6, <1>7, <1>8 DEF Step

-----------------------------------------------------------------------------
\* A step of t is about t.
LEMMA Frame ==
    ASSUME Typed, NEW t \in Txns, Step(t)
    PROVE  /\ req' = req
           /\ \A u \in Txns \ {t} :
                 /\ pc'[u] = pc[u] /\ wr'[u] = wr[u] /\ result'[u] = result[u]
                 /\ me'[u] = me[u] /\ tid'[u] = tid[u] /\ own'[u] = own[u]
                 /\ seen'[u] = seen[u] /\ invites'[u] = invites[u]
           /\ Commit(t) \/ UNCHANGED <<user, tenant, member, audit>>
<1>1. ASSUME \/ \E c : Goto(t, c)
             \/ \E a : End(t, a)
             \/ \E w, c : Write(t, w, c)
      PROVE  /\ req' = req /\ UNCHANGED <<user, tenant, member, audit>>
             /\ \A u \in Txns \ {t} :
                   pc'[u] = pc[u] /\ wr'[u] = wr[u] /\ result'[u] = result[u]
  <2>1. CASE \E c : Goto(t, c)
    BY <2>1 DEF Goto, store, Typed, Now
  <2>2. CASE \E a : End(t, a)
    BY <2>2 DEF End, store, Typed, Now
  <2>3. CASE \E w, c : Write(t, w, c)
    BY <2>3 DEF Write, store, Typed, Now
  <2> QED  BY <1>1, <2>1, <2>2, <2>3
<1>2. CASE Commit(t)
  BY <1>2 DEF Commit, Keep, loads, Typed, Now
<1>3. CASE ~Commit(t)
  <2>1. \/ \E c : Goto(t, c)
        \/ \E a : End(t, a)
        \/ \E w, c : Write(t, w, c)
    BY <1>3 DEF Step, CurrentUser, ProvisionUser, FindSub, FindEmail, InsertUser, Refetch,
       UpdateEmail, Membership, CheckTenant, RequireRole, FindInvitee, CheckPending,
       InsertInvitation, LoadTarget, CountOwners, WriteTarget, CreateTenant,
       LoadInvitations, AcceptInvitations, LoadTenant, WriteTenant, Crash
  <2>2. \A u \in Txns \ {t} :
           /\ me'[u] = me[u] /\ tid'[u] = tid[u] /\ own'[u] = own[u]
           /\ seen'[u] = seen[u] /\ invites'[u] = invites[u]
    BY <1>3 DEF Step, CurrentUser, ProvisionUser, FindSub, FindEmail, InsertUser, Refetch,
       UpdateEmail, Membership, CheckTenant, RequireRole, FindInvitee, CheckPending,
       InsertInvitation, LoadTarget, CountOwners, WriteTarget, CreateTenant,
       LoadInvitations, AcceptInvitations, LoadTenant, WriteTenant, Crash,
       Keep, loads, Load, SetMe, Typed, Now
  <2> QED  BY <1>1, <2>1, <2>2
<1> QED  BY <1>2, <1>3

LEMMA Observed ==
    ASSUME Typed, Observe, NEW u \in Txns
    PROVE  /\ entitled[u] \subseteq entitled'[u]
           /\ Running(u) \/ Running(u)' => Facts(u) \subseteq entitled'[u]
           /\ stale[u] => stale'[u]
           /\ stale'[u] => stale[u] \/ (Running(u) /\ Running(u)' /\ member' # member)
           /\ Running(u) /\ Running(u)' /\ member' # member => stale'[u]
BY DEF Observe, Typed, History

\* What a commit does to the tables.
LEMMA CommitTables ==
    ASSUME Inv, NEW t \in Txns, Commit(t)
    PROVE  /\ \A m \in DOMAIN wr[t].members :
                 /\ m \in Members /\ member'[m] = wr[t].members[m]
                 /\ wr[t].members[m] \in TenantMember /\ RowOK(t, m)
           /\ \A m \in Members \ DOMAIN wr[t].members : member'[m] = member[m]
           /\ \A m \in Members : member[m] # NoRow =>
                 member'[m] # NoRow /\ member'[m].tenant = member[m].tenant
           /\ \A n \in DOMAIN wr[t].tenants :
                 n \in Tenants /\ tenant'[n] = wr[t].tenants[n] /\ tenant'[n] # "none"
           /\ \A n \in Tenants \ DOMAIN wr[t].tenants : tenant'[n] = tenant[n]
           /\ \A s \in Subs : user[s] # None => user'[s] # None
<1>1. wr[t] \in Writes /\ WritesOK(t)
  BY DEF Inv, Typed, Now, TxnOK
<1>2. /\ DOMAIN user = Subs /\ DOMAIN tenant = Tenants /\ DOMAIN member = Members
      /\ user' = Merge(wr[t].users, user)
      /\ tenant' = Merge(wr[t].tenants, tenant)
      /\ member' = Merge(wr[t].members, member)
  BY DEF Commit, Inv, Typed, Now
<1>3. \A m \in DOMAIN wr[t].members :
         /\ m \in Members /\ member'[m] = wr[t].members[m]
         /\ wr[t].members[m] \in TenantMember /\ RowOK(t, m)
  BY <1>1, <1>2, WritesAre DEF Merge, WritesOK
<1>4. \A m \in Members \ DOMAIN wr[t].members : member'[m] = member[m]
  BY <1>2 DEF Merge
<1>5. \A m \in Members : member[m] # NoRow =>
         member'[m] # NoRow /\ member'[m].tenant = member[m].tenant
  <2> TAKE m \in Members
  <2>1. CASE m \in DOMAIN wr[t].members
    <3>1. member'[m] \in TenantMember
      BY <1>3, <2>1
    <3>2. member[m] # NoRow => member'[m].tenant = member[m].tenant
      BY <1>3, <2>1 DEF RowOK
    <3> QED  BY <3>1, <3>2, RowsTyped
  <2>2. CASE m \notin DOMAIN wr[t].members
    BY <1>4, <2>2
  <2> QED  BY <2>1, <2>2
<1>6. \A n \in DOMAIN wr[t].tenants :
         n \in Tenants /\ tenant'[n] = wr[t].tenants[n] /\ tenant'[n] # "none"
  BY <1>1, <1>2, WritesAre DEF Merge
<1>7. \A n \in Tenants \ DOMAIN wr[t].tenants : tenant'[n] = tenant[n]
  BY <1>2 DEF Merge
<1>8. \A s \in Subs : user[s] # None => user'[s] # None
  BY <1>1, <1>2, WritesAre, AccountsAssumption DEF Merge
<1> QED  BY <1>3, <1>4, <1>5, <1>6, <1>7, <1>8

\* The others stay where they are, whatever t does.
LEMMA OthersOK ==
    ASSUME Inv, NEW t \in Txns, Step(t), Observe, NEW u \in Txns \ {t}
    PROVE  TxnOK(u)'
<1>1. /\ req' = req
      /\ pc'[u] = pc[u] /\ wr'[u] = wr[u] /\ result'[u] = result[u]
      /\ me'[u] = me[u] /\ tid'[u] = tid[u] /\ own'[u] = own[u]
      /\ seen'[u] = seen[u] /\ invites'[u] = invites[u]
  BY Frame DEF Inv
<1>2. /\ entitled[u] \subseteq entitled'[u]
      /\ Running(u) /\ ~stale'[u] => member' = member
      /\ stale[u] => stale'[u]
      /\ ~Running(u) => stale'[u] = stale[u]
  <2>1. Running(u)' <=> Running(u)
    BY <1>1 DEF Running
  <2>2. stale[u] \in BOOLEAN /\ stale'[u] \in BOOLEAN
    BY HistoryTyped DEF Inv, Typed, History
  <2> QED  BY <2>1, <2>2, Observed DEF Inv
<1>3. TxnOK(u)
  BY DEF Inv
<1>4. /\ \A m \in Members : member[m] # NoRow =>
            member'[m] # NoRow /\ member'[m].tenant = member[m].tenant
      /\ \A n \in Tenants : tenant[n] # "none" => tenant'[n] # "none"
      /\ \A s \in Subs : user[s] # None => user'[s] # None
      /\ \A m \in DOMAIN wr[u].members : m \in Members /\ member'[m] = member[m]
      /\ \A n \in DOMAIN wr[u].tenants : n \in Tenants /\ tenant'[n] = tenant[n]
  <2>1. /\ DOMAIN wr[u].members \subseteq Members /\ DOMAIN wr[u].tenants \subseteq Tenants
    BY WritesAre DEF Inv, Typed, Now
  <2>2. CASE Commit(t)
    <3>1. /\ DOMAIN wr[u].members \cap DOMAIN wr[t].members = {}
          /\ DOMAIN wr[u].tenants \cap DOMAIN wr[t].tenants = {}
      BY DEF Inv, LocksOK, Alone
    <3> QED  BY <2>1, <2>2, <3>1, CommitTables
  <2>3. CASE UNCHANGED <<user, tenant, member, audit>>
    BY <2>1, <2>3
  <2> QED  BY <2>2, <2>3, Frame DEF Inv
<1>5. /\ req[u].by \in Subs
      /\ req[u].op \in {"remove", "role"} => req[u].target \in Members
      /\ req[u].op \in AdminOps \cup {"create"} => req[u].tenant \in Tenants
      /\ invites[u] \in SUBSET Members
  BY Asked DEF Inv, Typed, Now
<1>6. ControlOK(u)'
  BY <1>1, <1>3 DEF TxnOK, ControlOK
<1>7. WritesOK(u)'
  <2>1. \A m \in DOMAIN wr[u].members : RowOK(u, m)'
    BY <1>1, <1>3, <1>4 DEF TxnOK, WritesOK, RowOK
  <2>2. \A n \in DOMAIN wr[u].tenants : TenantRowOK(u, n)'
    BY <1>1, <1>3, <1>4 DEF TxnOK, WritesOK, TenantRowOK, OwnerRow
  <2>3. \A e \in Event : wr[u].audit = <<e>> => EventOK(u, e)'
    BY <1>1, <1>3, <1>4 DEF TxnOK, WritesOK, EventOK
  <2> QED  BY <1>1, <1>3, <2>1, <2>2, <2>3 DEF TxnOK, WritesOK
<1>8. LoadedOK(u)'
  <2>1. /\ pc[u] \in {"tenant", "role"} \/ InTenant(u) => tid[u] \in Tenants
        /\ pc[u] \in {"tenant", "role"} => req[u].tenant \in {None, tid[u]}
        /\ pc[u] \in {"tenant", "role", "target"} =>
              /\ own[u].id \in Members /\ own[u].role \in Roles
              /\ member'[own[u].id] # NoRow
        /\ AtTarget(u) => /\ member'[req[u].target] # NoRow
                          /\ member'[req[u].target].tenant = tid[u]
        /\ pc[u] = "accept" => \A m \in invites[u] : member'[m] # NoRow
        /\ pc[u] = "write_tenant" => tenant'[req[u].tenant] # "none"
    BY <1>3, <1>4, <1>5 DEF TxnOK, LoadedOK, AtTarget, ControlOK, Fits
  <2>2. ASSUME Running(u), ~stale'[u]
        PROVE  /\ pc[u] \in {"tenant", "role", "target"} => own[u].role = member'[own[u].id].role
               /\ AtTarget(u) /\ pc[u] # "count" => Spared(u)'
               /\ Accepting(u) => \A m \in invites[u] : member'[m].status = "invited"
               /\ pc[u] \in {"pending", "insert_member"} /\ seen[u].user # None =>
                     \A m \in Members : member'[m].tenant = tid[u] /\ member'[m].user = seen[u].user
                        => member'[m].status = "removed"
    <3>1. member' = member /\ ~stale[u]
      BY <1>2, <2>2
    <3> QED  BY <1>1, <1>3, <3>1 DEF TxnOK, LoadedOK, Spared, ActiveOwners
  <2>3. /\ pc[u] \in {"tenant", "role", "target", "pending", "insert_member"} => Running(u)
        /\ AtTarget(u) \/ Accepting(u) => Running(u)
    BY DEF AtTarget, Accepting, Running
  <2> QED  BY <1>1, <2>1, <2>2, <2>3 DEF LoadedOK, InTenant, AtTarget, Accepting
<1>9. EntitledOK(u)'
  <2>1. user[req[u].by] # None => user'[req[u].by] # None
    BY <1>4, <1>5
  <2>2. Unique(u)' => Unique(u)
    BY <1>1, <1>2 DEF Unique
  <2> QED  BY <1>1, <1>2, <1>3, <2>1, <2>2 DEF TxnOK, EntitledOK, InTenant, Suffices, Unique
<1> QED  BY <1>6, <1>7, <1>8, <1>9 DEF TxnOK

-----------------------------------------------------------------------------
\* The rows t has written after its step are nobody else's.
Apart(t) ==
    \A u \in Txns \ {t} :
        /\ DOMAIN wr'[t].members \cap DOMAIN wr[u].members = {}
        /\ DOMAIN wr'[t].tenants \cap DOMAIN wr[u].tenants = {}

\* What the history says of t after a step that ends it.
Known(t) == entitled[t] \cup {f \in Facts(t) : Running(t)}

\* What t itself is left with. First, the answers that leave nothing.
LEMMA EndOK ==
    ASSUME Inv, NEW t \in Txns, Observe, NEW a, End(t, a),
           \/ a # "ok" \/ req[t].op \notin TenantOps
           \/ {"role", "tenant"} \subseteq Known(t),
           pc[t] # "end",
           a = "409 index" => "clash" \in Known(t),
           a = "500 unique" /\ req[t].op = "invite" /\ ~stale[t]
              => "removed" \in Known(t)
    PROVE  TxnOK(t)' /\ Apart(t)
<1>1. /\ req' = req /\ pc'[t] = "end" /\ wr'[t] = NoWrites /\ result'[t] = a
  BY DEF End, store, Inv, Typed, Now
<1>2. Known(t) \subseteq entitled'[t] /\ (stale[t] => stale'[t])
  BY Observed DEF Inv, Known
<1>3. ControlOK(t)'
  BY <1>1 DEF ControlOK, Fits
<1>4. WritesOK(t)'
  <2>1. wr'[t].tenants = <<>> /\ wr'[t].members = <<>> /\ wr'[t].audit = <<>>
    BY <1>1, NoWritesAre
  <2> QED  BY <2>1, Nothing DEF WritesOK
<1>5. LoadedOK(t)'
  BY <1>1 DEF LoadedOK, InTenant, AtTarget, Accepting
<1>6. EntitledOK(t)'
  BY <1>1, <1>2 DEF EntitledOK, InTenant, Unique
<1>7. Apart(t)
  BY <1>1, NoWritesAre, Nothing DEF Apart
<1> QED  BY <1>3, <1>4, <1>5, <1>6, <1>7 DEF TxnOK

\* The steps that write nothing.
LEMMA GotoOK ==
    ASSUME Inv, NEW t \in Txns, Observe, NEW c, Goto(t, c),
           pc[t] \notin {"commit", "end"}, c \notin {"commit", "end", "idle"},
           Fits(c, req[t].op), c = "provision" => me'[t] \in Emails,
           LoadedOK(t)',
           c \in {"tenant", "role"} /\ Suffices(t)' => "role" \in entitled[t] \cup Facts(t),
           c = "role" => "tenant" \in entitled[t] \cup Facts(t),
           c \in {"invitee", "pending", "insert_member", "target", "count", "write"} =>
              {"role", "tenant"} \subseteq entitled[t] \cup Facts(t),
           c = "refetch" => user[req[t].by] # None \/ "clash" \in entitled[t] \cup Facts(t)
    PROVE  TxnOK(t)' /\ Apart(t)
<1>1. /\ req' = req /\ pc'[t] = c /\ wr' = wr /\ result' = result /\ UNCHANGED store
  BY DEF Goto, Inv, Typed, Now
<1>2. entitled[t] \cup Facts(t) \subseteq entitled'[t]
  <2>1. Running(t) \/ Running(t)'
    BY <1>1 DEF Running
  <2> QED  BY <2>1, Observed DEF Inv
<1>3. ControlOK(t) /\ WritesOK(t)
  BY DEF Inv, TxnOK
<1>4. ControlOK(t)'
  BY <1>1, <1>3 DEF ControlOK, Fits
<1>5. WritesOK(t)'
  <2>1. wr'[t].tenants = <<>> /\ wr'[t].members = <<>> /\ wr'[t].audit = <<>>
    BY <1>1, <1>3 DEF WritesOK
  <2> QED  BY <2>1, Nothing DEF WritesOK
<1>6. EntitledOK(t)'
  BY <1>1, <1>2, <1>3 DEF EntitledOK, InTenant, Unique, ControlOK, store
<1>7. Apart(t)
  BY <1>1, <1>3, Nothing DEF Apart, WritesOK
<1> QED  BY <1>4, <1>5, <1>6, <1>7 DEF TxnOK

\* The steps of handlers that load nothing of a tenant.
LEMMA LoadsNothing ==
    ASSUME NEW t \in Txns,
           pc'[t] \in {"idle", "provision", "find_email", "insert_user", "update_email",
                       "refetch", "membership", "insert_tenant", "load_invites", "load_tenant"}
    PROVE  LoadedOK(t)'
BY DEF LoadedOK, InTenant, AtTarget, Accepting

LEMMA AfterUserOK ==
    ASSUME Inv, NEW t \in Txns, req[t].op # "login"
    PROVE  /\ AfterUser(t) \in {"membership", "insert_tenant", "load_invites", "load_tenant"}
           /\ Fits(AfterUser(t), req[t].op)
BY Asked DEF Inv, Typed, AfterUser, Fits, TenantOps, ManageOps, AdminOps

\* The row of the caller.
LEMMA WriteUserOK ==
    ASSUME Inv, NEW t \in Txns, Observe, NEW f, NEW c,
           Write(t, [wr[t] EXCEPT !.users = f], c), UNCHANGED loads,
           pc[t] \notin {"idle", "commit", "end"},
           \/ c = "commit" /\ req[t].op = "login"
           \/ /\ c \in {"membership", "insert_tenant", "load_invites", "load_tenant"}
              /\ Fits(c, req[t].op)
    PROVE  TxnOK(t)' /\ Apart(t)
<1>1. /\ req' = req /\ pc'[t] = c /\ result' = result
      /\ wr'[t].tenants = <<>> /\ wr'[t].members = <<>> /\ wr'[t].audit = <<>>
  <2>1. wr[t].tenants = <<>> /\ wr[t].members = <<>> /\ wr[t].audit = <<>>
    BY DEF Inv, TxnOK, WritesOK
  <2>2. req' = req /\ pc'[t] = c /\ result' = result /\ wr'[t] = [wr[t] EXCEPT !.users = f]
    BY DEF Write, Inv, Typed, Now
  <2>3. wr[t] \in Writes
    BY DEF Inv, Typed, Now
  <2> QED  BY <2>1, <2>2, <2>3 DEF Writes
<1>2. ControlOK(t)'
  BY <1>1 DEF ControlOK, Fits, Inv, TxnOK
<1>3. WritesOK(t)' /\ Apart(t)
  BY <1>1, Nothing DEF WritesOK, Apart
<1>4. req[t].op = "login" => req[t].op \notin TenantOps
  BY DEF TenantOps, ManageOps
<1>5. LoadedOK(t)'
  BY <1>1, <1>4 DEF LoadedOK, InTenant, AtTarget, Accepting
<1>6. EntitledOK(t)'
  BY <1>1, <1>4 DEF EntitledOK, InTenant, Unique, Inv, TxnOK, ControlOK
<1> QED  BY <1>2, <1>3, <1>5, <1>6 DEF TxnOK

LEMMA UserOK ==
    ASSUME Inv, NEW t \in Txns, Observe,
           \/ CurrentUser(t) \/ ProvisionUser(t) \/ FindSub(t) \/ FindEmail(t)
           \/ InsertUser(t) \/ Refetch(t) \/ UpdateEmail(t)
    PROVE  TxnOK(t)' /\ Apart(t)
<1> PICK s, e : s = req[t].by /\ e = req[t].email
  OBVIOUS
<1>1. /\ s \in Subs /\ (req[t].op = "login" => e \in Emails /\ req[t].op \notin TenantOps)
      /\ TokenEmail[s] \in Emails
      /\ ControlOK(t) /\ EntitledOK(t)
  BY Asked, AccountsAssumption DEF Inv, Typed, TxnOK, TenantOps, ManageOps
<1>2. EmailTaken(s, e) => "clash" \in Facts(t)
  BY DEF Facts
<1>3. ASSUME NEW c, Goto(t, c), pc[t] \notin {"commit", "end"},
             c \in {"find_email", "insert_user", "update_email", "refetch"},
             req[t].op = "login",
             c = "refetch" => user[s] # None \/ "clash" \in Known(t)
      PROVE  TxnOK(t)' /\ Apart(t)
  <2>1. pc'[t] = c
    BY <1>3 DEF Goto, Inv, Typed, Now
  <2>2. LoadedOK(t)'
    BY <1>3, <2>1, LoadsNothing
  <2> QED  BY <1>3, <2>2, GotoOK DEF Fits, Known
<1>4. CASE CurrentUser(t)
  <2>1. pc[t] = "idle" /\ req[t].op # "login"
    BY <1>4 DEF CurrentUser
  <2>2. CASE End(t, "403")
    BY <2>1, <2>2, EndOK
  <2>3. CASE Goto(t, AfterUser(t))
    <3>1. pc'[t] = AfterUser(t)
      BY <2>3 DEF Goto, Inv, Typed, Now
    <3>2. LoadedOK(t)'
      BY <2>1, <3>1, AfterUserOK, LoadsNothing
    <3> QED  BY <2>1, <2>3, <3>2, AfterUserOK, GotoOK
  <2>4. CASE Goto(t, "provision") /\ SetMe(t, TokenEmail[s])
    <3>1. pc'[t] = "provision" /\ me'[t] \in Emails
      BY <1>1, <2>4 DEF Goto, SetMe, Inv, Typed, Now
    <3>2. LoadedOK(t)'
      BY <3>1, LoadsNothing
    <3>3. Fits("provision", req[t].op)
      BY <2>1 DEF Fits
    <3> QED  BY <2>1, <2>4, <3>1, <3>2, <3>3, GotoOK
  <2> QED  BY <1>4, <2>2, <2>3, <2>4 DEF CurrentUser
<1>5. CASE ProvisionUser(t)
  <2>1. pc[t] = "provision" /\ UNCHANGED loads
    BY <1>5 DEF ProvisionUser, Keep
  <2>2. req[t].op # "login"
    BY <1>1, <2>1 DEF ControlOK, Fits
  <2>3. CASE End(t, "500 user")
    BY <2>1, <2>3, EndOK
  <2>4. CASE Write(t, [wr[t] EXCEPT !.users = Only(s, me[t])], AfterUser(t))
    BY <2>1, <2>2, <2>4, AfterUserOK, WriteUserOK
  <2> QED  BY <1>5, <2>3, <2>4 DEF ProvisionUser
<1>6. CASE FindSub(t)
  <2>1. pc[t] = "idle" /\ req[t].op = "login"
    BY <1>6 DEF FindSub
  <2>2. CASE End(t, "403") \/ End(t, "ok")
    BY <1>1, <2>1, <2>2, EndOK
  <2>3. CASE Goto(t, "find_email") \/ Goto(t, "update_email")
    BY <1>3, <2>1, <2>3
  <2> QED  BY <1>6, <2>2, <2>3 DEF FindSub
<1>7. CASE FindEmail(t)
  <2>1. pc[t] = "find_email" /\ req[t].op = "login"
    BY <1>1, <1>7 DEF FindEmail, ControlOK, Fits
  <2>2. CASE End(t, "409 email")
    BY <1>1, <2>1, <2>2, EndOK
  <2>3. CASE Goto(t, "insert_user")
    BY <1>3, <2>1, <2>3
  <2> QED  BY <1>7, <2>2, <2>3 DEF FindEmail
<1>8. CASE InsertUser(t)
  <2>1. pc[t] = "insert_user" /\ req[t].op = "login" /\ UNCHANGED loads
    BY <1>1, <1>8 DEF InsertUser, ControlOK, Fits, Keep
  <2>2. CASE Goto(t, "refetch") /\ (user[s] # None \/ EmailTaken(s, e))
    <3>1. user[s] # None \/ "clash" \in Known(t)
      BY <1>2, <2>1, <2>2 DEF Known, Running
    <3> QED  BY <1>3, <2>1, <2>2, <3>1
  <2>3. CASE Write(t, [wr[t] EXCEPT !.users = Only(s, e)], "commit")
    BY <2>1, <2>3, WriteUserOK
  <2> QED  BY <1>8, <2>2, <2>3 DEF InsertUser
<1>9. CASE Refetch(t)
  <2>1. pc[t] = "refetch" /\ req[t].op = "login"
    BY <1>1, <1>9 DEF Refetch, ControlOK, Fits
  <2>2. CASE End(t, "409 index") /\ user[s] = None
    BY <1>1, <2>1, <2>2, EndOK DEF EntitledOK, Known
  <2>3. CASE End(t, "403") \/ End(t, "ok")
    BY <1>1, <2>1, <2>3, EndOK
  <2> QED  BY <1>9, <2>2, <2>3 DEF Refetch
<1>10. CASE UpdateEmail(t)
  <2>1. pc[t] = "update_email" /\ req[t].op = "login" /\ UNCHANGED loads
    BY <1>1, <1>10 DEF UpdateEmail, ControlOK, Fits, Keep
  <2>2. CASE End(t, "409 index") /\ EmailTaken(s, e)
    <3>1. "clash" \in Known(t)
      BY <1>2, <2>1, <2>2 DEF Known, Running
    <3> QED  BY <1>1, <2>1, <2>2, <3>1, EndOK
  <2>3. CASE End(t, "403")
    BY <1>1, <2>1, <2>3, EndOK
  <2>4. CASE Write(t, [wr[t] EXCEPT !.users = Only(s, e)], "commit")
    BY <2>1, <2>4, WriteUserOK
  <2> QED  BY <1>10, <2>2, <2>3, <2>4 DEF UpdateEmail
<1> QED  BY <1>4, <1>5, <1>6, <1>7, <1>8, <1>9, <1>10

LEMMA StaleStays ==
    ASSUME Inv, Observe, NEW t \in Txns, member' = member PROVE stale'[t] = stale[t]
BY HistoryTyped, Observed DEF Inv, Typed, History

LEMMA TenantOK ==
    ASSUME Inv, NEW t \in Txns, Observe,
           Membership(t) \/ CheckTenant(t) \/ RequireRole(t)
    PROVE  TxnOK(t)' /\ Apart(t)
<1>1. /\ ControlOK(t) /\ LoadedOK(t) /\ EntitledOK(t) /\ req[t].by \in Subs
      /\ pc[t] \in {"membership", "tenant", "role"} /\ req[t].op \in TenantOps
      /\ Running(t) /\ req[t].op \notin {"create", "accept"}
  BY Asked DEF Inv, Typed, TxnOK, Membership, CheckTenant, RequireRole, ControlOK, Fits,
     Running, TenantOps, ManageOps
<1>2. ASSUME NEW a, End(t, a), a \notin {"ok", "409 index", "500 unique"}
      PROVE  TxnOK(t)' /\ Apart(t)
  BY <1>1, <1>2, EndOK
<1>3. ASSUME NEW c, Goto(t, c)
      PROVE  /\ pc'[t] = c /\ UNCHANGED <<req, member, tenant>> /\ stale'[t] = stale[t]
  BY <1>3, StaleStays DEF Goto, store, Inv, Typed, Now
<1>4. CASE Membership(t)
  <2>1. ASSUME NEW m \in Members, Memberships(t) = {m}, Goto(t, "tenant"),
               tid' = [tid EXCEPT ![t] = member[m].tenant],
               own' = [own EXCEPT ![t] = [id |-> m, role |-> member[m].role]]
        PROVE  TxnOK(t)' /\ Apart(t)
    <3>1. /\ tid'[t] = member[m].tenant
          /\ own'[t] = [id |-> m, role |-> member[m].role]
          /\ pc'[t] = "tenant" /\ UNCHANGED <<req, member, tenant>> /\ stale'[t] = stale[t]
      BY <1>3, <2>1 DEF Inv, Typed, Now
    <3>2. /\ member[m].user = req[t].by /\ member[m].status = "active"
          /\ req[t].tenant \in {None, member[m].tenant}
      BY <2>1 DEF Memberships
    <3>3. member[m] # NoRow /\ member[m].tenant \in Tenants /\ member[m].role \in Roles
      <4>1. member[m] \in TenantMember \cup {NoRow}
        BY DEF Inv, Typed, Now
      <4>2. member[m] # NoRow
        BY <1>1, <3>2, RowsTyped
      <4> QED  BY <4>1, <4>2 DEF TenantMember
    <3>4. LoadedOK(t)'
      BY <3>1, <3>2, <3>3 DEF LoadedOK, InTenant, AtTarget, Accepting
    <3>5. Suffices(t)' => "role" \in Facts(t)
      <4>1. Suffices(t)' => role_hierarchy[member[m].role] >= role_hierarchy[MinRole(req[t].op)]
        BY <3>1 DEF Suffices
      <4> QED  BY <3>2, <4>1 DEF Facts
    <3> QED  BY <1>1, <2>1, <3>4, <3>5, GotoOK DEF Fits
  <2>2. CASE End(t, "403") \/ End(t, "500 many")
    BY <1>2, <2>2
  <2> QED  BY <1>4, <2>1, <2>2 DEF Membership
<1>5. CASE CheckTenant(t)
  <2>1. pc[t] = "tenant" /\ UNCHANGED loads
    BY <1>5 DEF CheckTenant, Keep
  <2>2. CASE Goto(t, "role") /\ tenant[tid[t]] = "active"
    <3>1. "tenant" \in Facts(t)
      BY <1>1, <2>1, <2>2, AccountsAssumption DEF Facts, LoadedOK
    <3>2. LoadedOK(t)'
      BY <1>1, <1>3, <2>1, <2>2 DEF LoadedOK, InTenant, AtTarget, Accepting, loads
    <3>3. Suffices(t)' => "role" \in entitled[t]
      BY <1>1, <1>3, <2>1, <2>2 DEF Suffices, EntitledOK, loads
    <3> QED  BY <1>1, <2>1, <2>2, <3>1, <3>2, <3>3, GotoOK DEF Fits
  <2> QED  BY <1>2, <1>5, <2>2 DEF CheckTenant
<1>6. CASE RequireRole(t)
  <2>1. pc[t] = "role" /\ "tenant" \in entitled[t]
    BY <1>1, <1>6 DEF RequireRole, EntitledOK
  <2>2. CASE Mine(t) = {} /\ End(t, "403")
    BY <1>2, <2>2
  <2>3. ASSUME NEW m \in Mine(t), NEW role \in LoadedRoles(t, m),
               IF role_hierarchy[role] < role_hierarchy[MinRole(req[t].op)] THEN End(t, "403")
               ELSE CASE req[t].op = "serve" -> End(t, "ok")
                      [] req[t].op = "invite" -> Goto(t, "invitee")
                      [] OTHER -> Goto(t, "target"),
               own' = [own EXCEPT ![t] = [id |-> m, role |-> role]],
               UNCHANGED <<me, tid, seen, invites>>
        PROVE  TxnOK(t)' /\ Apart(t)
    <3>1. /\ m \in Members /\ member[m] # NoRow /\ member[m] \in TenantMember
          /\ member[m].tenant = tid[t] /\ member[m].user = req[t].by
          /\ member[m].status = "active"
      BY <1>1, RowsTyped DEF Mine, Inv, Typed, Now
    <3>2. /\ role \in Roles /\ MinRole(req[t].op) \in Roles
          /\ ~stale[t] => role = member[m].role
      BY <1>1, <2>1, <3>1 DEF LoadedRoles, LoadedOK, TenantMember, MinRole, Roles
    <3>3. CASE End(t, "403")
      BY <1>2, <3>3
    <3>4. CASE role_hierarchy[role] >= role_hierarchy[MinRole(req[t].op)]
      <4>1. "role" \in entitled[t] \cup Facts(t)
        <5>1. CASE role = member[m].role
          <6>1. req[t].tenant \in {None, member[m].tenant}
            BY <1>1, <2>1, <3>1 DEF LoadedOK
          <6> QED  BY <3>1, <3>4, <5>1, <6>1 DEF Facts
        <5>2. CASE role = own[t].role
          BY <1>1, <2>1, <3>4, <5>2 DEF EntitledOK, Suffices
        <5> QED  BY <5>1, <5>2 DEF LoadedRoles
      <4>2. CASE End(t, "ok")
        BY <1>1, <2>1, <4>1, <4>2, EndOK DEF Known
      <4>3. ASSUME NEW c \in {"invitee", "target"}, Goto(t, c), Fits(c, req[t].op)
            PROVE  TxnOK(t)' /\ Apart(t)
        <5>1. own'[t] = [id |-> m, role |-> role] /\ tid' = tid
          BY <2>3 DEF Inv, Typed, Now
        <5>2. LoadedOK(t)'
          BY <1>1, <1>3, <2>1, <3>1, <3>2, <4>3, <5>1 DEF LoadedOK, InTenant, AtTarget, Accepting
        <5> QED  BY <2>1, <4>1, <4>3, <5>2, GotoOK
      <4>4. \/ End(t, "ok") \/ End(t, "403")
            \/ req[t].op = "invite" /\ Goto(t, "invitee")
            \/ req[t].op \in {"remove", "role"} /\ Goto(t, "target")
        BY <1>1, <2>3 DEF TenantOps, ManageOps
      <4> QED  BY <3>3, <4>2, <4>3, <4>4 DEF Fits
    <3>5. role_hierarchy[role] \in Int /\ role_hierarchy[MinRole(req[t].op)] \in Int
      BY <3>2 DEF role_hierarchy, Roles
    <3> QED  BY <2>3, <3>3, <3>4, <3>5
  <2> QED  BY <1>6, <2>2, <2>3 DEF RequireRole
<1> QED  BY <1>4, <1>5, <1>6

\* The statements before the commit.
LEMMA WriteOK ==
    ASSUME Inv, NEW t \in Txns, Observe, NEW w, Write(t, w, "commit"),
           pc[t] \notin {"commit", "end"},
           req[t].op \in TenantOps => {"role", "tenant"} \subseteq entitled[t],
           WritesOK(t)', LoadedOK(t)', Apart(t)
    PROVE  TxnOK(t)' /\ Apart(t)
<1>1. req' = req /\ pc'[t] = "commit" /\ result' = result
  BY DEF Write, Inv, Typed, Now
<1>2. result[t] = "none" /\ entitled[t] \subseteq entitled'[t]
  BY Observed DEF Inv, TxnOK, ControlOK
<1>3. ControlOK(t)'
  BY <1>1, <1>2 DEF ControlOK, Fits
<1>4. EntitledOK(t)'
  BY <1>1, <1>2 DEF EntitledOK, InTenant, Unique
<1> QED  BY <1>3, <1>4 DEF TxnOK

\* What is written with the members of f and the events of es.
LEMMA Written ==
    ASSUME Inv, NEW t \in Txns, pc[t] # "commit", NEW f, NEW es
    PROVE  /\ LET w == [wr[t] EXCEPT !.members = f] IN
              w.members = f /\ w.tenants = <<>> /\ w.audit = <<>>
           /\ LET w == [wr[t] EXCEPT !.members = f, !.audit = es] IN
              w.members = f /\ w.tenants = <<>> /\ w.audit = es
           /\ \A g : LET w == [wr[t] EXCEPT !.tenants = g, !.members = f] IN
              w.members = f /\ w.tenants = g /\ w.audit = <<>>
           /\ \A g : LET w == [wr[t] EXCEPT !.tenants = g, !.audit = es] IN
              w.members = <<>> /\ w.tenants = g /\ w.audit = es
<1>1. wr[t] \in Writes /\ wr[t].tenants = <<>> /\ wr[t].members = <<>> /\ wr[t].audit = <<>>
  BY DEF Inv, Typed, Now, TxnOK, WritesOK
<1> QED  BY <1>1 DEF Writes

LEMMA IsWritten ==
    ASSUME Inv, NEW t \in Txns, NEW w, Write(t, w, "commit"), Observe
    PROVE  /\ wr'[t] = w /\ pc'[t] = "commit"
           /\ UNCHANGED <<req, member, tenant>> /\ stale'[t] = stale[t]
BY StaleStays DEF Write, store, Inv, Typed, Now

LEMMA InviteOK ==
    ASSUME Inv, NEW t \in Txns, Observe,
           FindInvitee(t) \/ CheckPending(t) \/ InsertInvitation(t)
    PROVE  TxnOK(t)' /\ Apart(t)
<1>1. /\ LoadedOK(t) /\ pc[t] \in {"invitee", "pending", "insert_member"} /\ Running(t)
      /\ req[t].op = "invite" /\ tid[t] \in Tenants /\ {"role", "tenant"} \subseteq entitled[t]
  BY DEF Inv, TxnOK, FindInvitee, CheckPending, InsertInvitation, ControlOK, Fits,
     Running, EntitledOK, LoadedOK, InTenant
<1>2. ASSUME NEW a, End(t, a), a \notin {"409 index", "500 unique"}
      PROVE  TxnOK(t)' /\ Apart(t)
  BY <1>1, <1>2, EndOK DEF Known
<1>3. ASSUME NEW c, Goto(t, c)
      PROVE  /\ pc'[t] = c /\ UNCHANGED <<req, member, tenant>> /\ stale'[t] = stale[t]
  BY <1>3, StaleStays DEF Goto, store, Inv, Typed, Now
<1>4. CASE FindInvitee(t)
  <2>1. ASSUME NEW s \in Subs \cup {None}, Goto(t, "pending"),
               Load(t, [NoRow EXCEPT !.user = s]),
               ~(s # None /\ \E m \in Members : /\ member[m].tenant = tid[t]
                                               /\ member[m].user = s
                                               /\ member[m].status # "removed")
        PROVE  TxnOK(t)' /\ Apart(t)
    <3>1. /\ seen'[t].user = s /\ tid' = tid /\ invites' = invites
          /\ pc'[t] = "pending" /\ UNCHANGED <<req, member, tenant>>
      BY <1>3, <2>1 DEF Load, Inv, Typed, Now, NoRow
    <3>2. LoadedOK(t)'
      BY <1>1, <2>1, <3>1 DEF LoadedOK, InTenant, AtTarget, Accepting
    <3> QED  BY <1>1, <2>1, <3>2, GotoOK DEF Fits
  <2>2. CASE End(t, "409 member")
    BY <1>2, <2>2
  <2> QED  BY <1>4, <2>1, <2>2 DEF FindInvitee
<1>5. CASE CheckPending(t)
  <2>1. pc[t] = "pending" /\ UNCHANGED loads
    BY <1>5 DEF CheckPending, Keep
  <2>2. CASE Goto(t, "insert_member")
    <3>1. LoadedOK(t)'
      BY <1>1, <1>3, <2>1, <2>2 DEF LoadedOK, InTenant, AtTarget, Accepting, loads
    <3> QED  BY <1>1, <2>2, <3>1, GotoOK DEF Fits
  <2>3. CASE End(t, "409 pending") \/ End(t, "500 many")
    BY <1>2, <2>3
  <2> QED  BY <1>5, <2>2, <2>3 DEF CheckPending
<1>6. CASE InsertInvitation(t)
  <2> PICK row : row = [tenant |-> tid[t], user |-> seen[t].user, email |-> req[t].email,
                        role |-> req[t].role, status |-> "invited"]
    OBVIOUS
  <2>1. pc[t] = "insert_member" /\ UNCHANGED loads /\ FreeMembers # {}
    BY <1>6 DEF InsertInvitation, Keep
  <2>2. CASE End(t, "500 unique") /\ HasRow(tid[t], seen[t].user, {})
    <3>1. PICK m \in Members : member[m].tenant = tid[t] /\ member[m].user = seen[t].user
      BY <2>2 DEF HasRow
    <3>2. ~stale[t] => member[m].status = "removed"
      BY <1>1, <2>1, <2>2, <3>1 DEF LoadedOK, HasRow
    <3>3. ~stale[t] => "removed" \in Facts(t)
      BY <3>1, <3>2 DEF Facts
    <3> QED  BY <1>1, <2>2, <3>3, EndOK DEF Known
  <2>3. CASE Write(t, [wr[t] EXCEPT !.members = Only(FreeMember, row)], "commit")
    <3> PICK f, w : f = Only(FreeMember, row) /\ w = [wr[t] EXCEPT !.members = f]
      OBVIOUS
    <3>1. /\ wr'[t].members = f /\ wr'[t].tenants = <<>> /\ wr'[t].audit = <<>>
          /\ pc'[t] = "commit" /\ UNCHANGED <<req, member, tenant>>
      <4>1. pc[t] # "commit" /\ Write(t, w, "commit")
        BY <2>1, <2>3
      <4>2. w.members = f /\ w.tenants = <<>> /\ w.audit = <<>>
        BY <4>1, Written
      <4> QED  BY <4>1, <4>2, IsWritten
    <3>2. DOMAIN f = {FreeMember} /\ member[FreeMember] = NoRow
          /\ \A u \in Txns : FreeMember \notin DOMAIN wr[u].members
      BY <2>1, FreeIsFree DEF Only
    <3>3. WritesOK(t)'
      BY <1>1, <3>1, <3>2, Nothing DEF WritesOK, RowOK
    <3>4. Apart(t)
      BY <3>1, <3>2, Nothing DEF Apart
    <3>5. LoadedOK(t)'
      BY <1>1, <2>1, <3>1 DEF LoadedOK, InTenant, AtTarget, Accepting, loads
    <3> QED  BY <1>1, <2>3, <3>3, <3>4, <3>5, WriteOK
  <2> QED  BY <1>6, <2>2, <2>3 DEF InsertInvitation
<1> QED  BY <1>4, <1>5, <1>6

LEMMA AnotherOwner ==
    ASSUME Inv, NEW n, Cardinality(ActiveOwners(n)) > 1, NEW k
    PROVE  ActiveOwners(n) \ {k} # {}
<1>1. IsFiniteSet(ActiveOwners(n))
  <2>1. IsFiniteSet(Members)
    BY AccountsAssumption, FS_Interval DEF Members
  <2> QED  BY <2>1, FS_Subset DEF ActiveOwners
<1>2. CASE ActiveOwners(n) \subseteq {k}
  <2>1. Cardinality({k}) = 1 /\ IsFiniteSet({k})
    BY FS_Singleton
  <2>2. Cardinality(ActiveOwners(n)) <= Cardinality({k})
    BY <1>2, <2>1, FS_Subset
  <2>3. Cardinality(ActiveOwners(n)) \in Nat
    BY <1>1, FS_CardinalityType
  <2> QED  BY <2>1, <2>2, <2>3
<1> QED  BY <1>2

\* A row that is free is written by nobody else.
LEMMA FreeRow ==
    ASSUME Inv, NEW t \in Txns, NEW u \in Txns \ {t}
    PROVE  /\ \A m : RowFree(t, m) => m \notin DOMAIN wr[u].members
           /\ \A n : TenantFree(t, n) => n \notin DOMAIN wr[u].tenants
<1>1. ~Running(u) => wr[u].members = <<>> /\ wr[u].tenants = <<>>
  BY DEF Running, Inv, TxnOK, WritesOK
<1> QED  BY <1>1, Nothing DEF RowFree, TenantFree, Others

LEMMA TargetOK ==
    ASSUME Inv, NEW t \in Txns, Observe,
           LoadTarget(t) \/ CountOwners(t) \/ WriteTarget(t)
    PROVE  TxnOK(t)' /\ Apart(t)
<1> PICK k : k = req[t].target
  OBVIOUS
<1>1. /\ LoadedOK(t) /\ pc[t] \in {"target", "count", "write"} /\ Running(t)
      /\ req[t].op \in {"remove", "role"} /\ tid[t] \in Tenants /\ k \in Members
      /\ {"role", "tenant"} \subseteq entitled[t]
  BY Asked DEF Inv, Typed, TxnOK, LoadTarget, CountOwners, WriteTarget, ControlOK, Fits,
     Running, EntitledOK, LoadedOK, InTenant
<1>2. ASSUME NEW a, End(t, a), a \notin {"409 index", "500 unique"}
      PROVE  TxnOK(t)' /\ Apart(t)
  BY <1>1, <1>2, EndOK DEF Known
<1>3. ASSUME NEW c, Goto(t, c)
      PROVE  /\ pc'[t] = c /\ UNCHANGED <<req, member, tenant>> /\ stale'[t] = stale[t]
  BY <1>3, StaleStays DEF Goto, store, Inv, Typed, Now
<1>4. CASE LoadTarget(t)
  <2>1. pc[t] = "target"
    BY <1>4 DEF LoadTarget
  <2>2. ASSUME NEW row \in Targets(t), NEW c, Goto(t, c),
               c = IF row.role = "owner" THEN "count" ELSE "write",
               Load(t, row), member[k].tenant = tid[t]
        PROVE  TxnOK(t)' /\ Apart(t)
    <3>1. tid' = tid /\ pc'[t] = c /\ UNCHANGED <<req, member, tenant>> /\ stale'[t] = stale[t]
      BY <1>3, <2>2 DEF Load
    <3>2. member[k] # NoRow /\ (~stale[t] => row.role = member[k].role)
      <4>1. Now /\ ControlOK(t) /\ LoadedOK(t)
        BY DEF Inv, Typed, TxnOK
      <4>2. NoRow.tenant \notin Tenants
        BY AccountsAssumption DEF NoRow
      <4> QED  BY <1>1, <2>1, <2>2, <4>1, <4>2, TargetTyped
    <3>3. LoadedOK(t)'
      BY <1>1, <2>2, <3>1, <3>2 DEF LoadedOK, InTenant, AtTarget, Accepting, Spared
    <3> QED  BY <1>1, <2>2, <3>3, GotoOK DEF Fits
  <2>3. CASE End(t, "404") \/ End(t, "400 own") \/ End(t, "409 same")
    BY <1>2, <2>3
  <2>4. ASSUME NEW role \in LoadedRoles(t, k)
        PROVE  [member[k] EXCEPT !.role = role].role = role
    BY <1>1 DEF Inv, Typed, Now, TenantMember, NoRow
  <2> QED  BY <1>4, <2>2, <2>3, <2>4 DEF LoadTarget, Targets
<1>5. CASE CountOwners(t)
  <2>1. pc[t] = "count" /\ UNCHANGED loads
    BY <1>5 DEF CountOwners, Keep
  <2>2. CASE Goto(t, "write") /\ ~(Cardinality(ActiveOwners(tid[t])) <= 1)
    <3>1. ActiveOwners(tid[t]) \ {k} # {}
      <4>1. Cardinality(ActiveOwners(tid[t])) \in Nat
        <5>1. IsFiniteSet(ActiveOwners(tid[t]))
          BY AccountsAssumption, FS_Interval, FS_Subset DEF Members, ActiveOwners
        <5> QED  BY <5>1, FS_CardinalityType
      <4> QED  BY <2>2, <4>1, AnotherOwner
    <3>2. Spared(t)'
      BY <1>3, <2>1, <2>2, <3>1 DEF Spared, ActiveOwners, loads
    <3>3. LoadedOK(t)'
      BY <1>1, <1>3, <2>1, <2>2, <3>2 DEF LoadedOK, InTenant, AtTarget, Accepting, loads
    <3> QED  BY <1>1, <2>2, <3>3, GotoOK DEF Fits
  <2>3. CASE End(t, "400 last")
    BY <1>2, <2>3
  <2> QED  BY <1>5, <2>2, <2>3 DEF CountOwners
<1>6. CASE WriteTarget(t)
  <2>1. /\ pc[t] = "write" /\ UNCHANGED loads /\ member[k] # NoRow /\ member[k].tenant = tid[t]
        /\ ~stale[t] => Spared(t)
    BY <1>1, <1>6 DEF WriteTarget, Keep, LoadedOK, AtTarget
  <2>2. ASSUME NEW f, NEW w, NEW es, Write(t, w, "commit"), RowFree(t, k), DOMAIN f = {k},
               w.members = f, w.tenants = <<>>, w.audit = es,
               f[k].tenant = member[k].tenant,
               \/ /\ req[t].op = "remove" /\ es = <<>> /\ f[k].role = member[k].role
                  /\ f[k].status = "removed"
               \/ /\ req[t].op = "role"
                  /\ Names(es, k, f[k].role)
                  /\ f[k].status = member[k].status
        PROVE  TxnOK(t)' /\ Apart(t)
    <3>1. /\ wr'[t].members = f /\ wr'[t].tenants = <<>> /\ wr'[t].audit = es
          /\ pc'[t] = "commit" /\ UNCHANGED <<req, member, tenant>> /\ stale'[t] = stale[t]
      BY <2>2, IsWritten
    <3>2. RowOK(t, k)'
      BY <2>2, <3>1 DEF RowOK
    <3>3. ASSUME NEW e \in Event, es = <<e>> PROVE EventOK(t, e)'
      <4>1. req[t].op = "role" /\ Names(es, k, f[k].role)
        BY <2>2, <3>3, Nothing
      <4>2. e.entity = k /\ e.to = f[k].role
        BY <3>3, <4>1 DEF Names
      <4> QED  BY <2>1, <2>2, <3>1, <4>2 DEF EventOK
    <3>4. WritesOK(t)'
      BY <2>2, <3>1, <3>2, <3>3, Nothing DEF WritesOK
    <3>5. Apart(t)
      BY <2>2, <3>1, FreeRow, Nothing DEF Apart
    <3>6. LoadedOK(t)'
      BY <1>1, <2>1, <3>1 DEF LoadedOK, InTenant, AtTarget, Accepting, Spared, ActiveOwners, loads
    <3> QED  BY <1>1, <2>2, <3>4, <3>5, <3>6, WriteOK
  <2>3. CASE End(t, "ok")
    BY <1>2, <2>3
  <2>4. member[k] \in TenantMember
    BY <1>1, <2>1 DEF Inv, Typed, Now
  <2>5. CASE /\ req[t].op = "remove" /\ RowFree(t, k)
             /\ Write(t, [wr[t] EXCEPT !.members =
                             Only(k, [member[k] EXCEPT !.status = "removed"])], "commit")
    <3> PICK row, f, w : /\ row = [member[k] EXCEPT !.status = "removed"]
                         /\ f = Only(k, row) /\ w = [wr[t] EXCEPT !.members = f]
      OBVIOUS
    <3>1. /\ row.tenant = member[k].tenant /\ row.role = member[k].role
          /\ row.status = "removed"
      BY <2>4 DEF TenantMember
    <3>2. DOMAIN f = {k} /\ f[k] = row
      BY DEF Only
    <3>3. w.members = f /\ w.tenants = <<>> /\ w.audit = <<>>
      BY <2>1, Written
    <3>4. Write(t, w, "commit") /\ RowFree(t, k) /\ req[t].op = "remove"
      BY <2>5
    <3>5. /\ f[k].tenant = member[k].tenant /\ f[k].role = member[k].role
          /\ f[k].status = "removed"
      BY <3>1, <3>2
    <3> QED  BY <2>2, <3>2, <3>3, <3>4, <3>5
  <2>6. CASE /\ req[t].op = "role" /\ RowFree(t, k)
             /\ Write(t, [wr[t] EXCEPT !.members =
                             Only(k, [member[k] EXCEPT !.role = req[t].role]),
                           !.audit = <<RoleEvent(t)>>], "commit")
    <3> PICK row, f, es, w :
           /\ row = [member[k] EXCEPT !.role = req[t].role]
           /\ f = Only(k, row) /\ es = <<RoleEvent(t)>>
           /\ w = [wr[t] EXCEPT !.members = f, !.audit = es]
      OBVIOUS
    <3>1. /\ row.tenant = member[k].tenant /\ row.status = member[k].status
          /\ row.role = req[t].role
      BY <2>4 DEF TenantMember
    <3>2. DOMAIN f = {k} /\ f[k] = row
      BY DEF Only
    <3>3. w.members = f /\ w.tenants = <<>> /\ w.audit = es
      BY <2>1, Written
    <3>4. RoleEvent(t) \in Event /\ RoleEvent(t).entity = k /\ RoleEvent(t).to = row.role
      BY <1>1, <2>6, <3>1, Asked DEF RoleEvent, Event, Inv, Typed, History
    <3>5. Write(t, w, "commit") /\ RowFree(t, k) /\ req[t].op = "role"
      BY <2>6
    <3>6. f[k].tenant = member[k].tenant /\ f[k].status = member[k].status
      BY <3>1, <3>2
    <3>7. Names(es, k, f[k].role)
      <4>1. es = <<RoleEvent(t)>>
        OBVIOUS
      <4>2. RoleEvent(t).to = f[k].role
        BY <3>2, <3>4
      <4> QED  BY <3>4, <4>1, <4>2, Zenon DEF Names
    <3> QED  BY <2>2, <3>2, <3>3, <3>5, <3>6, <3>7
  <2> QED  BY <1>1, <1>6, <2>3, <2>5, <2>6 DEF WriteTarget
<1> QED  BY <1>4, <1>5, <1>6

LEMMA CreateOK ==
    ASSUME Inv, NEW t \in Txns, Observe, CreateTenant(t)
    PROVE  TxnOK(t)' /\ Apart(t)
<1> PICK n, row :
       /\ n = req[t].tenant
       /\ row = [tenant |-> n, user |-> req[t].by, email |-> None,
                 role |-> "owner", status |-> "active"]
  OBVIOUS
<1>1. /\ pc[t] = "insert_tenant" /\ req[t].op = "create" /\ n \in Tenants
      /\ UNCHANGED loads /\ TenantFree(t, n) /\ FreeMembers # {}
  BY Asked DEF Inv, Typed, TxnOK, CreateTenant, ControlOK, Fits, Keep
<1>2. CASE End(t, "409 slug")
  BY <1>1, <1>2, EndOK DEF TenantOps, ManageOps
<1>3. CASE /\ tenant[n] = "none"
           /\ Write(t, [wr[t] EXCEPT !.tenants = Only(n, "active"),
                                     !.members = Only(FreeMember, row)], "commit")
  <2> PICK f, g, w : /\ f = Only(FreeMember, row) /\ g = Only(n, "active")
                     /\ w = [wr[t] EXCEPT !.tenants = g, !.members = f]
    OBVIOUS
  <2>1. Write(t, w, "commit")
    BY <1>3
  <2>2. w.members = f /\ w.tenants = g /\ w.audit = <<>>
    BY <1>1, Written
  <2>3. /\ wr'[t].members = f /\ wr'[t].tenants = g /\ wr'[t].audit = <<>>
        /\ pc'[t] = "commit" /\ UNCHANGED <<req, member, tenant>>
    BY <2>1, <2>2, IsWritten
  <2>4. /\ DOMAIN f = {FreeMember} /\ f[FreeMember] = row /\ member[FreeMember] = NoRow
        /\ \A u \in Txns : FreeMember \notin DOMAIN wr[u].members
        /\ DOMAIN g = {n}
    BY <1>1, FreeIsFree DEF Only
  <2>5. TenantRowOK(t, n)'
    <3>1. OwnerRow(row, n)
      BY DEF OwnerRow
    <3> QED  BY <1>3, <2>3, <2>4, <3>1 DEF TenantRowOK, OwnerRow
  <2>6. \A m \in DOMAIN f : RowOK(t, m)'
    BY <2>3, <2>4 DEF RowOK
  <2>7. WritesOK(t)'
    BY <1>1, <2>3, <2>4, <2>5, <2>6, Nothing DEF WritesOK
  <2>8. Apart(t)
    BY <1>1, <2>3, <2>4, FreeRow DEF Apart
  <2>9. LoadedOK(t)'
    BY <1>1, <2>3 DEF LoadedOK, InTenant, AtTarget, Accepting, TenantOps, ManageOps
  <2>10. req[t].op \notin TenantOps
    BY <1>1 DEF TenantOps, ManageOps
  <2> QED  BY <1>1, <2>1, <2>7, <2>8, <2>9, <2>10, WriteOK
<1> QED  BY <1>2, <1>3 DEF CreateTenant

\* The rows of invitations that an acceptance writes.
LEMMA AcceptOK ==
    ASSUME Inv, NEW t \in Txns, Observe, LoadInvitations(t) \/ AcceptInvitations(t)
    PROVE  TxnOK(t)' /\ Apart(t)
<1>1. /\ LoadedOK(t) /\ pc[t] \in {"load_invites", "accept"} /\ req[t].op = "accept"
      /\ req[t].op \notin TenantOps /\ invites[t] \in SUBSET Members
  <2>1. pc[t] \in {"load_invites", "accept"} /\ ControlOK(t) /\ LoadedOK(t)
    BY DEF Inv, TxnOK, LoadInvitations, AcceptInvitations
  <2> QED  BY <2>1 DEF ControlOK, Fits, TenantOps, ManageOps, Inv, Typed, Now
<1>2. ASSUME NEW a, End(t, a), a # "409 index"
      PROVE  TxnOK(t)' /\ Apart(t)
  BY <1>1, <1>2, EndOK DEF Known
<1>3. CASE LoadInvitations(t)
  <2>1. ASSUME NEW last, Goto(t, "accept"), UNCHANGED <<me, own, seen>>,
               tid' = [tid EXCEPT ![t] = member[last].tenant],
               invites' = [invites EXCEPT ![t] = Invitations(me[t])]
        PROVE  TxnOK(t)' /\ Apart(t)
    <3>1. invites'[t] = Invitations(me[t]) /\ pc'[t] = "accept" /\ UNCHANGED <<req, member>>
      BY <2>1 DEF Goto, store, Inv, Typed, Now
    <3>2. \A m \in invites'[t] : member[m].status = "invited" /\ member[m] # NoRow
      BY <3>1 DEF Invitations, NoRow
    <3>3. LoadedOK(t)'
      BY <1>1, <3>1, <3>2 DEF LoadedOK, InTenant, AtTarget, Accepting
    <3> QED  BY <1>1, <2>1, <3>3, GotoOK DEF Fits
  <2>2. CASE End(t, "404")
    BY <1>2, <2>2
  <2> QED  BY <1>3, <2>1, <2>2 DEF LoadInvitations
<1>4. CASE AcceptInvitations(t)
  <2>1. pc[t] = "accept" /\ UNCHANGED loads
    BY <1>4 DEF AcceptInvitations, Keep
  <2>2. CASE End(t, "500 unique") \/ End(t, "500 rows")
    BY <1>2, <2>2
  <2>3. ASSUME NEW V \in SUBSET invites[t], \A m \in V : RowFree(t, m),
               Write(t, [wr[t] EXCEPT !.members =
                  [m \in V |-> [member[m] EXCEPT !.user = req[t].by, !.status = "active"]]],
                  "commit")
        PROVE  TxnOK(t)' /\ Apart(t)
    <3> PICK f, w :
           /\ f = [m \in V |-> [member[m] EXCEPT !.user = req[t].by, !.status = "active"]]
           /\ w = [wr[t] EXCEPT !.members = f]
      OBVIOUS
    <3>1. Write(t, w, "commit")
      BY <2>3
    <3>2. w.members = f /\ w.tenants = <<>> /\ w.audit = <<>>
      <4>1. pc[t] # "commit" /\ w = [wr[t] EXCEPT !.members = f]
        BY <2>1
      <4> QED  BY ONLY Inv, t \in Txns, <4>1, Written
    <3>3. /\ wr'[t].members = f /\ wr'[t].tenants = <<>> /\ wr'[t].audit = <<>>
          /\ pc'[t] = "commit" /\ UNCHANGED <<req, member, tenant>> /\ stale'[t] = stale[t]
      BY <3>1, <3>2, IsWritten
    <3>4. \A m \in V : RowOK(t, m)'
      <4> TAKE m \in V
      <4>1. member[m] \in TenantMember
        BY <1>1, <2>1, <2>3 DEF LoadedOK, Inv, Typed, Now
      <4>2. /\ f[m].tenant = member[m].tenant /\ f[m].role = member[m].role
            /\ f[m].status = "active"
        BY <4>1 DEF TenantMember
      <4> QED  BY <1>1, <2>1, <2>3, <3>3, <4>2 DEF RowOK, loads
    <3>5. WritesOK(t)'
      BY <1>1, <3>3, <3>4, Nothing DEF WritesOK
    <3>6. Apart(t)
      BY <2>3, <3>3, FreeRow, Nothing DEF Apart
    <3>7. LoadedOK(t)'
      BY <1>1, <2>1, <3>3 DEF LoadedOK, InTenant, AtTarget, Accepting, loads
    <3> QED  BY <1>1, <2>1, <3>1, <3>5, <3>6, <3>7, WriteOK
  <2>4. PICK V : /\ V = {m \in invites[t] : FlushesBeforeText \/ member[m].tenant = tid[t]}
                 /\ \A m \in V : RowFree(t, m)
    BY <1>4 DEF AcceptInvitations
  <2> QED  BY <1>4, <2>2, <2>3, <2>4 DEF AcceptInvitations
<1> QED  BY <1>3, <1>4

LEMMA AdminOK ==
    ASSUME Inv, NEW t \in Txns, Observe, LoadTenant(t) \/ WriteTenant(t)
    PROVE  TxnOK(t)' /\ Apart(t)
<1> PICK n : n = req[t].tenant
  OBVIOUS
<1>1. /\ LoadedOK(t) /\ pc[t] \in {"load_tenant", "write_tenant"} /\ req[t].op \in AdminOps
      /\ n \in Tenants
  <2>1. pc[t] \in {"load_tenant", "write_tenant"} /\ ControlOK(t) /\ LoadedOK(t)
    BY DEF Inv, TxnOK, LoadTenant, WriteTenant
  <2> QED  BY <2>1, Asked DEF ControlOK, Fits, Inv, Typed
<1>2. req[t].op \notin TenantOps /\ req[t].op \notin {"accept", "invite"}
  BY <1>1 DEF TenantOps, ManageOps, AdminOps
<1>3. CASE LoadTenant(t)
  <2>1. CASE Goto(t, "write_tenant") /\ tenant[n] # "none"
    <3>1. pc'[t] = "write_tenant" /\ UNCHANGED <<req, tenant>>
      BY <2>1 DEF Goto, store, Inv, Typed, Now
    <3>2. LoadedOK(t)'
      BY <1>1, <2>1, <3>1 DEF LoadedOK, InTenant, AtTarget, Accepting
    <3> QED  BY <1>1, <1>3, <2>1, <3>2, GotoOK DEF Fits, LoadTenant
  <2>2. ASSUME NEW a \in {"403", "404", "409"}, End(t, a)
        PROVE  TxnOK(t)' /\ Apart(t)
    BY <1>1, <2>2, EndOK
  <2> QED  BY <1>3, <2>1, <2>2 DEF LoadTenant
<1>4. CASE WriteTenant(t)
  <2> PICK to, g, es, w :
         /\ to = IF req[t].op = "suspend" THEN "suspended" ELSE "active"
         /\ g = Only(n, to) /\ es = <<[entity |-> n, to |-> to, at |-> began[t]]>>
         /\ w = [wr[t] EXCEPT !.tenants = g, !.audit = es]
    OBVIOUS
  <2>1. pc[t] = "write_tenant" /\ UNCHANGED loads /\ TenantFree(t, n) /\ Write(t, w, "commit")
    BY <1>4 DEF WriteTenant, Keep
  <2>2. w.members = <<>> /\ w.tenants = g /\ w.audit = es
    BY <2>1, Written
  <2>3. /\ wr'[t].members = <<>> /\ wr'[t].tenants = g /\ wr'[t].audit = es
        /\ pc'[t] = "commit" /\ UNCHANGED <<req, member, tenant>>
    BY <2>1, <2>2, IsWritten
  <2>4. DOMAIN g = {n} /\ g[n] = to
    BY DEF Only
  <2>5. TenantRowOK(t, n)'
    <3>1. [entity |-> n, to |-> to, at |-> began[t]] \in Event
      BY <1>1 DEF Event, Inv, Typed, History
    <3>2. Names(wr[t].audit, n, to)'
      BY <2>3, <3>1 DEF Names
    <3> QED  BY <1>1, <2>1, <2>3, <2>4, <3>2 DEF TenantRowOK, LoadedOK
  <2>6. ASSUME NEW e \in Event, es = <<e>> PROVE EventOK(t, e)'
    <3>1. e = [entity |-> n, to |-> to, at |-> began[t]]
      BY <2>6
    <3> QED  BY <2>3, <2>4, <3>1 DEF EventOK
  <2>7. WritesOK(t)'
    BY <1>1, <2>3, <2>4, <2>5, <2>6, Nothing DEF WritesOK, AdminOps
  <2>8. Apart(t)
    BY <2>1, <2>3, <2>4, FreeRow, Nothing DEF Apart
  <2>9. LoadedOK(t)'
    BY <1>2, <2>3, <1>1 DEF LoadedOK, InTenant, AtTarget, Accepting, AdminOps
  <2> QED  BY <1>2, <2>1, <2>7, <2>8, <2>9, WriteOK
<1> QED  BY <1>3, <1>4

LEMMA CommitOK ==
    ASSUME Inv, NEW t \in Txns, Observe, Commit(t)
    PROVE  TxnOK(t)' /\ Apart(t)
<1>1. /\ req' = req /\ pc'[t] = "end" /\ wr'[t] = NoWrites /\ result'[t] = "ok"
      /\ pc[t] = "commit"
  BY DEF Commit, Inv, Typed, Now
<1>2. entitled[t] \subseteq entitled'[t]
  BY Observed DEF Inv
<1>3. wr'[t].tenants = <<>> /\ wr'[t].members = <<>> /\ wr'[t].audit = <<>>
  BY <1>1, NoWritesAre
<1>4. ControlOK(t)' /\ LoadedOK(t)'
  BY <1>1 DEF ControlOK, Fits, LoadedOK, InTenant, AtTarget, Accepting
<1>5. WritesOK(t)'
  BY <1>3, Nothing DEF WritesOK
<1>6. EntitledOK(t)'
  <2>1. req[t].op \in TenantOps => {"role", "tenant"} \subseteq entitled[t]
    BY <1>1 DEF Inv, TxnOK, EntitledOK, InTenant
  <2> QED  BY <1>1, <1>2, <2>1 DEF EntitledOK, InTenant, Unique
<1>7. Apart(t)
  BY <1>3, Nothing DEF Apart
<1> QED  BY <1>4, <1>5, <1>6, <1>7 DEF TxnOK

\* Whatever t does, it keeps its own part of the invariant.
LEMMA StepOK ==
    ASSUME Inv, NEW t \in Txns, Step(t), Observe
    PROVE  TxnOK(t)' /\ Apart(t)
<1>1. CASE Crash(t)
  <2>1. End(t, "lost") /\ pc[t] # "end"
    BY <1>1 DEF Crash, Running
  <2> QED  BY <2>1, EndOK
<1>2. CASE \/ CurrentUser(t) \/ ProvisionUser(t) \/ FindSub(t) \/ FindEmail(t)
           \/ InsertUser(t) \/ Refetch(t) \/ UpdateEmail(t)
  BY <1>2, UserOK
<1>3. CASE Membership(t) \/ CheckTenant(t) \/ RequireRole(t)
  BY <1>3, TenantOK
<1>4. CASE FindInvitee(t) \/ CheckPending(t) \/ InsertInvitation(t)
  BY <1>4, InviteOK
<1>5. CASE LoadTarget(t) \/ CountOwners(t) \/ WriteTarget(t)
  BY <1>5, TargetOK
<1>6. CASE CreateTenant(t)
  BY <1>6, CreateOK
<1>7. CASE LoadInvitations(t) \/ AcceptInvitations(t)
  BY <1>7, AcceptOK
<1>8. CASE LoadTenant(t) \/ WriteTenant(t)
  BY <1>8, AdminOK
<1>9. CASE Commit(t)
  BY <1>9, CommitOK
<1> QED  BY <1>1, <1>2, <1>3, <1>4, <1>5, <1>6, <1>7, <1>8, <1>9 DEF Step

\* The audit trail goes on telling the state: a commit changes no role and no
\* tenant without its event, and the event is of the row it leaves.
LEMMA AuditStep ==
    ASSUME Inv, NEW t \in Txns, Step(t)
    PROVE  AuditOK'
<1>1. audit \in Seq(Event) /\ AuditOK /\ Members \cap Tenants = {}
  BY AccountsAssumption DEF Inv, Typed, Now
<1>2. /\ \A i \in DOMAIN audit : audit[i] \in Event
      /\ \A e \in Event : e.entity \in Members \cup Tenants
  <2>1. \A i \in DOMAIN audit : audit[i] \in Event
    BY <1>1
  <2> QED  BY <2>1 DEF Event
<1>3. CASE UNCHANGED <<user, tenant, member, audit>>
  BY <1>1, <1>3 DEF AuditOK, There, Last, Current
<1>4. CASE Commit(t)
  <2>1. wr[t] \in Writes /\ WritesOK(t) /\ audit' = audit \o wr[t].audit
    BY <1>4 DEF Inv, TxnOK, Typed, Now, Commit
  <2>2. ASSUME NEW a \in Event, There(a) PROVE There(a)'
    <3>1. CASE a.entity \in Members
      BY <1>4, <2>2, <3>1, CommitTables DEF There
    <3>2. CASE a.entity \in Tenants /\ a.entity \notin Members
      <4>1. tenant'[a.entity] # "none"
        BY <1>4, <2>2, <3>2, CommitTables DEF There
      <4> QED  BY <3>2, <4>1 DEF There
    <3> QED  BY <1>2, <3>1, <3>2
  <2>3. ASSUME NEW a \in Event, There(a), Current(a),
               \A e \in Event : wr[t].audit = <<e>> => e.entity # a.entity
        PROVE  Current(a)'
    <3> PICK k : k = a.entity
      OBVIOUS
    <3>2. CASE k \in Members
      <4>1. member[k] # NoRow /\ a.to = member[k].role
        BY <2>3, <3>2 DEF Current, There
      <4>2. member'[k].role = member[k].role
        <5>1. CASE k \notin DOMAIN wr[t].members
          BY <1>4, <3>2, <5>1, CommitTables
        <5>2. CASE k \in DOMAIN wr[t].members
          <6>1. member'[k] = wr[t].members[k] /\ RowOK(t, k) /\ wr[t].members[k] \in TenantMember
            BY <1>4, <5>2, CommitTables
          <6>2. ~Names(wr[t].audit, k, wr[t].members[k].role)
            BY <2>3 DEF Names
          <6> QED  BY <4>1, <6>1, <6>2 DEF RowOK
        <5> QED  BY <5>1, <5>2
      <4> QED  BY <3>2, <4>1, <4>2 DEF Current
    <3>3. CASE k \in Tenants
      <4>1. k \notin Members /\ tenant[k] # "none" /\ a.to = tenant[k]
        BY <1>1, <2>3, <3>3 DEF Current, There
      <4>2. tenant'[k] = tenant[k]
        <5>1. CASE k \notin DOMAIN wr[t].tenants
          BY <1>4, <3>3, <5>1, CommitTables
        <5>2. CASE k \in DOMAIN wr[t].tenants
          <6>1. Names(wr[t].audit, k, wr[t].tenants[k])
            BY <2>1, <4>1, <5>2 DEF WritesOK, TenantRowOK
          <6> QED  BY <2>3, <6>1 DEF Names
        <5> QED  BY <5>1, <5>2
      <4> QED  BY <4>1, <4>2 DEF Current
    <3> QED  BY <1>2, <3>2, <3>3
  <2>4. CASE wr[t].audit = <<>>
    <3>1. audit' = audit
      BY <1>1, <2>1, <2>4
    <3>2. \A e \in Event : wr[t].audit # <<e>>
      BY <2>4, Nothing
    <3>3. ASSUME NEW i \in DOMAIN audit, NEW a, a = audit[i]
          PROVE  There(a)' /\ (Last(i)' => Current(a)')
      <4>1. a \in Event /\ There(a) /\ (Last(i) => Current(a))
        BY <1>1, <1>2, <3>3 DEF AuditOK
      <4>2. Last(i)' => Last(i)
        BY <3>1 DEF Last
      <4> QED  BY <2>2, <2>3, <3>2, <4>1, <4>2
    <3> QED  BY <3>1, <3>3 DEF AuditOK, There, Current
  <2>5. ASSUME NEW e \in Event, wr[t].audit = <<e>> PROVE AuditOK'
    <3>1. /\ audit' = Append(audit, e) /\ DOMAIN audit' = 1 .. Len(audit) + 1
          /\ DOMAIN audit = 1 .. Len(audit) /\ Len(audit) \in Nat
          /\ audit'[Len(audit) + 1] = e /\ \A i \in DOMAIN audit : audit'[i] = audit[i]
      BY <1>1, <2>1, <2>5
    <3>2. There(e)' /\ Current(e)'
      <4>1. EventOK(t, e) /\ e.entity \in Members \cup Tenants
        BY <2>1, <2>5 DEF WritesOK, Event
      <4>2. CASE /\ e.entity \in DOMAIN wr[t].members /\ member[e.entity] # NoRow
                 /\ wr[t].members[e.entity].role = e.to
        <5>1. /\ e.entity \in Members /\ member'[e.entity] = wr[t].members[e.entity]
              /\ member'[e.entity] # NoRow
          BY <1>4, <4>2, CommitTables
        <5> QED  BY <4>2, <5>1 DEF There, Current
      <4>3. CASE e.entity \in DOMAIN wr[t].tenants /\ wr[t].tenants[e.entity] = e.to
        <5>1. /\ e.entity \in Tenants /\ tenant'[e.entity] = wr[t].tenants[e.entity]
              /\ tenant'[e.entity] # "none" /\ e.entity \notin Members
          BY <1>1, <1>4, <4>3, CommitTables
        <5> QED  BY <4>3, <5>1 DEF There, Current
      <4> QED  BY <4>1, <4>2, <4>3 DEF EventOK
    <3>3. ASSUME NEW i \in DOMAIN audit, NEW a, a = audit[i]
          PROVE  There(a)' /\ (Last(i)' => Current(a)')
      <4>1. a \in Event /\ There(a) /\ (Last(i) => Current(a)) /\ audit'[i] = a
        BY <1>1, <1>2, <3>1, <3>3 DEF AuditOK
      <4>2. ASSUME Last(i)' PROVE Current(a)'
        <5>1. Len(audit) + 1 > i /\ Len(audit) + 1 \in DOMAIN audit'
          BY <3>1
        <5>2. e.entity # a.entity
          BY <3>1, <4>1, <4>2, <5>1 DEF Last
        <5>3. Last(i)
          BY <3>1, <4>2 DEF Last
        <5>4. \A d \in Event : wr[t].audit = <<d>> => d.entity # a.entity
          <6>1. \A d : <<e>> = <<d>> => e = d
            OBVIOUS
          <6> QED  BY <2>5, <5>2, <6>1
        <5> QED  BY <2>3, <4>1, <5>3, <5>4
      <4> QED  BY <2>2, <4>1, <4>2
    <3>4. \A i \in DOMAIN audit' : i \in DOMAIN audit \/ i = Len(audit) + 1
      BY <3>1
    <3>5. ASSUME NEW i, i \in DOMAIN audit', NEW a, a = audit'[i]
          PROVE  There(a)' /\ (Last(i)' => Current(a)')
      <4>1. CASE i \in DOMAIN audit
        BY <3>1, <3>3, <3>5, <4>1
      <4>2. CASE i = Len(audit) + 1
        BY <3>1, <3>2, <3>5, <4>2
      <4> QED  BY <3>4, <3>5, <4>1, <4>2
    <3> QED  BY <3>5 DEF AuditOK, There, Current
  <2> QED  BY <2>1, <2>4, <2>5, WritesAre
<1> QED  BY <1>3, <1>4, Frame DEF Inv

\* Where a step of t leads, and the event it may have written.
LEMMA Moves ==
    ASSUME Typed, NEW t \in Txns, Step(t)
    PROVE  /\ pc[t] # "end" /\ pc'[t] # "idle"
           /\ pc[t] = "idle" => wr'[t].audit \in {<<>>, wr[t].audit}
<1>1. /\ \A c : Goto(t, c) => pc'[t] = c /\ wr' = wr
      /\ \A a : End(t, a) => pc'[t] = "end" /\ wr'[t].audit = <<>>
      /\ \A w, c : Write(t, w, c) => pc'[t] = c
  BY NoWritesAre DEF Goto, End, Write, Typed, Now
<1>2. AfterUser(t) # "idle"
  BY DEF AfterUser
<1>3. CASE CurrentUser(t) \/ FindSub(t)
  BY <1>1, <1>2, <1>3 DEF CurrentUser, FindSub
<1>4. CASE Commit(t)
  BY <1>4 DEF Commit, Typed, Now
<1>5. CASE Crash(t)
  BY <1>1, <1>5 DEF Crash, Running
<1>6. CASE ~(CurrentUser(t) \/ FindSub(t) \/ Commit(t) \/ Crash(t))
  <2>1. /\ pc[t] \notin {"idle", "end"}
        /\ \/ \E c : c # "idle" /\ Goto(t, c)
           \/ \E a : End(t, a)
           \/ \E w, c : c # "idle" /\ Write(t, w, c)
    <3>1. CASE ProvisionUser(t) \/ FindEmail(t) \/ InsertUser(t) \/ Refetch(t) \/ UpdateEmail(t)
      BY <1>2, <3>1 DEF ProvisionUser, FindEmail, InsertUser, Refetch, UpdateEmail
    <3>2. CASE Membership(t) \/ CheckTenant(t) \/ RequireRole(t)
      BY <3>2 DEF Membership, CheckTenant, RequireRole
    <3>3. CASE FindInvitee(t) \/ CheckPending(t) \/ InsertInvitation(t)
      BY <3>3 DEF FindInvitee, CheckPending, InsertInvitation
    <3>4. CASE LoadTarget(t) \/ CountOwners(t) \/ WriteTarget(t)
      BY <3>4 DEF LoadTarget, CountOwners, WriteTarget
    <3>5. CASE CreateTenant(t) \/ LoadInvitations(t) \/ AcceptInvitations(t)
      BY <3>5 DEF CreateTenant, LoadInvitations, AcceptInvitations
    <3>6. CASE LoadTenant(t) \/ WriteTenant(t)
      BY <3>6 DEF LoadTenant, WriteTenant
    <3> QED  BY <1>6, <3>1, <3>2, <3>3, <3>4, <3>5, <3>6 DEF Step
  <2> QED  BY <1>1, <2>1
<1> QED  BY <1>3, <1>4, <1>5, <1>6

LEMMA EventWritten ==
    ASSUME Inv, NEW t \in Txns, Step(t), NEW e \in Event, wr'[t].audit = <<e>>
    PROVE  wr[t].audit = <<e>> \/ (req[t].op \in Audited /\ e.at = began[t])
<1>1. wr[t] \in Writes /\ ControlOK(t)
  BY DEF Inv, Typed, Now, TxnOK
<1>2. /\ \A c : Goto(t, c) => wr'[t] = wr[t]
      /\ \A a : ~End(t, a)
      /\ \A w, c : Write(t, w, c) => wr'[t] = w
  BY NoWritesAre, Nothing DEF Goto, End, Write, Inv, Typed, Now
<1>3. CASE WriteTarget(t)
  <2> PICK m : m = req[t].target
    OBVIOUS
  <2>1. CASE req[t].op = "role"
    <3> PICK f, w : /\ f = Only(m, [member[m] EXCEPT !.role = req[t].role])
                    /\ w = [wr[t] EXCEPT !.members = f, !.audit = <<RoleEvent(t)>>]
      OBVIOUS
    <3>1. wr'[t] = w
      BY <1>2, <1>3, <2>1 DEF WriteTarget
    <3>2. w.audit = <<RoleEvent(t)>>
      BY <1>1 DEF Writes
    <3>3. e = RoleEvent(t)
      BY <3>1, <3>2
    <3> QED  BY <2>1, <3>3 DEF RoleEvent, Audited
  <2>2. CASE req[t].op = "remove"
    <3> PICK f, w : /\ f = Only(m, [member[m] EXCEPT !.status = "removed"])
                    /\ w = [wr[t] EXCEPT !.members = f]
      OBVIOUS
    <3>1. wr'[t] = w
      BY <1>2, <1>3, <2>2 DEF WriteTarget
    <3>2. w.audit = wr[t].audit
      BY <1>1 DEF Writes
    <3> QED  BY <3>1, <3>2
  <2> QED  BY <1>1, <1>3, <2>1, <2>2 DEF WriteTarget, ControlOK, Fits
<1>4. CASE WriteTenant(t)
  <2> PICK n, to, f, w :
         /\ n = req[t].tenant /\ to = IF req[t].op = "suspend" THEN "suspended" ELSE "active"
         /\ f = Only(n, to)
         /\ w = [wr[t] EXCEPT !.tenants = f,
                              !.audit = <<[entity |-> n, to |-> to, at |-> began[t]]>>]
    OBVIOUS
  <2>1. wr'[t] = w
    BY <1>2, <1>4 DEF WriteTenant
  <2>2. w.audit = <<[entity |-> n, to |-> to, at |-> began[t]]>>
    BY <1>1 DEF Writes
  <2>3. e.at = began[t]
    BY <2>1, <2>2
  <2> QED  BY <1>1, <1>4, <2>3 DEF WriteTenant, ControlOK, Fits, Audited
<1>5. ASSUME NEW w, NEW c, Write(t, w, c), NEW f, NEW g,
             \/ w = [wr[t] EXCEPT !.users = f]
             \/ w = [wr[t] EXCEPT !.members = f]
             \/ w = [wr[t] EXCEPT !.tenants = g, !.members = f]
      PROVE  wr[t].audit = <<e>>
  <2>1. w.audit = wr[t].audit
    BY <1>1, <1>5 DEF Writes
  <2> QED  BY <1>2, <1>5, <2>1
<1>6. CASE Commit(t)
  <2>1. wr'[t].audit = <<>>
    BY <1>6, NoWritesAre DEF Commit, Inv, Typed, Now
  <2> QED  BY <2>1, Nothing
<1>7. CASE \E c : Goto(t, c)
  BY <1>2, <1>7
<1>8. CASE ProvisionUser(t)
  <2> PICK f, w : f = Only(req[t].by, me[t]) /\ w = [wr[t] EXCEPT !.users = f]
    OBVIOUS
  <2>1. Write(t, w, AfterUser(t))
    BY <1>2, <1>8 DEF ProvisionUser
  <2> QED  BY <1>5, <2>1
<1>9. CASE InsertUser(t) \/ UpdateEmail(t)
  <2> PICK f, w : f = Only(req[t].by, req[t].email) /\ w = [wr[t] EXCEPT !.users = f]
    OBVIOUS
  <2>1. Write(t, w, "commit") \/ Goto(t, "refetch")
    BY <1>2, <1>9 DEF InsertUser, UpdateEmail
  <2> QED  BY <1>5, <1>7, <2>1
<1>10. CASE InsertInvitation(t)
  <2> PICK row, f, w : /\ row = [tenant |-> tid[t], user |-> seen[t].user,
                                 email |-> req[t].email, role |-> req[t].role,
                                 status |-> "invited"]
                       /\ f = Only(FreeMember, row) /\ w = [wr[t] EXCEPT !.members = f]
    OBVIOUS
  <2>1. Write(t, w, "commit")
    BY <1>2, <1>10 DEF InsertInvitation
  <2> QED  BY <1>5, <2>1
<1>11. CASE CreateTenant(t)
  <2> PICK n, row, f, g, w :
         /\ n = req[t].tenant
         /\ row = [tenant |-> n, user |-> req[t].by, email |-> None, role |-> "owner",
                   status |-> "active"]
         /\ f = Only(FreeMember, row) /\ g = Only(n, "active")
         /\ w = [wr[t] EXCEPT !.tenants = g, !.members = f]
    OBVIOUS
  <2>1. Write(t, w, "commit")
    BY <1>2, <1>11 DEF CreateTenant
  <2> QED  BY <1>5, <2>1
<1>12. CASE AcceptInvitations(t)
  <2>1. PICK f : Write(t, [wr[t] EXCEPT !.members = f], "commit")
    BY <1>2, <1>12 DEF AcceptInvitations
  <2> PICK w : w = [wr[t] EXCEPT !.members = f]
    OBVIOUS
  <2>2. Write(t, w, "commit")
    BY <2>1
  <2> QED  BY <1>5, <2>2
<1>13. CASE \/ CurrentUser(t) \/ FindSub(t) \/ FindEmail(t) \/ Refetch(t) \/ Crash(t)
            \/ Membership(t) \/ CheckTenant(t) \/ RequireRole(t) \/ FindInvitee(t)
            \/ CheckPending(t) \/ LoadTarget(t) \/ CountOwners(t) \/ LoadInvitations(t)
            \/ LoadTenant(t)
  <2>1. \E c : Goto(t, c)
    BY <1>2, <1>13 DEF CurrentUser, FindSub, FindEmail, Refetch, Crash, Membership,
       CheckTenant, RequireRole, FindInvitee, CheckPending, LoadTarget, CountOwners,
       LoadInvitations, LoadTenant
  <2> QED  BY <1>7, <2>1
<1> QED  BY <1>3, <1>4, <1>6, <1>8, <1>9, <1>10, <1>11, <1>12, <1>13 DEF Step

\* The stamps of the events stay apart: an audited request takes a new time when
\* it begins, and is over when its event is in the trail.
LEMMA StampsStep ==
    ASSUME Inv, NEW t \in Txns, Step(t), Observe
    PROVE  StampsOK'
<1>1. /\ req' = req /\ pc[t] # "end" /\ pc'[t] # "idle"
      /\ \A u \in Txns \ {t} : pc'[u] = pc[u] /\ wr'[u] = wr[u]
  BY Frame, Moves DEF Inv
<1>2. /\ clock \in Nat /\ began \in [Txns -> Nat] /\ audit \in Seq(Event) /\ StampsOK
      /\ \A i \in DOMAIN audit : audit[i].at \in 1 .. clock
  BY DEF Inv, Typed, History, Now, StampsOK
<1>3. \A u \in Txns : Begins(u) <=> u = t /\ pc[t] = "idle" /\ req[t].op \in Audited
  BY <1>1 DEF Begins
<1>4. CASE pc[t] = "idle" /\ req[t].op \in Audited
  <2>1. /\ clock' = clock + 1 /\ began'[t] = clock + 1
        /\ \A u \in Txns \ {t} : began'[u] = began[u]
    BY <1>2, <1>3, <1>4 DEF Observe
  <2>2. audit' = audit
    BY <1>4, Frame DEF Commit, Inv
  <2>3. ASSUME NEW e \in Event PROVE wr'[t].audit # <<e>>
    <3>1. wr[t].audit = <<>>
      BY <1>4 DEF Inv, TxnOK, WritesOK
    <3> QED  BY <1>4, <3>1, Moves, Nothing DEF Inv
  <2>4. ASSUME NEW u \in Txns PROVE Stamped(u)'
    <3>1. CASE u = t
      BY <1>1, <1>2, <1>4, <2>1, <2>2, <2>3, <3>1 DEF StampsOK, Stamped
    <3>2. CASE u # t
      <4>1. /\ began[u] <= clock /\ began'[u] = began[u] /\ pc'[u] = pc[u]
            /\ req'[u] = req[u] /\ wr'[u] = wr[u] /\ began[u] \in Nat
            /\ \A e \in Event : wr[u].audit = <<e>> => req[u].op \in Audited /\ e.at = began[u]
            /\ \A i \in DOMAIN audit : audit[i].at = began[u] => pc[u] = "end"
        BY <1>1, <1>2, <2>1, <3>2 DEF StampsOK, Stamped
      <4>2. /\ pc[u] = "idle" => began[u] = 0
            /\ pc[u] # "idle" /\ req[u].op \in Audited => began[u] # 0
            /\ \A w \in Txns : began[u] = began[w] => u = w \/ began[u] = 0
        BY <1>2 DEF StampsOK, Stamped
      <4>3. ASSUME NEW w \in Txns PROVE began'[u] = began'[w] => u = w \/ began'[u] = 0
        <5>1. CASE w = t
          BY <1>2, <2>1, <4>1, <5>1
        <5>2. CASE w # t
          BY <2>1, <4>1, <4>2, <5>2
        <5> QED  BY <5>1, <5>2
      <4>4. began'[u] <= clock'
        BY <1>2, <2>1, <4>1
      <4> QED  BY <2>2, <4>1, <4>2, <4>3, <4>4 DEF Stamped
    <3> QED  BY <3>1, <3>2
  <2>5. \A i \in DOMAIN audit : audit[i].at \in 1 .. clock'
    BY <1>2, <2>1
  <2> QED  BY <1>2, <2>2, <2>4, <2>5 DEF StampsOK, Last
<1>5. CASE ~(pc[t] = "idle" /\ req[t].op \in Audited)
  <2>1. clock' = clock /\ \A u \in Txns : began'[u] = began[u]
    BY <1>2, <1>3, <1>5 DEF Observe
  <2>2. \A e \in Event : wr'[t].audit = <<e>> => req[t].op \in Audited /\ e.at = began[t]
    BY <1>2, EventWritten DEF StampsOK, Stamped
  <2>3. ASSUME \A u \in Txns : \A i \in DOMAIN audit' :
                  audit'[i].at = began[u] => pc'[u] = "end",
               NEW u \in Txns
        PROVE  Stamped(u)'
    <3>1. Stamped(u)
      BY <1>2 DEF StampsOK
    <3>2. /\ clock' = clock /\ began'[u] = began[u] /\ req'[u] = req[u]
          /\ \A v \in Txns : began'[v] = began[v]
          /\ pc'[u] = "idle" => pc[u] = "idle"
          /\ pc'[u] # "idle" /\ req[u].op \in Audited => pc[u] # "idle"
      BY <1>1, <1>5, <2>1
    <3>3. \A e \in Event : wr'[u].audit = <<e>> => req[u].op \in Audited /\ e.at = began[u]
      BY <1>1, <2>2, <3>1 DEF Stamped
    <3>4. \A i \in DOMAIN audit' : audit'[i].at = began[u] => pc'[u] = "end"
      BY <2>3
    <3> QED  BY <3>1, <3>2, <3>3, <3>4 DEF Stamped
  <2>4. CASE audit' = audit
    <3>1. \A u \in Txns : \A i \in DOMAIN audit' : audit'[i].at = began[u] => pc'[u] = "end"
      BY <1>1, <1>2, <2>4 DEF StampsOK, Stamped
    <3>2. \A u \in Txns : Stamped(u)'
      BY <2>3, <3>1
    <3> QED  BY <1>2, <2>1, <2>4, <3>2 DEF StampsOK, Last
  <2>5. ASSUME Commit(t), NEW e \in Event, wr[t].audit = <<e>> PROVE StampsOK'
    <3> PICK n : n = Len(audit)
      OBVIOUS
    <3>1. /\ DOMAIN audit' = 1 .. n + 1 /\ DOMAIN audit = 1 .. n
          /\ n \in Nat /\ audit'[n + 1] = e
          /\ \A i \in DOMAIN audit : audit'[i] = audit[i]
      <4>1. audit' = Append(audit, e)
        BY <1>2, <2>5 DEF Commit
      <4> QED  BY <1>2, <4>1
    <3>2. e.at = began[t] /\ began[t] \in 1 .. clock /\ pc[t] = "commit" /\ pc'[t] = "end"
      BY <1>2, <2>5 DEF StampsOK, Stamped, Commit, Inv, Typed, Now
    <3>3. \A i \in DOMAIN audit : audit[i].at # e.at
      BY <1>2, <3>2 DEF StampsOK, Stamped
    <3>4. \A i \in DOMAIN audit' : i \in DOMAIN audit \/ i = n + 1
      BY <3>1
    <3>5. ASSUME NEW u \in Txns, NEW i \in DOMAIN audit', audit'[i].at = began[u]
          PROVE  pc'[u] = "end"
      <4>1. CASE i = n + 1
        <5>1. u = t
          BY <1>2, <3>1, <3>2, <3>5, <4>1 DEF StampsOK, Stamped
        <5> QED  BY <3>2, <5>1
      <4>2. CASE i \in DOMAIN audit
        <5>1. pc[u] = "end"
          BY <1>2, <3>1, <3>5, <4>2 DEF StampsOK, Stamped
        <5> QED  BY <1>1, <5>1
      <4> QED  BY <3>4, <4>1, <4>2
    <3>6. ASSUME NEW i \in DOMAIN audit'
          PROVE  audit'[i].at \in 1 .. clock'
      BY <1>2, <2>1, <3>1, <3>2, <3>4
    <3>7. ASSUME NEW i \in DOMAIN audit', NEW j \in DOMAIN audit', audit'[i].at = audit'[j].at
          PROVE  i = j
      <4>1. CASE i \in DOMAIN audit /\ j \in DOMAIN audit
        BY <1>2, <3>1, <3>7, <4>1 DEF StampsOK
      <4>2. CASE i \notin DOMAIN audit \/ j \notin DOMAIN audit
        BY <3>1, <3>3, <3>4, <3>7, <4>2
      <4> QED  BY <4>1, <4>2
    <3>8. ASSUME NEW i \in DOMAIN audit'
          PROVE  \E j \in DOMAIN audit' : audit'[j].entity = audit'[i].entity /\ Last(j)'
      <4>1. CASE audit'[i].entity = e.entity
        <5>1. n + 1 \in DOMAIN audit' /\ Last(n + 1)'
          BY <3>1 DEF Last
        <5> QED  BY <3>1, <4>1, <5>1
      <4>2. CASE audit'[i].entity # e.entity
        <5>1. i \in DOMAIN audit
          BY <3>1, <3>4, <4>2
        <5>2. PICK j \in DOMAIN audit : audit[j].entity = audit[i].entity /\ Last(j)
          BY <1>2, <5>1 DEF StampsOK
        <5>3. Last(j)'
          BY <3>1, <3>4, <4>2, <5>1, <5>2 DEF Last
        <5> QED  BY <3>1, <5>1, <5>2, <5>3
      <4> QED  BY <4>1, <4>2
    <3>9. \A u \in Txns : Stamped(u)'
      BY <2>3, <3>5
    <3> QED  BY <3>6, <3>7, <3>8, <3>9 DEF StampsOK
  <2>6. Commit(t) => audit' = audit \/ \E e \in Event : wr[t].audit = <<e>>
    <3>1. wr[t].audit = <<>> \/ \E e \in Event : wr[t].audit = <<e>>
      BY WritesAre DEF Inv, Typed, Now
    <3>2. Commit(t) /\ wr[t].audit = <<>> => audit' = audit
      BY <1>2 DEF Commit
    <3> QED  BY <3>1, <3>2
  <2> QED  BY <2>4, <2>5, <2>6, Frame DEF Inv
<1> QED  BY <1>4, <1>5

LEMMA StepInv ==
    ASSUME Inv, NEW t \in Txns, Step(t), Observe
    PROVE  Inv'
<1>1. Typed'
  BY StepTyped DEF Inv
<1>2. \A u \in Txns : TxnOK(u)'
  BY StepOK, OthersOK
<1>3. LocksOK'
  <2>1. Apart(t) /\ \A u \in Txns \ {t} : wr'[u] = wr[u]
    BY StepOK, Frame DEF Inv
  <2>2. LocksOK
    BY DEF Inv
  <2> QED  BY <2>1, <2>2 DEF LocksOK, Alone, Apart
<1>4. AuditOK' /\ StampsOK'
  BY AuditStep, StampsStep
<1> QED  BY <1>1, <1>2, <1>3, <1>4 DEF Inv

LEMMA InitInv == Init => Inv
<1> SUFFICES ASSUME Init PROVE Inv
  OBVIOUS
<1>1. Typed
  BY InitTyped
<1>2. ASSUME NEW t \in Txns PROVE TxnOK(t)
  <2>1. pc[t] = "idle" /\ result[t] = "none" /\ wr[t] = NoWrites
    BY DEF Init
  <2>2. WritesOK(t)
    <3>1. wr[t].tenants = <<>> /\ wr[t].members = <<>> /\ wr[t].audit = <<>>
      BY <2>1, NoWritesAre
    <3> QED  BY <3>1, Nothing DEF WritesOK
  <2> QED  BY <2>1, <2>2 DEF TxnOK, ControlOK, Fits, LoadedOK, EntitledOK, InTenant, AtTarget,
              Accepting, Unique
<1>3. LocksOK
  <2>1. \A t \in Txns : wr[t].members = <<>> /\ wr[t].tenants = <<>>
    BY NoWritesAre DEF Init
  <2> QED  BY <2>1, Nothing DEF LocksOK, Alone
<1>4. AuditOK /\ StampsOK
  <2>1. /\ \A t \in Txns : /\ pc[t] = "idle" /\ began[t] = 0 /\ wr[t].audit = <<>>
        /\ clock = 0 /\ DOMAIN audit = {}
    BY NoWritesAre, Nothing DEF Init
  <2> QED  BY <2>1, Nothing DEF AuditOK, StampsOK, Stamped
<1> QED  BY <1>1, <1>2, <1>3, <1>4 DEF Inv

LEMMA Stutter == ASSUME Inv, UNCHANGED vars PROVE Inv'
<1>1. /\ UNCHANGED <<user, tenant, member, audit, wr, pc, req, result>>
      /\ UNCHANGED <<me, tid, own, seen, invites, stale, entitled, clock, began>>
  BY DEF vars, store, times, loads, history
<1>2. Typed'
  BY <1>1 DEF Inv, Typed, Now, History
<1>3. \A t \in Txns : TxnOK(t)'
  <2> TAKE t \in Txns
  <2>1. TxnOK(t)
    BY DEF Inv
  <2>2. ControlOK(t)' /\ EntitledOK(t)'
    BY <1>1, <2>1 DEF TxnOK, ControlOK, EntitledOK, InTenant, Suffices, Unique
  <2>3. LoadedOK(t)'
    BY <1>1, <2>1 DEF TxnOK, LoadedOK, InTenant, AtTarget, Accepting, Spared, ActiveOwners
  <2>4. WritesOK(t)'
    BY <1>1, <2>1 DEF TxnOK, WritesOK, RowOK, TenantRowOK, OwnerRow, EventOK
  <2> QED  BY <2>2, <2>3, <2>4 DEF TxnOK
<1>4. LocksOK' /\ AuditOK' /\ StampsOK'
  <2>1. LocksOK' /\ AuditOK'
    BY <1>1 DEF Inv, LocksOK, Alone, AuditOK, There, Last, Current
  <2>2. StampsOK'
    BY <1>1 DEF Inv, StampsOK, Stamped, Last
  <2> QED  BY <2>1, <2>2
<1> QED  BY <1>2, <1>3, <1>4 DEF Inv

LEMMA Inductive == Inv /\ [Next]_vars => Inv'
BY StepInv, Stutter DEF Next, Finished

\* The inductive invariant holds in every behaviour.
THEOREM Invariant == Spec => []Inv
<1>1. Inv /\ [Next]_vars => Inv'
  BY Inductive
<1> QED  BY <1>1, InitInv, PTL DEF Spec

LEMMA InvariantOfTypes == Inv => TypeOK
<1> SUFFICES ASSUME Inv PROVE TypeOK
  OBVIOUS
<1>1. \A i \in DOMAIN audit : audit[i].to \in Roles \cup {"active", "suspended"}
  <2>1. \A i \in DOMAIN audit : audit[i] \in Event
    BY DEF Inv, Typed, Now
  <2> QED  BY <2>1 DEF Event
<1>2. \A t \in Txns : \A m \in DOMAIN wr[t].members :
         m \in Members /\ wr[t].members[m] \in TenantMember
  BY WritesAre DEF Inv, Typed, Now
<1> QED  BY <1>1, <1>2 DEF Inv, Typed, Now, History, TypeOK

\* The state has its types: a written row names a tenant, a role and a status
\* of the schema, whatever requests race.
THEOREM Types == Spec => []TypeOK
BY Invariant, InvariantOfTypes, PTL

\* Who is answered by a tenant endpoint (core/dependencies.py, the membership,
\* the tenant and the role checks) had the role and an open tenant at some
\* moment of the request.
THEOREM ServedEntitled == Spec => []ServedWereEntitled
<1>1. Inv => ServedWereEntitled
  BY DEF Inv, TxnOK, EntitledOK, ServedWereEntitled
<1> QED  BY <1>1, Invariant, PTL

\* The audit trail of roles and of tenants (members.py, platform_admin.py),
\* whose rows bear the time their transaction began (audit_event.py, created_at):
\* an event that is not the last of its entity to be committed, and yet the
\* latest, was overtaken by one that began before it.
THEOREM AuditTrail == Spec => []AuditTellsTheState
<1>1. ASSUME Inv, NEW i \in DOMAIN audit, Latest(audit[i]), ~TellsState(audit[i])
      PROVE  \E j \in i + 1 .. Len(audit) : /\ audit[j].entity = audit[i].entity
                                           /\ audit[j].at < audit[i].at
                                           /\ TellsState(audit[j])
  <2>1. /\ DOMAIN audit = 1 .. Len(audit) /\ Len(audit) \in Nat /\ StampsOK /\ AuditOK
        /\ clock \in Nat
    BY <1>1 DEF Inv, Typed, Now, History
  <2>2. PICK j \in DOMAIN audit : audit[j].entity = audit[i].entity /\ Last(j)
    BY <2>1 DEF StampsOK
  <2>3. TellsState(audit[j])
    BY <2>1, <2>2 DEF AuditOK, Current, TellsState
  <2>4. j > i
    BY <1>1, <2>1, <2>2, <2>3 DEF Last
  <2>5. audit[j].at < audit[i].at
    <3>1. audit[j].at <= audit[i].at
      BY <1>1, <2>2 DEF Latest
    <3>2. audit[i].at \in 1 .. clock /\ audit[j].at \in 1 .. clock
      BY <2>1, <2>2 DEF StampsOK
    <3>3. i # j
      BY <2>1, <2>4
    <3>4. audit[i].at # audit[j].at
      BY <2>1, <2>2, <3>3, Zenon DEF StampsOK
    <3> QED  BY <2>1, <3>1, <3>2, <3>4
  <2> QED  BY <2>1, <2>2, <2>3, <2>4, <2>5
<1>2. Inv => AuditTellsTheState
  BY <1>1 DEF AuditTellsTheState
<1> QED  BY <1>2, Invariant, PTL

\* The 409 of a login that the unique index refused, and the unhandled error of
\* an invitation nothing disturbs, are about rows that were there (auth.py,
\* lines 185-199; members.py, the insert).
THEOREM Refusals == Spec => []RefusalsAreReal
<1>1. Inv => RefusalsAreReal
  BY DEF Inv, TxnOK, EntitledOK, Unique, RefusalsAreReal
<1> QED  BY <1>1, Invariant, PTL

-----------------------------------------------------------------------------
\* No step changes a member or a tenant but a commit of the rows it wrote.
LEMMA OnlyCommitsChange ==
    ASSUME Inv, [Next]_vars
    PROVE  UNCHANGED <<tenant, member>> \/ \E t \in Txns : Commit(t) /\ Observe
<1>1. CASE UNCHANGED vars
  BY <1>1 DEF vars, store
<1>2. CASE \E t \in Txns : Step(t) /\ Observe
  BY <1>2, Frame DEF Inv
<1> QED  BY <1>1, <1>2 DEF Next, Finished

\* A removed member stays out (members.py, remove_member): what brings the row
\* back is an acceptance that loaded it as an invitation and ran on while the
\* memberships changed.
THEOREM RemovedStaysOut == Spec => RemovedComesBackOnlyByStaleAccept
<1>1. ASSUME Inv, [Next]_vars, NEW m \in Members,
             member[m].status = "removed", member'[m].status # "removed"
      PROVE  \E t \in Txns : pc[t] = "commit" /\ stale[t] /\ m \in invites[t]
  <2>1. PICK t \in Txns : Commit(t)
    BY <1>1, OnlyCommitsChange
  <2>2. m \in DOMAIN wr[t].members /\ member'[m] = wr[t].members[m] /\ RowOK(t, m)
    BY <1>1, <2>1, CommitTables
  <2>3. member[m] # NoRow
    BY <1>1 DEF NoRow
  <2>4. req[t].op = "accept" /\ m \in invites[t]
    BY <1>1, <2>2, <2>3 DEF RowOK
  <2>5. pc[t] = "commit" /\ LoadedOK(t)
    BY <1>1, <2>1 DEF Commit, Inv, TxnOK
  <2>6. stale[t]
    BY <1>1, <2>4, <2>5 DEF LoadedOK, Accepting
  <2> QED  BY <2>4, <2>5, <2>6
<1>2. Inv /\ [Next]_vars =>
         [\A m \in Members : member[m].status = "removed" /\ member'[m].status # "removed" =>
             \E t \in Txns : pc[t] = "commit" /\ stale[t] /\ m \in invites[t]]_vars
  BY <1>1
<1> QED  BY <1>2, Invariant, PTL DEF Spec, RemovedComesBackOnlyByStaleAccept

-----------------------------------------------------------------------------
\* Every tenant the database starts with has an owner: create_tenant gives it
\* one in the transaction that makes it.
OwnedAtFirst ==
    \A n \in Tenants : InitTenants[n] # "none" =>
        \E m \in Members : OwnerRow(InitMembers[m], n)

\* The request that may have taken the last owner of n.
Culprit(t, n) ==
    result[t] = "ok" /\ stale[t] /\ tid[t] = n /\ req[t].op \in {"remove", "role"}

\* Who has answered stays as it answered.
LEMMA CulpritStays ==
    ASSUME Inv, Next, NEW n, NEW u \in Txns, Culprit(u, n)
    PROVE  Culprit(u, n)'
<1>1. pc[u] = "end" /\ stale[u]
  BY DEF Culprit, Inv, TxnOK, ControlOK
<1>2. CASE UNCHANGED vars
  BY <1>2 DEF Culprit, vars, store, loads, history
<1>3. ASSUME NEW t \in Txns, Step(t), Observe PROVE Culprit(u, n)'
  <2>1. pc[t] # "end"
    BY <1>3 DEF Step, CurrentUser, ProvisionUser, FindSub, FindEmail, InsertUser, Refetch,
       UpdateEmail, Membership, CheckTenant, RequireRole, FindInvitee, CheckPending,
       InsertInvitation, LoadTarget, CountOwners, WriteTarget, CreateTenant,
       LoadInvitations, AcceptInvitations, LoadTenant, WriteTenant, Crash, Commit, Running
  <2>2. /\ req' = req /\ result'[u] = result[u] /\ tid'[u] = tid[u]
    BY <1>1, <1>3, <2>1, Frame DEF Inv
  <2>3. stale'[u]
    BY <1>1, <1>3, Observed DEF Inv
  <2> QED  BY <2>2, <2>3 DEF Culprit
<1> QED  BY <1>2, <1>3 DEF Next, Finished

\* A commit that leaves a tenant without an owner read what was changed since.
LEMMA LastOwner ==
    ASSUME Inv, NEW t \in Txns, Commit(t), Observe, NEW n \in Tenants,
           tenant'[n] # "none", ActiveOwners(n)' = {},
           tenant[n] # "none" => ActiveOwners(n) # {}
    PROVE  Culprit(t, n)'
<1>1. /\ pc[t] = "commit" /\ wr[t] \in Writes /\ req' = req /\ tid' = tid
      /\ result'[t] = "ok" /\ WritesOK(t) /\ LoadedOK(t)
  BY DEF Commit, Keep, loads, Inv, Typed, Now, TxnOK
<1>2. tenant[n] # "none"
  <2> SUFFICES ASSUME tenant[n] = "none" PROVE FALSE
    OBVIOUS
  <2>1. n \in DOMAIN wr[t].tenants
    BY CommitTables
  <2>2. TenantRowOK(t, n)
    BY <1>1, <2>1 DEF WritesOK
  <2>3. PICK m \in DOMAIN wr[t].members : OwnerRow(wr[t].members[m], n)
    BY <2>2 DEF TenantRowOK
  <2>4. m \in Members /\ member'[m] = wr[t].members[m]
    BY <2>3, CommitTables
  <2>5. m \in ActiveOwners(n)'
    BY <2>3, <2>4 DEF OwnerRow, ActiveOwners
  <2> QED  BY <2>5
<1>3. PICK m : m \in ActiveOwners(n)
  BY <1>2
<1>4. /\ m \in Members /\ member[m].tenant = n /\ member[m].role = "owner"
      /\ member[m].status = "active" /\ member[m] # NoRow
  BY <1>3 DEF ActiveOwners, NoRow
<1>5. m \in DOMAIN wr[t].members
  <2>1. CASE m \notin DOMAIN wr[t].members
    <3>1. member'[m] = member[m]
      BY <1>4, <2>1, CommitTables
    <3>2. m \in ActiveOwners(n)'
      BY <1>4, <3>1 DEF ActiveOwners
    <3> QED  BY <3>2
  <2> QED  BY <2>1
<1>6. req[t].op \in {"remove", "role"} /\ m = req[t].target
  <2>1. RowOK(t, m) /\ member'[m] = wr[t].members[m] /\ member'[m].tenant = n
    BY <1>4, <1>5, CommitTables
  <2>2. ~(member'[m].role = "owner" /\ member'[m].status = "active")
    BY <1>4, <2>1 DEF ActiveOwners
  <2> QED  BY <1>4, <2>1, <2>2 DEF RowOK
<1>7. tid[t] = n
  BY <1>1, <1>4, <1>6 DEF LoadedOK, AtTarget
<1>8. stale[t]
  <2> SUFFICES ASSUME ~stale[t] PROVE FALSE
    OBVIOUS
  <2>1. Spared(t)
    BY <1>1, <1>6 DEF LoadedOK, AtTarget
  <2>2. PICK k : k \in ActiveOwners(n) /\ k # m
    BY <1>4, <1>6, <1>7, <2>1 DEF Spared
  <2>3. k \in Members /\ k \notin DOMAIN wr[t].members
    BY <1>1, <1>6, <2>2 DEF WritesOK, ActiveOwners
  <2>4. member'[k] = member[k]
    BY <2>3, CommitTables
  <2>5. k \in ActiveOwners(n)'
    BY <2>2, <2>4 DEF ActiveOwners
  <2> QED  BY <2>5
<1>9. stale'[t]
  BY <1>8, Observed DEF Inv
<1> QED  BY <1>1, <1>6, <1>7, <1>9 DEF Culprit

\* "Cannot remove the last owner" (members.py, lines 134 and 158): where every
\* tenant has an owner at first, one that has none was left so by a removal or
\* a demotion that ran while memberships changed.
THEOREM LastOwnerLost == OwnedAtFirst => (Spec => []OwnerlessOnlyIfStale)
<1>1. OwnedAtFirst /\ Init => OwnerlessOnlyIfStale
  BY DEF OwnedAtFirst, OwnerRow, Init, OwnerlessOnlyIfStale, ActiveOwners
<1>2. Inv /\ OwnerlessOnlyIfStale /\ [Next]_vars => OwnerlessOnlyIfStale'
  <2> SUFFICES ASSUME Inv, OwnerlessOnlyIfStale, [Next]_vars, NEW n \in Tenants,
                      tenant'[n] # "none", ActiveOwners(n)' = {}
               PROVE  \E t \in Txns : Culprit(t, n)'
    BY DEF OwnerlessOnlyIfStale, Culprit
  <2>1. CASE tenant[n] # "none" /\ ActiveOwners(n) = {}
    <3>1. PICK u \in Txns : Culprit(u, n)
      BY <2>1 DEF OwnerlessOnlyIfStale, Culprit
    <3>2. Next => Culprit(u, n)'
      BY <3>1, CulpritStays
    <3>3. UNCHANGED vars => Culprit(u, n)'
      BY <3>1 DEF Culprit, vars, store, loads, history
    <3> QED  BY <3>2, <3>3
  <2>2. CASE ~(tenant[n] # "none" /\ ActiveOwners(n) = {})
    <3>1. ~(UNCHANGED <<tenant, member>>)
      BY <2>2 DEF ActiveOwners
    <3>2. PICK t \in Txns : Commit(t) /\ Observe
      BY <3>1, OnlyCommitsChange
    <3> QED  BY <2>2, <3>2, LastOwner
  <2> QED  BY <2>1, <2>2
<1>3. ASSUME OwnedAtFirst PROVE Spec => []OwnerlessOnlyIfStale
  <2>1. Init => OwnerlessOnlyIfStale
    BY <1>1, <1>3
  <2> QED  BY <2>1, <1>2, Invariant, PTL DEF Spec
<1> QED  BY <1>3
=============================================================================
