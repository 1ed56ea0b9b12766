------------------------------ MODULE Accounts -------------------------------
(* Users, tenants and memberships: the login and the provisioning of users   *)
(* (api/v1/auth.py, core/dependencies.py), the tenant resolution and the     *)
(* role check every tenant request passes, invitations and roles             *)
(* (api/v1/members.py), new tenants (api/v1/tenants.py), suspension          *)
(* (api/v1/platform_admin.py).                                               *)
(*                                                                           *)
(* A request is one transaction at READ COMMITTED; an action is one of its   *)
(* statements. Its writes stay in wr until it commits: other transactions    *)
(* do not read them, and wait where a unique index or a row lock meets them. *)
EXTENDS Naturals, FiniteSets, Sequences

CONSTANTS
    Txns,               \* requests
    Subs,               \* subjects of the identity provider
    Emails, TokenEmail, \* the address get_current_user provisions a subject with
    Tenants,            \* slugs, one tenant each
    MaxMembers,         \* bound: rows of tenant_members
    Requests,           \* what the callers may ask for
    InitUsers, InitTenants, InitMembers,
    Deactivated, PlatformAdmins,    \* flags of the users' rows
    FlushesBeforeText,  \* whether the ORM flushes before a textual statement
    None

Members == 1 .. MaxMembers
Roles == {"owner", "admin", "member", "cashier"}
role_hierarchy == [owner |-> 3, admin |-> 2, member |-> 1, cashier |-> 0]

\* A row of tenant_members; user is None until the invitation is accepted,
\* when the address was unknown.
TenantMember == [tenant : Tenants, user : Subs \cup {None}, email : Emails \cup {None},
                 role : Roles, status : {"active", "invited", "removed"}]
NoRow == [tenant |-> None, user |-> None, email |-> None, role |-> None, status |-> "none"]

ManageOps == {"invite", "remove", "role"}
TenantOps == ManageOps \cup {"serve"}
AdminOps == {"suspend", "reactivate"}
Audited == AdminOps \cup {"role"}      \* what writes an audit event
Request == [op : TenantOps \cup AdminOps \cup {"login", "create", "accept"},
            by : Subs, email : Emails \cup {None}, tenant : Tenants \cup {None},
            target : Members \cup {0}, role : Roles \cup {None}]

\* require_role's first argument; "serve" is any other tenant endpoint.
MinRole(op) == CASE op \in {"invite", "remove"} -> "admin"
                 [] op = "role" -> "owner"
                 [] OTHER -> "member"

ASSUME AccountsAssumption ==
    /\ MaxMembers \in Nat
    /\ Requests \subseteq Request
    /\ InitUsers \in [Subs -> Emails \cup {None}]
    /\ InitTenants \in [Tenants -> {"none", "active", "suspended"}]
    /\ InitMembers \in [Members -> TenantMember \cup {NoRow}]
    /\ TokenEmail \in [Subs -> Emails]
    /\ FlushesBeforeText \in BOOLEAN
    /\ None \notin Subs \cup Emails \cup Tenants
    /\ Members \cap Tenants = {}    \* the ids of the audit trail
    \* the paths and the schemas: a request names what its handler works on (a null
    \* role is a 422 that changes nothing)
    /\ \A q \in Requests :
          /\ q.op \in {"login", "invite"} => q.email \in Emails
          /\ q.op \in {"invite", "role"} => q.role \in Roles
          /\ q.op \in {"remove", "role"} => q.target \in Members
          /\ q.op \in AdminOps \cup {"create"} => q.tenant \in Tenants

VARIABLES
    user,       \* user[s]: the address of the row of subject s, or None
    tenant,     \* tenant[n]: "none", "active" or "suspended" (is_active)
    member,     \* the rows of tenant_members
    audit,      \* audit_events of roles and of tenants, as they were committed
    wr,         \* wr[t]: what t has written and not committed
    pc, req, result,
    clock,      \* the database's clock, which ticks when an audited request begins
    began,      \* began[t]: now() in transaction t, the time of its first statement
    me,         \* me[t]: the caller's address, from the User object
    tid,        \* tid[t]: tenant_id of the request
    own,        \* own[t]: the caller's membership and the role it was loaded with
    seen,       \* seen[t]: the membership a handler has loaded
    invites,    \* invites[t]: the invitations accept_invite has loaded
    stale,      \* history: a membership was committed while t ran
    entitled    \* history: what held at some moment of t's run

store == <<user, tenant, member, audit>>
loads == <<me, tid, own, seen, invites>>
history == <<stale, entitled>>
times == <<clock, began>>
vars == <<store, wr, pc, req, result, times, loads, history>>

-----------------------------------------------------------------------------
\* What a transaction writes: its rows of a table, by their keys.
Only(x, row) == [y \in {x} |-> row]
Merge(rows, table) == [x \in DOMAIN table |-> IF x \in DOMAIN rows THEN rows[x] ELSE table[x]]
NoWrites == [users |-> <<>>, tenants |-> <<>>, members |-> <<>>, audit |-> <<>>]

Running(t) == pc[t] \notin {"idle", "end"}
Others(t) == {u \in Txns \ {t} : Running(u)}

ActiveOwners(n) ==
    {m \in Members : member[m].tenant = n /\ member[m].role = "owner"
                        /\ member[m].status = "active"}

\* The row lock of a membership or a tenant, held by who has written it.
RowFree(t, m) == \A u \in Others(t) : m \notin DOMAIN wr[u].members
TenantFree(t, n) == \A u \in Others(t) : n \notin DOMAIN wr[u].tenants

\* users: cognito_sub and email are unique. An insert waits for a transaction
\* that has put in, or taken away, an entry of its own.
UserBusy(t, s, e) ==
    \E u \in Others(t) : \E x \in DOMAIN wr[u].users :
        x = s \/ wr[u].users[x] = e \/ user[x] = e
EmailTaken(s, e) == \E x \in Subs \ {s} : user[x] = e

\* uq_tenant_members_tenant_user, which does not bind rows without a user.
MemberBusy(t, n, s) ==
    \E u \in Others(t) : \E m \in DOMAIN wr[u].members :
        wr[u].members[m].tenant = n /\ wr[u].members[m].user = s
HasRow(n, s, except) ==
    s # None /\ \E m \in Members \ except : member[m].tenant = n /\ member[m].user = s

\* A new row; the bound on their number is a guard of the inserts.
FreeMembers == {m \in Members : /\ member[m] = NoRow
                                /\ \A u \in Txns : m \notin DOMAIN wr[u].members}
FreeMember == CHOOSE m \in FreeMembers : TRUE

Goto(t, where) ==
    pc' = [pc EXCEPT ![t] = where] /\ UNCHANGED <<store, wr, req, result>>

\* The answer of a request that leaves nothing: get_db rolls back.
End(t, answer) ==
    /\ pc' = [pc EXCEPT ![t] = "end"]
    /\ result' = [result EXCEPT ![t] = answer]
    /\ wr' = [wr EXCEPT ![t] = NoWrites]
    /\ UNCHANGED <<store, req>>

Write(t, w, where) ==
    /\ wr' = [wr EXCEPT ![t] = w]
    /\ pc' = [pc EXCEPT ![t] = where]
    /\ UNCHANGED <<store, req, result>>

Keep == UNCHANGED loads
Load(t, row) == seen' = [seen EXCEPT ![t] = row] /\ UNCHANGED <<me, tid, own, invites>>
SetMe(t, e) == me' = [me EXCEPT ![t] = e] /\ UNCHANGED <<tid, own, seen, invites>>

-----------------------------------------------------------------------------
Init ==
    /\ user = InitUsers /\ tenant = InitTenants /\ member = InitMembers
    /\ audit = <<>>
    /\ wr = [t \in Txns |-> NoWrites]
    /\ pc = [t \in Txns |-> "idle"]
    /\ req \in [Txns -> Requests]
    /\ result = [t \in Txns |-> "none"]
    /\ clock = 0
    /\ began = [t \in Txns |-> 0]
    /\ me = [t \in Txns |-> None]
    /\ tid = [t \in Txns |-> None]
    /\ own = [t \in Txns |-> [id |-> 0, role |-> None]]
    /\ seen = [t \in Txns |-> NoRow]
    /\ invites = [t \in Txns |-> {}]
    /\ stale = [t \in Txns |-> FALSE]
    /\ entitled = [t \in Txns |-> {}]

\* Where a request goes once its caller is known.
AfterUser(t) == CASE req[t].op = "create" -> "insert_tenant"
                  [] req[t].op = "accept" -> "load_invites"
                  [] req[t].op \in AdminOps -> "load_tenant"
                  [] OTHER -> "membership"

\* get_current_user: the row of the token's sub, deactivated or not yet there.
CurrentUser(t) ==
    LET s == req[t].by IN
    /\ pc[t] = "idle" /\ req[t].op # "login"
    /\ \/ s \in Deactivated /\ End(t, "403") /\ Keep
       \/ s \notin Deactivated /\ user[s] # None /\ Goto(t, AfterUser(t)) /\ SetMe(t, user[s])
       \/ user[s] = None /\ Goto(t, "provision") /\ SetMe(t, TokenEmail[s])

\* The flush of the new user; nothing catches an IntegrityError here.
ProvisionUser(t) ==
    LET s == req[t].by IN
    /\ pc[t] = "provision" /\ ~UserBusy(t, s, me[t])
    /\ IF user[s] # None \/ EmailTaken(s, me[t])
       THEN End(t, "500 user")
       ELSE Write(t, [wr[t] EXCEPT !.users = Only(s, me[t])], AfterUser(t))
    /\ Keep

-----------------------------------------------------------------------------
\* login: _provision_or_update_user looks for the sub, then for the address.
FindSub(t) ==
    LET s == req[t].by IN
    /\ pc[t] = "idle" /\ req[t].op = "login"
    /\ CASE user[s] = None -> Goto(t, "find_email")
         [] user[s] # None /\ user[s] # req[t].email -> Goto(t, "update_email")
         [] OTHER -> End(t, IF s \in Deactivated THEN "403" ELSE "ok")
    /\ SetMe(t, req[t].email)

\* The row found is not asked for its sub: it may be the caller's own, inserted
\* since.
FindEmail(t) ==
    /\ pc[t] = "find_email"
    /\ IF \E x \in Subs : user[x] = req[t].email THEN End(t, "409 email")
       ELSE Goto(t, "insert_user")
    /\ Keep

\* Mutant: an IntegrityError of the insert is a conflict of addresses.
InsertUserNoRefetch(t) ==
    LET s == req[t].by IN
    /\ pc[t] = "insert_user" /\ ~UserBusy(t, s, req[t].email)
    /\ IF user[s] # None \/ EmailTaken(s, req[t].email)
       THEN End(t, "409 index")
       ELSE Write(t, [wr[t] EXCEPT !.users = Only(s, req[t].email)], "commit")
    /\ Keep

InsertUser(t) ==
    LET s == req[t].by IN
    /\ pc[t] = "insert_user" /\ ~UserBusy(t, s, req[t].email)
    /\ IF user[s] # None \/ EmailTaken(s, req[t].email)
       THEN Goto(t, "refetch")
       ELSE Write(t, [wr[t] EXCEPT !.users = Only(s, req[t].email)], "commit")
    /\ Keep

\* After the rollback: who won the race, this subject or another address.
Refetch(t) ==
    LET s == req[t].by IN
    /\ pc[t] = "refetch"
    /\ End(t, CASE user[s] = None -> "409 index"
                [] s \in Deactivated -> "403"
                [] OTHER -> "ok")
    /\ Keep

\* A deactivated user's new address is flushed and rolled back with the 403.
UpdateEmail(t) ==
    LET s == req[t].by IN
    /\ pc[t] = "update_email" /\ ~UserBusy(t, s, req[t].email)
    /\ CASE EmailTaken(s, req[t].email) -> End(t, "409 index")
         [] ~EmailTaken(s, req[t].email) /\ s \in Deactivated -> End(t, "403")
         [] OTHER -> Write(t, [wr[t] EXCEPT !.users = Only(s, req[t].email)], "commit")
    /\ Keep

-----------------------------------------------------------------------------
\* The memberships get_db_with_tenant selects: those of the tenant named in
\* X-Tenant-Id, or all of the caller's.
Memberships(t) ==
    {m \in Members : member[m].user = req[t].by /\ member[m].status = "active"
                        /\ req[t].tenant \in {None, member[m].tenant}}

\* scalar_one_or_none: none is a 403, several are an exception.
Membership(t) ==
    /\ pc[t] = "membership"
    /\ \/ Memberships(t) = {} /\ End(t, "403") /\ Keep
       \/ Cardinality(Memberships(t)) > 1 /\ End(t, "500 many") /\ Keep
       \/ \E m \in Members :
             /\ Memberships(t) = {m}
             /\ Goto(t, "tenant")
             /\ tid' = [tid EXCEPT ![t] = member[m].tenant]
             /\ own' = [own EXCEPT ![t] = [id |-> m, role |-> member[m].role]]
             /\ UNCHANGED <<me, seen, invites>>

\* Mutant: a suspended tenant is served.
CheckTenantExists(t) ==
    /\ pc[t] = "tenant"
    /\ IF tenant[tid[t]] # "none" THEN Goto(t, "role") ELSE End(t, "403")
    /\ Keep

CheckTenant(t) ==
    /\ pc[t] = "tenant"
    /\ IF tenant[tid[t]] = "active" THEN Goto(t, "role") ELSE End(t, "403")
    /\ Keep

\* The session's identity map holds its objects weakly: a later select of the
\* caller's row finds the object loaded before, with the role of then, as long
\* as it has not been reclaimed, and the present role after that.
LoadedRoles(t, m) ==
    IF m = own[t].id THEN {member[m].role, own[t].role} ELSE {member[m].role}

Mine(t) == {m \in Members : /\ member[m].tenant = tid[t] /\ member[m].user = req[t].by
                            /\ member[m].status = "active"}

\* require_role selects the membership again.
RequireRole(t) ==
    /\ pc[t] = "role"
    /\ \/ Mine(t) = {} /\ End(t, "403") /\ Keep
       \/ \E m \in Mine(t) : \E role \in LoadedRoles(t, m) :
             /\ IF role_hierarchy[role] < role_hierarchy[MinRole(req[t].op)] THEN End(t, "403")
                ELSE CASE req[t].op = "serve" -> End(t, "ok")
                       [] req[t].op = "invite" -> Goto(t, "invitee")
                       [] OTHER -> Goto(t, "target")
             /\ own' = [own EXCEPT ![t] = [id |-> m, role |-> role]]
             /\ UNCHANGED <<me, tid, seen, invites>>

-----------------------------------------------------------------------------

\* invite_member: the user of that address, if any, and a membership of theirs.
FindInvitee(t) ==
    /\ pc[t] = "invitee"
    /\ \E s \in Subs \cup {None} :
          /\ IF s # None THEN user[s] = req[t].email
             ELSE \A x \in Subs : user[x] # req[t].email
          /\ IF s # None /\ \E m \in Members : /\ member[m].tenant = tid[t]
                                               /\ member[m].user = s
                                               /\ member[m].status # "removed"
             THEN End(t, "409 member") /\ Keep
             ELSE Goto(t, "pending") /\ Load(t, [NoRow EXCEPT !.user = s])

CheckPending(t) ==
    LET P == {m \in Members : /\ member[m].tenant = tid[t] /\ member[m].status = "invited"
                              /\ member[m].email = req[t].email}
    IN  /\ pc[t] = "pending"
        /\ CASE P = {} -> Goto(t, "insert_member")
             [] Cardinality(P) = 1 -> End(t, "409 pending")
             [] OTHER -> End(t, "500 many")
        /\ Keep

InsertInvitation(t) ==
    LET s == seen[t].user
        row == [tenant |-> tid[t], user |-> s, email |-> req[t].email,
                role |-> req[t].role, status |-> "invited"]
    IN  /\ pc[t] = "insert_member" /\ FreeMembers # {}
        /\ s # None => ~MemberBusy(t, tid[t], s)
        /\ IF HasRow(tid[t], s, {}) THEN End(t, "500 unique")
           ELSE Write(t, [wr[t] EXCEPT !.members = Only(FreeMember, row)], "commit")
        /\ Keep

-----------------------------------------------------------------------------
\* remove_member and update_member_role load their target, which may be the
\* caller's own row.
LoadTarget(t) ==
    LET m == req[t].target
        found == /\ member[m].tenant = tid[t]
                 /\ req[t].op = "role" => member[m].status = "active"
        ownRole == req[t].op = "role" /\ member[m].user = req[t].by
        same(row) == req[t].op = "role" /\ row.role = req[t].role
    IN  /\ pc[t] = "target"
        /\ \/ ~found /\ End(t, "404") /\ Keep
           \/ found /\ ownRole /\ End(t, "400 own") /\ Keep
           \/ \E role \in LoadedRoles(t, m) :
                 LET row == [member[m] EXCEPT !.role = role] IN
                 /\ found /\ ~ownRole
                 /\ \/ same(row) /\ End(t, "409 same") /\ Keep
                    \/ /\ ~same(row)
                       /\ Goto(t, IF role = "owner" THEN "count" ELSE "write")
                       /\ Load(t, row)

\* Mutant: the count is one off.
CountOwnersAll(t) ==
    /\ pc[t] = "count"
    /\ IF Cardinality(ActiveOwners(tid[t])) < 1 THEN End(t, "400 last") ELSE Goto(t, "write")
    /\ Keep

\* Cannot remove or demote the last owner.
CountOwners(t) ==
    /\ pc[t] = "count"
    /\ IF Cardinality(ActiveOwners(tid[t])) <= 1 THEN End(t, "400 last") ELSE Goto(t, "write")
    /\ Keep

\* Mutant: the audit row takes the role from the object it has just changed.
RoleEventSwapped(t) == [entity |-> req[t].target, to |-> seen[t].role, at |-> began[t]]

\* created_at is now(), which does not move while a transaction runs.
RoleEvent(t) == [entity |-> req[t].target, to |-> req[t].role, at |-> began[t]]

\* flush: UPDATE tenant_members SET one column WHERE id; a status that is
\* "removed" already is no change and no statement.
WriteTarget(t) ==
    LET m == req[t].target IN
    /\ pc[t] = "write"
    /\ IF req[t].op = "remove"
       THEN IF seen[t].status = "removed" THEN End(t, "ok")
            ELSE /\ RowFree(t, m)
                 /\ Write(t, [wr[t] EXCEPT !.members =
                                Only(m, [member[m] EXCEPT !.status = "removed"])], "commit")
       ELSE /\ RowFree(t, m)
            /\ Write(t, [wr[t] EXCEPT !.members =
                             Only(m, [member[m] EXCEPT !.role = req[t].role]),
                           !.audit = <<RoleEvent(t)>>], "commit")
    /\ Keep

-----------------------------------------------------------------------------
\* create_tenant: the slug is unique; its creator becomes the owner.
CreateTenant(t) ==
    LET n == req[t].tenant
        row == [tenant |-> n, user |-> req[t].by, email |-> None,
                role |-> "owner", status |-> "active"]
    IN  /\ pc[t] = "insert_tenant" /\ TenantFree(t, n) /\ FreeMembers # {}
        /\ IF tenant[n] # "none" THEN End(t, "409 slug")
           ELSE Write(t, [wr[t] EXCEPT !.tenants = Only(n, "active"),
                                       !.members = Only(FreeMember, row)], "commit")
        /\ Keep

\* Mutant: accept_invite forgets the status of the invitation.
InvitationsAnyStatus(e) == {m \in Members : member[m].email = e}

\* The invitations to an address, in every tenant.
Invitations(e) == {m \in Members : member[m].email = e /\ member[m].status = "invited"}

\* accept_invite: the invitations, and the tenant of the last one of the loop.
LoadInvitations(t) ==
    LET I == Invitations(me[t]) IN
    /\ pc[t] = "load_invites"
    /\ \/ I = {} /\ End(t, "404") /\ Keep
       \/ \E last \in I :
             /\ Goto(t, "accept")
             /\ tid' = [tid EXCEPT ![t] = member[last].tenant]
             /\ invites' = [invites EXCEPT ![t] = I]
             /\ UNCHANGED <<me, own, seen>>

\* The flush: UPDATEs by id, under the tenant set last unless every set_config
\* flushes what precedes it. Row-level security hides the other rows from the
\* UPDATE: the driver's row count shows it (an exception) or it does not.
AcceptInvitations(t) ==
    LET s == req[t].by
        V == {m \in invites[t] : FlushesBeforeText \/ member[m].tenant = tid[t]}
        clash == \E m \in V : \/ HasRow(member[m].tenant, s, {m})
                              \/ \E k \in V \ {m} : member[k].tenant = member[m].tenant
    IN  /\ pc[t] = "accept"
        /\ \A m \in V : RowFree(t, m) /\ ~MemberBusy(t, member[m].tenant, s)
        /\ \/ clash /\ End(t, "500 unique")
           \/ V # invites[t] /\ End(t, "500 rows")
           \/ ~clash /\ Write(t, [wr[t] EXCEPT !.members =
                 [m \in V |-> [member[m] EXCEPT !.user = s, !.status = "active"]]], "commit")
        /\ Keep

-----------------------------------------------------------------------------
\* suspend_tenant and reactivate_tenant.
LoadTenant(t) ==
    LET n == req[t].tenant
        from == IF req[t].op = "suspend" THEN "active" ELSE "suspended"
    IN  /\ pc[t] = "load_tenant"
        /\ CASE req[t].by \notin PlatformAdmins -> End(t, "403")
             [] req[t].by \in PlatformAdmins /\ tenant[n] = "none" -> End(t, "404")
             [] req[t].by \in PlatformAdmins /\ tenant[n] = from -> Goto(t, "write_tenant")
             [] OTHER -> End(t, "409")
        /\ Keep

\* UPDATE tenants and INSERT audit_events in one flush.
WriteTenant(t) ==
    LET n == req[t].tenant
        to == IF req[t].op = "suspend" THEN "suspended" ELSE "active"
    IN  /\ pc[t] = "write_tenant" /\ TenantFree(t, n)
        /\ Write(t, [wr[t] EXCEPT !.tenants = Only(n, to),
                                  !.audit = <<[entity |-> n, to |-> to, at |-> began[t]]>>],
                 "commit")
        /\ Keep

-----------------------------------------------------------------------------
Commit(t) ==
    /\ pc[t] = "commit"
    /\ user' = Merge(wr[t].users, user)
    /\ tenant' = Merge(wr[t].tenants, tenant)
    /\ member' = Merge(wr[t].members, member)
    /\ audit' = audit \o wr[t].audit
    /\ wr' = [wr EXCEPT ![t] = NoWrites]
    /\ pc' = [pc EXCEPT ![t] = "end"]
    /\ result' = [result EXCEPT ![t] = "ok"]
    /\ UNCHANGED req
    /\ Keep

\* The connection or the process is lost before the commit.
Crash(t) == Running(t) /\ End(t, "lost") /\ Keep

Step(t) ==
    \/ CurrentUser(t) \/ ProvisionUser(t)
    \/ FindSub(t) \/ FindEmail(t) \/ InsertUser(t) \/ Refetch(t) \/ UpdateEmail(t)
    \/ Membership(t) \/ CheckTenant(t) \/ RequireRole(t)
    \/ FindInvitee(t) \/ CheckPending(t) \/ InsertInvitation(t)
    \/ LoadTarget(t) \/ CountOwners(t) \/ WriteTarget(t)
    \/ CreateTenant(t) \/ LoadInvitations(t) \/ AcceptInvitations(t)
    \/ LoadTenant(t) \/ WriteTenant(t)
    \/ Commit(t) \/ Crash(t)

\* What a moment gives request t: a role that suffices, a tenant that is open,
\* an address that somebody else has, an invitee who was removed.
Facts(t) ==
    LET s == req[t].by
        mine == {m \in Members : member[m].user = s /\ member[m].status = "active"}
    IN  {f \in {"role", "tenant", "clash", "removed"} :
           /\ f = "role" => \E m \in mine :
                 /\ req[t].tenant \in {None, member[m].tenant}
                 /\ role_hierarchy[member[m].role] >= role_hierarchy[MinRole(req[t].op)]
           /\ f = "tenant" => tid[t] # None /\ tenant[tid[t]] = "active"
           /\ f = "clash" => EmailTaken(s, req[t].email)
           /\ f = "removed" => \E m \in Members : /\ member[m].tenant = tid[t]
                                                 /\ member[m].user = seen[t].user
                                                 /\ member[m].status = "removed"}

\* The clock, and the history variables.
Begins(t) == pc[t] = "idle" /\ pc'[t] # "idle" /\ req[t].op \in Audited

Observe ==
    /\ clock' = IF \E t \in Txns : Begins(t) THEN clock + 1 ELSE clock
    /\ began' = [t \in Txns |-> IF Begins(t) THEN clock + 1 ELSE began[t]]
    /\ entitled' = [t \in Txns |-> IF Running(t) \/ Running(t)' THEN entitled[t] \cup Facts(t)
                                   ELSE entitled[t]]
    /\ stale' = [t \in Txns |-> stale[t] \/ (Running(t) /\ Running(t)' /\ member' # member)]

Finished == (\A t \in Txns : pc[t] = "end") /\ UNCHANGED vars

Next == ((\E t \in Txns : Step(t)) /\ Observe) \/ Finished

Spec == Init /\ [][Next]_vars

-----------------------------------------------------------------------------
Pcs == {"idle", "provision", "find_email", "insert_user", "update_email", "refetch",
        "membership", "tenant", "role", "invitee", "pending", "insert_member", "target",
        "count", "write", "insert_tenant", "load_invites", "accept", "load_tenant",
        "write_tenant", "commit", "end"}

TypeOK ==
    /\ user \in [Subs -> Emails \cup {None}]
    /\ tenant \in [Tenants -> {"none", "active", "suspended"}]
    /\ member \in [Members -> TenantMember \cup {NoRow}]
    /\ \A i \in DOMAIN audit : audit[i].to \in Roles \cup {"active", "suspended"}
    /\ \A t \in Txns : \A m \in DOMAIN wr[t].members :
          m \in Members /\ wr[t].members[m] \in TenantMember
    /\ pc \in [Txns -> Pcs]
    /\ clock \in Nat /\ began \in [Txns -> Nat]
    /\ me \in [Txns -> Emails \cup {None}]
    /\ tid \in [Txns -> Tenants \cup {None}]
    /\ invites \in [Txns -> SUBSET Members]

\* "Cannot remove the last owner" (members.py, lines 134 and 158) holds of
\* requests one after the other: a tenant is left without an owner only by a
\* removal or a demotion that read memberships another request then changed.
OwnerlessOnlyIfStale ==
    \A n \in Tenants : tenant[n] # "none" /\ ActiveOwners(n) = {} =>
        \E t \in Txns : /\ result[t] = "ok" /\ stale[t] /\ tid[t] = n
                        /\ req[t].op \in {"remove", "role"}

\* A reader of the trail has only created_at to order it by, and takes the
\* latest event of a member or of a tenant for what it is now.
Latest(e) == \A i \in DOMAIN audit : audit[i].entity = e.entity => audit[i].at <= e.at
TellsState(e) ==
    e.to = IF e.entity \in Members THEN member[e.entity].role ELSE tenant[e.entity]

\* Whatever role changes, suspensions and reactivations race, the latest event
\* of a member names the role it has, and that of a tenant whether it is open,
\* but for one case: a change that began before the latest one and committed
\* after it. It is the event of that change that tells.
AuditTellsTheState ==
    \A i \in DOMAIN audit : Latest(audit[i]) =>
        \/ TellsState(audit[i])
        \/ \E j \in i + 1 .. Len(audit) : /\ audit[j].entity = audit[i].entity
                                         /\ audit[j].at < audit[i].at
                                         /\ TellsState(audit[j])

\* Nobody is served who did not, at some moment of the request, have an active
\* membership with the role it takes, in a tenant that was open: a removal, a
\* demotion or a suspension that is committed binds every later request.
ServedWereEntitled ==
    \A t \in Txns : result[t] = "ok" /\ req[t].op \in TenantOps =>
        {"role", "tenant"} \subseteq entitled[t]

\* The login's 409 after an insert or an update that the unique index refused
\* is about another account that had the address, also when two first logins
\* of the same subject race (auth.py, lines 185-199). And an invitation that
\* nothing disturbs fails unhandled only for a person who was a member and has
\* been removed: their old row keeps the unique key.
RefusalsAreReal ==
    /\ \A t \in Txns : result[t] = "409 index" => "clash" \in entitled[t]
    /\ \A t \in Txns : result[t] = "500 unique" /\ req[t].op = "invite" /\ ~stale[t] =>
          "removed" \in entitled[t]

\* A removed member stays out: only an acceptance that had loaded the row
\* while it was still an invitation brings it back.
RemovedComesBackOnlyByStaleAccept ==
    [][\A m \in Members : member[m].status = "removed" /\ member'[m].status # "removed" =>
          \E t \in Txns : pc[t] = "commit" /\ stale[t] /\ m \in invites[t]]_vars

\* The case left out of AuditTellsTheState: the trail as its readers take it.
LatestEventTells == \A i \in DOMAIN audit : Latest(audit[i]) => TellsState(audit[i])

\* members.py, line 134: "Cannot remove the last owner."
TenantKeepsOwner == \A n \in Tenants : tenant[n] # "none" => ActiveOwners(n) # {}

\* auth.py, line 147: a 409 is for an "email match with different sub".
ConflictIsReal ==
    \A t \in Txns : result[t] \in {"409 email", "409 index"} => "clash" \in entitled[t]

\* auth.py, lines 339-340: accept-invite "flips matching invitations from
\* 'invited' to 'active'", each of those it answers with.
AcceptedAreActive ==
    \A t \in Txns : result[t] = "ok" /\ req[t].op = "accept" /\ ~stale[t] =>
        \A m \in invites[t] : member[m].status # "invited"
=============================================================================
