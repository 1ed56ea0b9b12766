-------------------------- MODULE IsolationProofs ----------------------------
(* Proofs about Isolation for every set of tenants, users, memberships,      *)
(* concurrent requests and pooled connections. That a request stays in its   *)
(* tenant uses the order of the routes alone (RoutesAssumption): what else   *)
(* an endpoint asks for cannot take it out. What is answered to the id of    *)
(* another tenant, and which statements fail, also use how a route finds the *)
(* rows it loads and writes (CarefulRoutesAssumption).                       *)
EXTENDS Isolation, FiniteSetTheorems, TLAPS

Fields == {"name", "kind", "does", "caller", "at", "target", "tenant", "pc", "conn",
           "loaded", "listed", "reads", "writes", "refers", "committed", "status"}
Connections == Pool \cup Clients
Values == {"unset", "", None} \cup Tenants \cup Users

\* A request of client c: who asks, and the tenant it acts in once it is known.
IsRequest(c, r) ==
    /\ DOMAIN r = Fields /\ r = [x \in Fields |-> r[x]]
    /\ InOrder(r.name, r.kind, r.does)
    /\ r.pc \in Nat \ {0}
    /\ r.caller \in Users \cup {None} /\ (r.caller = None => r.kind \in {"slug", "task"})
    /\ r.at \in Tenants \cup {None} /\ (r.kind \in {"slug", "task"} => r.at \in Tenants)
    /\ r.kind \in {"new", "platform"} => r.target \in Tenants
    /\ r.tenant \in {None} \cup Entitled(r)
    /\ r.kind \in {"new", "platform", "slug", "task"} => r.tenant \in Entitled(r)
    /\ r.kind = "tenant" /\ (\E j \in 1 .. (r.pc - 1) : r.does[j].do = "resolve")
         => r.tenant \in Entitled(r)
    /\ r.conn \in Pool \cup {c, None}
    /\ r.conn = None => /\ r.committed
                        /\ \E j \in 1 .. (r.pc - 1) : r.does[j].do = "commit"

\* What the settings g of its connection tell of a request that goes on: no
\* other tenant or user, and its own tenant from the moment it is named.
Tells(r, g) ==
    /\ g.tenant \in {"unset", ""} \cup Entitled(r)
    /\ {g.user, g.email} \subseteq {"unset", ""} \cup ({r.caller} \ {None})
    /\ Scoped(r.does, r.pc) => g.tenant = r.tenant /\ r.tenant \in Entitled(r)

ReadsOK(r) == \A x \in r.reads :
    \/ x.row.tenant \in Entitled(r)
    \/ x.on = "tenant_members" /\ r.caller # None /\ r.caller \in {x.row.user, x.row.email}
    \/ x.on \in PlatformTables /\ r.caller \in PlatformAdmins

WritesOK(r) == \A x \in r.writes :
    \/ x.row.tenant \in Entitled(r)
    \/ r.name = "accept_invite" /\ x.row.email = r.caller

LoadedOK(r) == \A x \in r.loaded :
    x.row.tenant \in Tenants /\ (r.name = "accept_invite" => x.row.email = r.caller)

\* Once a row of the id was found in the tenant, the id is of the tenant.
TargetOK(r) ==
    (\E j \in 1 .. (r.pc - 1) : Scoped(r.does, j) /\ Identifies(r.does[j]))
        => r.target = r.tenant

ListsOK(r) ==
    r.kind \in {"tenant", "slug"} => \A x \in r.listed :
        LET own == {y \in Rows(x.on) : y.tenant = r.tenant}
            shown == {y.row : y \in r.listed} IN
        /\ \E j \in 1 .. (r.pc - 1) : SetsTenant(r.does[j])
        /\ IF r.name # "list_members" THEN shown = own
           ELSE /\ own \subseteq shown
                /\ \A y \in shown \ own : r.caller \in {y.user, y.email} \cup PlatformAdmins

Good(c, r, h, g) == r # None =>
    /\ IsRequest(c, r)
    /\ r.conn # None => h[r.conn] = c
    /\ ~ Ended(r) /\ r.conn # None => Tells(r, g[r.conn])
    /\ ReadsOK(r) /\ WritesOK(r) /\ LoadedOK(r) /\ TargetOK(r) /\ ListsOK(r)

Typed ==
    /\ request = [c \in Clients |-> request[c]]
    /\ settings \in [Connections -> [{"tenant", "user", "email"} -> Values]]
    /\ holder \in [Connections -> Clients \cup {None}]

\* A connection that nobody has borrowed tells nothing.
IdleIsClean == \A n \in Connections : holder[n] = None =>
    \A x \in {"tenant", "user", "email"} : settings[n][x] \in {"unset", ""}

Inv == Typed /\ IdleIsClean /\ \A c \in Clients : Good(c, request[c], holder, settings)

-----------------------------------------------------------------------------
(* The policies.                                                             *)

\* A select policy shows the tenant's row, the caller's own membership or
\* invitation, and a platform administrator one of four tables.
LEMMA ReadPolicies ==
    ASSUME NEW table, NEW g, NEW row, NEW clause \in Clauses(table, "select"),
           Satisfies(clause, g, row)
    PROVE  \/ g.tenant = row.tenant
           \/ table = "tenant_members" /\ (g.user = row.user \/ g.email = row.email)
           \/ table \in PlatformTables /\ g.user \in PlatformAdmins
BY DEF Clauses, Satisfies, PlatformTables, AttributionTables, AppendOnly, Undeletable

\* Every row of the tenant that is named is shown.
LEMMA OwnRowsAreShown ==
    ASSUME NEW table, NEW g, NEW row, g.tenant = row.tenant
    PROVE  \E clause \in Clauses(table, "select") : Satisfies(clause, g, row)
<1>1. Satisfies("tenant", g, row) /\ Satisfies("raw tenant", g, row)
        /\ Satisfies("tenant or user or email", g, row)
  BY DEF Satisfies
<1>2. \/ "tenant" \in Clauses(table, "select")
      \/ "raw tenant" \in Clauses(table, "select")
      \/ "tenant or user or email" \in Clauses(table, "select")
  BY DEF Clauses, PlatformTables, AttributionTables
<1> QED  BY <1>1, <1>2

\* Nothing is written but rows of the tenant that is named.
LEMMA WritePolicies ==
    ASSUME NEW table, NEW g, NEW row, NEW cmd \in {"insert", "update", "delete"},
           NEW clause \in Clauses(table, cmd), Satisfies(clause, g, row)
    PROVE  g.tenant = row.tenant
BY DEF Clauses, Satisfies, PlatformTables, AttributionTables, AppendOnly, Undeletable

\* Stored rows are of tenants and of users.
LEMMA StoredRows ==
    ASSUME NEW table, NEW row \in Rows(table)
    PROVE  row.tenant \in Tenants /\ row.user \in Users \cup {None}
             /\ row.email \in Users \cup {None}
<1>1. CASE table = "tenant_members"
  <2>1. row \in TenantMember
    BY <1>1, IsolationAssumption DEF Rows
  <2> QED  BY <2>1 DEF TenantMember
<1>2. CASE table # "tenant_members"
  <2>1. PICK t \in Tenants : row = Row(t)
    BY <1>2 DEF Rows
  <2> QED  BY <2>1 DEF Row
<1> QED  BY <1>1, <1>2

\* Who is entitled to a tenant is entitled to one there is.
LEMMA EntitledTenants ==
    ASSUME NEW c, NEW r, IsRequest(c, r) PROVE Entitled(r) \subseteq Tenants
BY IsolationAssumption DEF IsRequest, Entitled, InOrder, TenantsOf, TenantMember

-----------------------------------------------------------------------------
\* An idle server tells nothing and does nothing.
LEMMA InitInv == IsolationInit => Inv
<1> SUFFICES ASSUME IsolationInit PROVE Inv
  OBVIOUS
<1>1. Fresh \in [{"tenant", "user", "email"} -> {"unset"}]
  BY DEF Fresh
<1>2. Typed
  BY <1>1 DEF IsolationInit, Typed, Connections, Values
<1>3. IdleIsClean
  BY <1>1 DEF IsolationInit, IdleIsClean, Connections
<1>4. \A c \in Clients : Good(c, request[c], holder, settings)
  BY DEF IsolationInit, Good
<1> QED  BY <1>2, <1>3, <1>4 DEF Inv

\* The clients a step does not concern: their request, and the connection they hold.
LEMMA OthersStay ==
    ASSUME Inv, NEW c \in Clients,
           \A d \in Clients \ {c} : request'[d] = request[d],
           \A n \in Connections : holder[n] \in Clients \ {c} =>
              holder'[n] = holder[n] /\ settings'[n] = settings[n]
    PROVE  \A d \in Clients \ {c} : Good(d, request'[d], holder', settings')
<1> SUFFICES ASSUME NEW d \in Clients \ {c}, request[d] # None
             PROVE  Good(d, request[d], holder', settings')
  BY DEF Good
<1>1. Good(d, request[d], holder, settings)
  BY DEF Inv
<1>2. ASSUME request[d].conn # None
      PROVE  /\ holder'[request[d].conn] = d
             /\ settings'[request[d].conn] = settings[request[d].conn]
  BY <1>1, <1>2 DEF Good, IsRequest, Connections
<1> QED  BY <1>1, <1>2 DEF Good

\* A request that stops has nothing left to read or write.
LEMMA StopStays ==
    ASSUME NEW c, NEW r, NEW h, NEW g, NEW later,
           NEW status \in {"error", "not found", "forbidden", "conflict"},
           r # None, Good(c, r, h, g)
    PROVE  Good(c, [r EXCEPT !.status = status], h, later)
<1> DEFINE q == [r EXCEPT !.status = status]
<1>1. DOMAIN r = Fields /\ r = [x \in Fields |-> r[x]]
  BY DEF Good, IsRequest
<1>2. /\ DOMAIN q = Fields /\ q = [x \in Fields |-> q[x]] /\ q.status = status
      /\ q.name = r.name /\ q.kind = r.kind /\ q.does = r.does /\ q.caller = r.caller
      /\ q.at = r.at /\ q.target = r.target /\ q.tenant = r.tenant /\ q.pc = r.pc
      /\ q.conn = r.conn /\ q.loaded = r.loaded /\ q.listed = r.listed /\ q.reads = r.reads
      /\ q.writes = r.writes /\ q.refers = r.refers /\ q.committed = r.committed
  BY <1>1 DEF Fields
<1> HIDE DEF q
<1>3. Entitled(q) = Entitled(r)
  BY <1>2 DEF Entitled
<1>4. IsRequest(c, q)
  <2>1. IsRequest(c, r)
    BY DEF Good
  <2>2. r.conn = None => /\ r.committed
                         /\ \E j \in 1 .. (r.pc - 1) : r.does[j].do = "commit"
    BY <2>1 DEF IsRequest
  <2>3. r.kind = "tenant" /\ (\E j \in 1 .. (r.pc - 1) : r.does[j].do = "resolve")
          => r.tenant \in Entitled(r)
    BY <2>1 DEF IsRequest
  <2>4. /\ q.conn = None => /\ q.committed
                            /\ \E j \in 1 .. (q.pc - 1) : q.does[j].do = "commit"
        /\ q.kind = "tenant" /\ (\E j \in 1 .. (q.pc - 1) : q.does[j].do = "resolve")
             => q.tenant \in Entitled(q)
    <3>1. /\ q.conn = r.conn /\ q.committed = r.committed /\ q.pc = r.pc /\ q.does = r.does
          /\ q.kind = r.kind /\ q.tenant = r.tenant
      BY <1>2
    <3> QED  BY <1>3, <2>2, <2>3, <3>1
  <2>5. InOrder(q.name, q.kind, q.does)
    BY <1>2, <2>1 DEF IsRequest
  <2> QED  BY <1>2, <1>3, <2>1, <2>4, <2>5 DEF IsRequest
<1>5. Ended(q)
  BY <1>2 DEF Ended
<1>6. ReadsOK(q) /\ WritesOK(q) /\ LoadedOK(q) /\ TargetOK(q)
  BY <1>2, <1>3 DEF Good, ReadsOK, WritesOK, LoadedOK, TargetOK
<1>7. ListsOK(q)
  BY <1>2 DEF Good, ListsOK
<1>8. Good(c, q, h, later)
  BY <1>2, <1>4, <1>5, <1>6, <1>7 DEF Good
<1> QED  BY <1>8 DEF q

\* q is the request r one statement later.
Follows(r, q) ==
    /\ DOMAIN q = Fields /\ q = [x \in Fields |-> q[x]]
    /\ q.name = r.name /\ q.kind = r.kind /\ q.does = r.does /\ q.caller = r.caller
    /\ q.at = r.at /\ q.target = r.target /\ q.status = r.status /\ q.pc = r.pc + 1
    /\ q.refers = r.refers \/ r.does[r.pc].do = "refer"

\* A statement that does not resolve the tenant leaves the request its identity.
LEMMA SameRequest ==
    ASSUME NEW c, NEW r, NEW q, IsRequest(c, r), ~ Ended(r), Follows(r, q),
           r.conn # None, q.tenant = r.tenant, q.conn = r.conn,
           r.does[r.pc].do # "resolve"
    PROVE  /\ Entitled(q) = Entitled(r) /\ IsRequest(c, q)
           /\ r.pc \in Nat \ {0} /\ r.pc \in 1 .. Len(r.does)
           /\ 1 .. (r.pc - 1) \subseteq 1 .. (q.pc - 1) /\ r.pc \in 1 .. (q.pc - 1)
           /\ \A j \in 1 .. (q.pc - 1) : j \in 1 .. (r.pc - 1) \/ j = r.pc
<1>1. Entitled(q) = Entitled(r)
  BY DEF Entitled, Follows
<1>2. r.pc \in Nat \ {0} /\ Len(r.does) \in Nat /\ r.pc \in 1 .. Len(r.does)
  BY DEF IsRequest, InOrder, Ended
<1>3. /\ 1 .. (r.pc - 1) \subseteq 1 .. (q.pc - 1) /\ r.pc \in 1 .. (q.pc - 1)
      /\ \A j \in 1 .. (q.pc - 1) : j \in 1 .. (r.pc - 1) \/ j = r.pc
      /\ q.pc \in Nat \ {0}
  BY <1>2 DEF Follows
<1>4. q.kind = "tenant" /\ (\E j \in 1 .. (q.pc - 1) : q.does[j].do = "resolve")
        => q.tenant \in Entitled(q)
  BY <1>1, <1>3 DEF IsRequest, Follows
<1>5. IsRequest(c, q)
  BY <1>1, <1>3, <1>4 DEF IsRequest, Follows
<1> QED  BY <1>1, <1>2, <1>3, <1>5

\* One that does not set the settings either is told no more than before.
LEMMA Advances ==
    ASSUME NEW c, NEW r, NEW h, NEW g, NEW q, Good(c, r, h, g), r # None, ~ Ended(r),
           r.conn # None, Follows(r, q), q.tenant = r.tenant, q.conn = r.conn,
           r.does[r.pc].do \notin {"set", "resolve", "commit", "accept"}
    PROVE  /\ Entitled(q) = Entitled(r) /\ IsRequest(c, r) /\ IsRequest(c, q)
           /\ Tells(r, g[r.conn]) /\ (~ Ended(q) => Tells(q, g[q.conn]))
           /\ r.pc \in 1 .. Len(r.does)
<1>1. IsRequest(c, r) /\ Tells(r, g[r.conn])
  BY DEF Good
<1>2. /\ Entitled(q) = Entitled(r) /\ IsRequest(c, q)
      /\ r.pc \in Nat \ {0} /\ r.pc \in 1 .. Len(r.does)
      /\ 1 .. (r.pc - 1) \subseteq 1 .. (q.pc - 1) /\ r.pc \in 1 .. (q.pc - 1)
      /\ \A j \in 1 .. (q.pc - 1) : j \in 1 .. (r.pc - 1) \/ j = r.pc
  BY <1>1, SameRequest
<1>3. Scoped(q.does, q.pc) => Scoped(r.does, r.pc)
  BY <1>2 DEF Scoped, SetsTenant, Follows
<1>4. Tells(q, g[q.conn])
  BY <1>1, <1>2, <1>3 DEF Tells, Follows
<1> QED  BY <1>1, <1>2, <1>4

\* What was read, written, loaded and listed keeps its bounds.
LEMMA ContentStays ==
    ASSUME NEW c, NEW r, NEW q, NEW h, NEW g, Good(c, r, h, g), r # None, Follows(r, q),
           Entitled(q) = Entitled(r)
    PROVE  /\ q.reads = r.reads => ReadsOK(q)
           /\ q.writes = r.writes => WritesOK(q)
           /\ q.loaded = r.loaded => LoadedOK(q)
           /\ q.listed = r.listed /\ q.tenant = r.tenant => ListsOK(q)
           /\ q.tenant = r.tenant /\ ~ Identifies(r.does[r.pc]) => TargetOK(q)
<1>1. IsRequest(c, r) /\ r.pc \in Nat \ {0} /\ q.pc = r.pc + 1
  BY DEF Good, IsRequest, Follows
<1>2. /\ \A j \in 1 .. (q.pc - 1) : j \in 1 .. (r.pc - 1) \/ j = r.pc
      /\ 1 .. (r.pc - 1) \subseteq 1 .. (q.pc - 1)
  BY <1>1
<1>3. q.reads = r.reads => ReadsOK(q)
  BY DEF Good, ReadsOK, Follows
<1>4. q.writes = r.writes => WritesOK(q)
  BY DEF Good, WritesOK, Follows
<1>5. q.loaded = r.loaded => LoadedOK(q)
  BY DEF Good, LoadedOK, Follows
<1>6. q.listed = r.listed /\ q.tenant = r.tenant => ListsOK(q)
  BY <1>2 DEF Good, ListsOK, Follows
<1>7. q.tenant = r.tenant /\ ~ Identifies(r.does[r.pc]) => TargetOK(q)
  BY <1>2 DEF Good, TargetOK, Follows
<1> QED  BY <1>3, <1>4, <1>5, <1>6, <1>7

-----------------------------------------------------------------------------
(* What a statement reads, lists and writes.                                 *)

\* A row that a select shows to a request is of its tenant, of its caller, or
\* one that a platform administrator may see.
LEMMA ShownRows ==
    ASSUME NEW c, NEW r, NEW g, IsRequest(c, r), Tells(r, g), NEW table,
           NEW row \in Permitted(g, table, "select", Rows(table))
    PROVE  /\ row.tenant \in Tenants
           /\ \/ row.tenant \in Entitled(r) /\ g.tenant = row.tenant
              \/ table = "tenant_members" /\ r.caller # None
                   /\ r.caller \in {row.user, row.email}
              \/ table \in PlatformTables /\ r.caller \in PlatformAdmins
<1>1. row \in Rows(table) /\ \E clause \in Clauses(table, "select") : Satisfies(clause, g, row)
  BY DEF Permitted
<1>2. /\ row.tenant \in Tenants
      /\ row.user \in Users \cup {None} /\ row.email \in Users \cup {None}
  BY <1>1, StoredRows
<1>3. \/ g.tenant = row.tenant
      \/ table = "tenant_members" /\ (g.user = row.user \/ g.email = row.email)
      \/ table \in PlatformTables /\ g.user \in PlatformAdmins
  BY <1>1, ReadPolicies
<1> QED  BY <1>2, <1>3, IsolationAssumption DEF Tells

\* A list is of the one tenant, but the page of the members.
LEMMA ListedRows ==
    ASSUME NEW c, NEW r, NEW g, IsRequest(c, r), Tells(r, g), TargetOK(r),
           r.kind \in {"tenant", "slug"}, r.pc \in 1 .. Len(r.does),
           r.does[r.pc].do = "list"
    PROVE  LET s == r.does[r.pc]
               own == {y \in Rows(s.on) : y.tenant = r.tenant}
               found == {row \in Permitted(g, s.on, "select", Rows(s.on)) :
                            Matches(r, s.by, row)} IN
           /\ \E j \in 1 .. (r.pc - 1) : SetsTenant(r.does[j])
           /\ IF r.name # "list_members" THEN found = own
              ELSE /\ own \subseteq found
                   /\ \A y \in found \ own : r.caller \in {y.user, y.email} \cup PlatformAdmins
<1> DEFINE s == r.does[r.pc]
           own == {y \in Rows(s.on) : y.tenant = r.tenant}
           shown == Permitted(g, s.on, "select", Rows(s.on))
           found == {row \in shown : Matches(r, s.by, row)}
<1>1. Scoped(r.does, r.pc) /\ Narrows(r.name, r.does, r.pc)
        /\ (r.name = "list_members" => s.on = "tenant_members")
  BY DEF IsRequest, InOrder
<1>2. g.tenant = r.tenant /\ r.tenant \in Entitled(r)
  BY <1>1 DEF Tells
<1>3. \A row \in shown : row \in Rows(s.on)
  BY DEF Permitted
<1>4. \A row \in own : row \in shown
  BY <1>2, OwnRowsAreShown DEF Permitted
<1>5. CASE s.by = "tenant"
  <2>1. \A row : Matches(r, s.by, row) <=> row.tenant = r.tenant
    BY <1>5 DEF Matches
  <2>2. found = own
    BY <1>3, <1>4, <2>1
  <2> QED  BY <1>1, <2>2 DEF Scoped
<1>6. CASE s.by \in {"id", "id and tenant"}
             /\ \E j \in 1 .. (r.pc - 1) : Scoped(r.does, j) /\ Identifies(r.does[j])
  <2>1. r.target = r.tenant
    BY <1>6 DEF TargetOK
  <2>2. \A row : Matches(r, s.by, row) <=> row.tenant = r.tenant
    BY <1>6, <2>1 DEF Matches
  <2>3. found = own
    BY <1>3, <1>4, <2>2
  <2> QED  BY <1>1, <2>3 DEF Scoped
<1>7. CASE s.by = "any" /\ s.on \notin PlatformTables
  <2>1. found = shown
    BY <1>7 DEF Matches
  <2>2. "tenant_members" \in PlatformTables
    BY DEF PlatformTables
  <2>3. \A row \in shown : row.tenant = r.tenant
    BY <1>2, <1>7, <2>2, ShownRows
  <2>4. found = own
    BY <1>3, <1>4, <2>1, <2>3
  <2> QED  BY <1>1, <2>4 DEF Scoped
<1>8. CASE s.by = "any" /\ r.name = "list_members"
  <2>1. found = shown
    BY <1>8 DEF Matches
  <2>2. \A row \in shown : row \in own \/ r.caller \in {row.user, row.email} \cup PlatformAdmins
    BY <1>2, <1>3, ShownRows
  <2> QED  BY <1>1, <1>4, <1>8, <2>1, <2>2 DEF Scoped
<1> QED  BY <1>1, <1>5, <1>6, <1>7, <1>8 DEF Narrows

\* A row that may be written, and is stored or loaded, is of the tenant.
LEMMA WrittenRows ==
    ASSUME NEW c, NEW r, NEW g, IsRequest(c, r), Tells(r, g), NEW table, NEW rows,
           NEW cmd \in {"insert", "update", "delete"},
           NEW row \in Permitted(g, table, cmd, rows),
           row.tenant \in Tenants \cup {r.tenant}
    PROVE  row.tenant \in Entitled(r)
<1>1. g.tenant = row.tenant
  BY WritePolicies DEF Permitted
<1>2. r.tenant \in {None} \cup Entitled(r)
  BY DEF IsRequest
<1>3. Entitled(r) \subseteq Tenants
  BY EntitledTenants
<1> QED  BY <1>1, <1>2, <1>3, IsolationAssumption DEF Tells

-----------------------------------------------------------------------------
(* The steps.                                                                *)

\* A step of one request that leaves the connections alone.
LEMMA RequestOnly ==
    ASSUME Inv, NEW c \in Clients, NEW q, Good(c, q, holder, settings),
           request' = [request EXCEPT ![c] = q], UNCHANGED <<settings, holder>>
    PROVE  Inv'
<1>1. /\ request' = [d \in Clients |-> request'[d]] /\ request'[c] = q
      /\ \A d \in Clients \ {c} : request'[d] = request[d]
  BY DEF Inv, Typed
<1>2. Typed' /\ IdleIsClean'
  BY <1>1 DEF Inv, Typed, IdleIsClean
<1>3. \A d \in Clients \ {c} : Good(d, request'[d], holder', settings')
  BY <1>1, OthersStay
<1> QED  BY <1>1, <1>2, <1>3 DEF Inv

\* A request that is answered an error.
LEMMA Stops ==
    ASSUME Inv, NEW c \in Clients, NEW status \in {"error", "not found", "forbidden", "conflict"},
           request[c] # None, Stop(c, status), UNCHANGED <<settings, holder>>
    PROVE  Inv'
<1>1. Good(c, [request[c] EXCEPT !.status = status], holder, settings)
  BY StopStays DEF Inv
<1>2. request' = [request EXCEPT ![c] = [request[c] EXCEPT !.status = status]]
  BY DEF Stop, Inv, Typed
<1> QED  BY <1>1, <1>2, RequestOnly

\* What a client about to execute a statement is like.
LEMMA AtStatement ==
    ASSUME Inv, NEW c \in Clients, NEW kinds, At(c, kinds)
    PROVE  LET r == request[c] IN
           /\ r # None /\ Good(c, r, holder, settings) /\ IsRequest(c, r) /\ ~ Ended(r)
           /\ r.conn # None /\ r.conn \in Connections /\ holder[r.conn] = c
           /\ r.does[r.pc].do \in kinds /\ r.pc \in 1 .. Len(r.does)
           /\ DOMAIN r = Fields /\ r = [x \in Fields |-> r[x]]
<1> DEFINE r == request[c]
<1>1. r # None /\ ~ Ended(r) /\ r.conn # None /\ r.does[r.pc].do \in kinds
  BY DEF At
<1>2. Good(c, r, holder, settings) /\ IsRequest(c, r) /\ holder[r.conn] = c
  BY <1>1 DEF Inv, Good
<1>3. r.pc \in 1 .. Len(r.does)
  <2>1. ~ r.pc > Len(r.does)
    BY <1>1 DEF Ended
  <2>2. r.pc \in Nat \ {0} /\ Len(r.does) \in Nat
    BY <1>2 DEF IsRequest, InOrder
  <2> HIDE DEF r
  <2> QED  BY <2>1, <2>2
<1> QED  BY <1>1, <1>2, <1>3 DEF IsRequest, Connections

\* A statement that changes nothing but the request's place.
LEMMA ProceedsInv ==
    ASSUME Inv, NEW c \in Clients, NEW kinds, At(c, kinds),
           kinds \cap {"set", "resolve", "commit", "accept", "load"} = {},
           Proceed(c, request[c]), UNCHANGED <<settings, holder>>
    PROVE  Inv'
<1> DEFINE r == request[c]
           q == [r EXCEPT !.pc = @ + 1]
<1>1. /\ r # None /\ Good(c, r, holder, settings) /\ IsRequest(c, r) /\ ~ Ended(r)
      /\ r.conn # None /\ holder[r.conn] = c /\ r.does[r.pc].do \in kinds
      /\ DOMAIN r = Fields /\ r = [x \in Fields |-> r[x]]
  BY AtStatement
<1>2. /\ Follows(r, q) /\ q.tenant = r.tenant /\ q.conn = r.conn /\ q.reads = r.reads
      /\ q.writes = r.writes /\ q.loaded = r.loaded /\ q.listed = r.listed
  BY <1>1 DEF Follows, Fields
<1> HIDE DEF q
<1>3. /\ Entitled(q) = Entitled(r) /\ IsRequest(c, q)
      /\ ~ Ended(q) => Tells(q, settings[q.conn])
  BY <1>1, <1>2, Advances
<1>4. ReadsOK(q) /\ WritesOK(q) /\ LoadedOK(q) /\ ListsOK(q) /\ TargetOK(q)
  BY <1>1, <1>2, <1>3, ContentStays DEF Identifies
<1>5. Good(c, q, holder, settings)
  BY <1>1, <1>2, <1>3, <1>4 DEF Good
<1>6. request' = [request EXCEPT ![c] = q]
  BY DEF Proceed, q
<1> QED  BY <1>5, <1>6, RequestOnly

\* The rows of a tagged result.
LEMMA TaggedRows ==
    ASSUME NEW table, NEW rows
    PROVE  /\ {x.row : x \in Tagged(table, rows)} = rows
           /\ \A x \in Tagged(table, rows) : x.on = table /\ x.row \in rows
<1>1. \A x \in Tagged(table, rows) : x.on = table /\ x.row \in rows
  BY DEF Tagged
<1>2. \A y \in rows : \E x \in Tagged(table, rows) : x.row = y
  <2> SUFFICES ASSUME NEW y \in rows PROVE \E x \in Tagged(table, rows) : x.row = y
    OBVIOUS
  <2>1. [on |-> table, row |-> y] \in Tagged(table, rows)
    BY DEF Tagged
  <2>2. [on |-> table, row |-> y].row = y
    OBVIOUS
  <2> QED  BY <2>1, <2>2
<1> QED  BY <1>1, <1>2

\* SELECT.
LEMMA ReadInv == ASSUME Inv, NEW c \in Clients, Read(c) PROVE Inv'
<1> DEFINE r == request[c]
           s == r.does[r.pc]
           g == settings[r.conn]
           rows == Tagged(s.on, Found(c))
<1>1. /\ r # None /\ Good(c, r, holder, settings) /\ IsRequest(c, r) /\ ~ Ended(r)
      /\ r.conn # None /\ holder[r.conn] = c /\ s.do \in {"select", "list", "load"}
      /\ r.pc \in 1 .. Len(r.does) /\ s = Current(c) /\ g = Context(c)
      /\ DOMAIN r = Fields /\ r = [x \in Fields |-> r[x]]
      /\ UNCHANGED <<settings, holder>>
  BY AtStatement DEF Read, Current, Context
<1>6. r.pc \in Nat \ {0}
        /\ r.does[r.pc].do \notin {"set", "resolve", "commit", "accept"}
  BY <1>1
<1>7. Found(c) = {row \in Permitted(g, s.on, "select", Rows(s.on)) : Matches(r, s.by, row)}
  BY DEF Found, Current, Context
<1>2. CASE Stop(c, "error") \/ Stop(c, "not found")
  BY <1>1, <1>2, Stops
<1>3. ASSUME NEW q, request' = [request EXCEPT ![c] = q], s.do = "load" => rows # {},
             q = [r EXCEPT !.pc = @ + 1, !.reads = r.reads \cup rows,
                           !.loaded = IF s.do = "load" THEN r.loaded \cup rows ELSE r.loaded,
                           !.listed = IF s.do = "list" THEN rows ELSE r.listed]
      PROVE  Inv'
  <2>1. /\ Follows(r, q) /\ q.tenant = r.tenant /\ q.conn = r.conn /\ q.writes = r.writes
        /\ q.reads = r.reads \cup rows
        /\ q.loaded = IF s.do = "load" THEN r.loaded \cup rows ELSE r.loaded
        /\ q.listed = IF s.do = "list" THEN rows ELSE r.listed
    BY <1>1, <1>3 DEF Follows, Fields
  <2>2. /\ Entitled(q) = Entitled(r) /\ IsRequest(c, q) /\ Tells(r, g)
        /\ ~ Ended(q) => Tells(q, settings[q.conn])
    <3> HIDE DEF r, rows
    <3> QED  BY <1>1, <1>6, <2>1, Advances
  <2>3. \A x \in rows : /\ x.on = s.on /\ x.row \in Permitted(g, s.on, "select", Rows(s.on))
                        /\ Matches(r, s.by, x.row)
    <3>1. \A x \in rows : x.on = s.on /\ x.row \in Found(c)
      BY TaggedRows
    <3> QED  BY <1>7, <3>1
  <2>4. \A x \in rows : /\ x.row.tenant \in Tenants
                        /\ \/ x.row.tenant \in Entitled(r) /\ g.tenant = x.row.tenant
                           \/ x.on = "tenant_members" /\ r.caller # None
                                /\ r.caller \in {x.row.user, x.row.email}
                           \/ x.on \in PlatformTables /\ r.caller \in PlatformAdmins
    <3> SUFFICES ASSUME NEW x \in rows
                 PROVE  /\ x.row.tenant \in Tenants
                        /\ \/ x.row.tenant \in Entitled(r) /\ g.tenant = x.row.tenant
                           \/ x.on = "tenant_members" /\ r.caller # None
                                /\ r.caller \in {x.row.user, x.row.email}
                           \/ x.on \in PlatformTables /\ r.caller \in PlatformAdmins
      OBVIOUS
    <3>1. x.on = s.on /\ x.row \in Permitted(g, s.on, "select", Rows(s.on))
      BY <2>3
    <3> HIDE DEF r, rows
    <3> QED  BY <1>1, <2>2, <3>1, ShownRows
  <2>11. {y.row : y \in rows} = Found(c)
    BY TaggedRows
  <2> HIDE DEF rows
  <2>5. ReadsOK(q)
    BY <1>1, <2>1, <2>2, <2>4 DEF Good, ReadsOK, Follows
  <2>6. WritesOK(q)
    BY <1>1, <2>1, <2>2, ContentStays
  <2>7. LoadedOK(q)
    <3>1. CASE s.do # "load"
      BY <1>1, <2>1, <2>2, <3>1, ContentStays
    <3>2. CASE s.do = "load"
      <4>1. r.name = "accept_invite" => s.by = "invited"
        BY <1>1, <3>2 DEF IsRequest, InOrder
      <4>2. \A x \in rows : r.name = "accept_invite" => x.row.email = r.caller
        BY <2>3, <4>1 DEF Matches
      <4> QED  BY <1>1, <2>1, <2>4, <3>2, <4>2 DEF Good, LoadedOK, Follows
    <3> QED  BY <3>1, <3>2
  <2>8. TargetOK(q)
    <3>1. CASE ~ Identifies(s)
      <4>1. ~ Identifies(r.does[r.pc])
        BY <1>1, <3>1
      <4> QED  BY <1>1, <2>1, <2>2, <4>1, ContentStays
    <3>2. CASE Identifies(s) /\ Scoped(r.does, r.pc)
      <4>1. PICK x \in rows : TRUE
        BY <1>3, <3>2 DEF Identifies
      <4>2. g.tenant = r.tenant
        BY <2>2, <3>2 DEF Tells
      <4>3. CASE s.by = "id and tenant"
        BY <2>1, <2>3, <4>1, <4>3 DEF Matches, TargetOK, Follows
      <4>4. CASE s.by = "id" /\ s.on \notin PlatformTables
        <5>1. x.row.tenant = r.target
          BY <2>3, <4>1, <4>4 DEF Matches
        <5>2. x.row.tenant = g.tenant
          BY <2>3, <2>4, <4>1, <4>4 DEF PlatformTables
        <5> QED  BY <2>1, <4>2, <5>1, <5>2 DEF TargetOK, Follows
      <4> QED  BY <3>2, <4>3, <4>4 DEF Identifies
    <3>3. CASE ~ Scoped(r.does, r.pc)
      <4>1. \A j \in 1 .. (q.pc - 1) : j \in 1 .. (r.pc - 1) \/ j = r.pc
        BY <1>6, <2>1 DEF Follows
      <4> QED  BY <1>1, <2>1, <3>3, <4>1 DEF Good, TargetOK, Follows
    <3> QED  BY <3>1, <3>2, <3>3
  <2>9. ListsOK(q)
    <3>1. CASE s.do # "list"
      BY <1>1, <2>1, <2>2, <3>1, ContentStays
    <3>2. CASE s.do = "list" /\ r.kind \in {"tenant", "slug"}
      <4> DEFINE own == {y \in Rows(s.on) : y.tenant = r.tenant}
      <4>1. /\ \E j \in 1 .. (r.pc - 1) : SetsTenant(r.does[j])
            /\ IF r.name # "list_members" THEN Found(c) = own
               ELSE /\ own \subseteq Found(c)
                    /\ \A y \in Found(c) \ own :
                          r.caller \in {y.user, y.email} \cup PlatformAdmins
        <5>1. TargetOK(r) /\ r.does[r.pc].do = "list"
          BY <1>1, <3>2 DEF Good
        <5> HIDE DEF r
        <5> QED  BY <1>1, <1>7, <2>2, <3>2, <5>1, ListedRows
      <4>2. {y.row : y \in q.listed} = Found(c) /\ \A x \in q.listed : x.on = s.on
        BY <2>1, <2>3, <2>11, <3>2
      <4>3. \E j \in 1 .. (q.pc - 1) : SetsTenant(q.does[j])
        <5>1. 1 .. (r.pc - 1) \subseteq 1 .. (q.pc - 1)
          BY <1>6, <2>1 DEF Follows
        <5> QED  BY <2>1, <4>1, <5>1 DEF Follows
      <4> QED  BY <2>1, <4>1, <4>2, <4>3 DEF ListsOK, Follows
    <3>3. CASE r.kind \notin {"tenant", "slug"}
      BY <2>1, <3>3 DEF ListsOK, Follows
    <3> QED  BY <3>1, <3>2, <3>3
  <2>10. Good(c, q, holder, settings)
    BY <1>1, <2>1, <2>2, <2>5, <2>6, <2>7, <2>8, <2>9 DEF Good
  <2> QED  BY <1>1, <1>3, <2>10, RequestOnly
<1>4. \/ Stop(c, "error") \/ Stop(c, "not found")
      \/ /\ s.do = "load" => rows # {}
         /\ Proceed(c, [r EXCEPT !.reads = @ \cup rows,
                                 !.loaded = IF s.do = "load" THEN @ \cup rows ELSE @,
                                 !.listed = IF s.do = "list" THEN rows ELSE @])
  BY <1>1 DEF Read
<1>5. CASE /\ s.do = "load" => rows # {}
           /\ Proceed(c, [r EXCEPT !.reads = @ \cup rows,
                                   !.loaded = IF s.do = "load" THEN @ \cup rows ELSE @,
                                   !.listed = IF s.do = "list" THEN rows ELSE @])
  <2> DEFINE q == [r EXCEPT !.pc = @ + 1, !.reads = r.reads \cup rows,
                            !.loaded = IF s.do = "load" THEN r.loaded \cup rows ELSE r.loaded,
                            !.listed = IF s.do = "list" THEN rows ELSE r.listed]
  <2> HIDE DEF rows
  <2>1. request' = [request EXCEPT ![c] = q]
    BY <1>1, <1>5 DEF Proceed, Fields
  <2> QED  BY <1>3, <1>5, <2>1
<1> QED  BY <1>2, <1>4, <1>5

\* INSERT.
LEMMA InsertInv == ASSUME Inv, NEW c \in Clients, InsertRow(c) PROVE Inv'
<1> DEFINE r == request[c]
           s == r.does[r.pc]
           g == settings[r.conn]
           rows == Tagged(s.on, {Row(r.tenant)})
<1>1. /\ r # None /\ Good(c, r, holder, settings) /\ IsRequest(c, r) /\ ~ Ended(r)
      /\ r.conn # None /\ holder[r.conn] = c /\ s.do = "insert"
      /\ r.pc \in 1 .. Len(r.does) /\ s = Current(c) /\ g = Context(c)
      /\ DOMAIN r = Fields /\ r = [x \in Fields |-> r[x]]
      /\ UNCHANGED <<settings, holder>>
  BY AtStatement DEF InsertRow, Current, Context
<1>2. CASE Stop(c, "error")
  BY <1>1, <1>2, Stops
<1>3. CASE /\ Permitted(g, s.on, "insert", {Row(r.tenant)}) # {}
           /\ Proceed(c, [r EXCEPT !.writes = @ \cup rows, !.loaded = @ \cup rows])
  <2> DEFINE q == [r EXCEPT !.pc = @ + 1, !.writes = r.writes \cup rows,
                            !.loaded = r.loaded \cup rows]
  <2>1. request' = [request EXCEPT ![c] = q]
    <3> HIDE DEF rows
    <3> QED  BY <1>1, <1>3 DEF Proceed, Fields
  <2>2. /\ Follows(r, q) /\ q.tenant = r.tenant /\ q.conn = r.conn /\ q.reads = r.reads
        /\ q.listed = r.listed /\ q.writes = r.writes \cup rows
        /\ q.loaded = r.loaded \cup rows
    <3> HIDE DEF rows
    <3> QED  BY <1>1 DEF Follows, Fields
  <2> HIDE DEF q
  <2>3. /\ Entitled(q) = Entitled(r) /\ IsRequest(c, q) /\ Tells(r, g)
        /\ ~ Ended(q) => Tells(q, settings[q.conn])
    <3> HIDE DEF r, rows
    <3> QED  BY <1>1, <2>2, Advances
  <2>4. r.tenant \in Entitled(r)
    <3>1. Row(r.tenant).tenant = r.tenant
      BY DEF Row
    <3>2. Row(r.tenant) \in Permitted(g, s.on, "insert", {Row(r.tenant)})
      BY <1>3 DEF Permitted
    <3> HIDE DEF r, rows
    <3> QED  BY <1>1, <2>3, <3>1, <3>2, WrittenRows
  <2>5. \A x \in rows : x.row.tenant = r.tenant
    BY TaggedRows DEF Row
  <2>6. r.name # "accept_invite"
    BY <1>1 DEF IsRequest, InOrder
  <2>7. r.tenant \in Tenants
    BY <1>1, <2>4, EntitledTenants
  <2> HIDE DEF r, rows
  <2>8. WritesOK(q)
    BY <1>1, <2>2, <2>3, <2>4, <2>5 DEF Good, WritesOK, Follows
  <2>9. LoadedOK(q)
    BY <1>1, <2>2, <2>5, <2>6, <2>7 DEF Good, LoadedOK, Follows
  <2>10. ReadsOK(q) /\ ListsOK(q) /\ TargetOK(q)
    BY <1>1, <2>2, <2>3, ContentStays DEF Identifies
  <2>11. Good(c, q, holder, settings)
    BY <1>1, <2>2, <2>3, <2>8, <2>9, <2>10 DEF Good
  <2> QED  BY <1>1, <2>1, <2>11, RequestOnly
<1> QED  BY <1>1, <1>2, <1>3 DEF InsertRow

\* UPDATE and DELETE.
LEMMA WriteInv == ASSUME Inv, NEW c \in Clients, WriteRows(c) PROVE Inv'
<1> DEFINE r == request[c]
           s == r.does[r.pc]
           g == settings[r.conn]
           flush == s.do \in {"save", "discard"}
           meant == IF flush THEN Loaded(r, s.on)
                             ELSE {row \in Rows(s.on) : Matches(r, s.by, row)}
           met == Permitted(g, s.on, Command[s.do], meant)
<1>1. /\ r # None /\ Good(c, r, holder, settings) /\ IsRequest(c, r) /\ ~ Ended(r)
      /\ r.conn # None /\ holder[r.conn] = c /\ s.do \in DOMAIN Command
      /\ r.pc \in 1 .. Len(r.does) /\ s = Current(c) /\ g = Context(c)
      /\ DOMAIN r = Fields /\ r = [x \in Fields |-> r[x]]
      /\ UNCHANGED <<settings, holder>>
  BY AtStatement DEF WriteRows, Current, Context
<1>2. s.do \in {"change", "save", "delete", "discard"} /\ Command[s.do] \in {"update", "delete"}
  BY <1>1 DEF Command
<1>3. CASE Stop(c, "error")
  BY <1>1, <1>3, Stops
<1>4. CASE Proceed(c, [r EXCEPT !.writes = @ \cup Tagged(s.on, met)])
  <2> DEFINE rows == Tagged(s.on, met)
             q == [r EXCEPT !.pc = @ + 1, !.writes = r.writes \cup rows]
  <2>1. request' = [request EXCEPT ![c] = q]
    <3> HIDE DEF rows
    <3> QED  BY <1>1, <1>4 DEF Proceed, Fields, rows
  <2>2. /\ Follows(r, q) /\ q.tenant = r.tenant /\ q.conn = r.conn /\ q.reads = r.reads
        /\ q.listed = r.listed /\ q.writes = r.writes \cup rows /\ q.loaded = r.loaded
    <3> HIDE DEF rows
    <3> QED  BY <1>1 DEF Follows, Fields
  <2> HIDE DEF q
  <2>3. /\ Entitled(q) = Entitled(r) /\ IsRequest(c, q) /\ Tells(r, g)
        /\ ~ Ended(q) => Tells(q, settings[q.conn])
    <3> HIDE DEF r, rows
    <3> QED  BY <1>1, <1>2, <2>2, Advances
  <2>4. \A row \in meant : row.tenant \in Tenants
    <3>1. \A row \in Loaded(r, s.on) : row.tenant \in Tenants
      BY <1>1 DEF Loaded, Good, LoadedOK
    <3>2. \A row \in Rows(s.on) : row.tenant \in Tenants
      BY StoredRows
    <3> QED  BY <3>1, <3>2
  <2>5. \A row \in met : row.tenant \in Entitled(r)
    <3> SUFFICES ASSUME NEW row \in met PROVE row.tenant \in Entitled(r)
      OBVIOUS
    <3>1. row.tenant \in Tenants
      BY <2>4 DEF Permitted
    <3> HIDE DEF r, meant
    <3> QED  BY <1>1, <1>2, <2>3, <3>1, WrittenRows
  <2>6. \A x \in rows : x.row.tenant \in Entitled(r)
    <3>1. \A x \in rows : x.row \in met
      <4> HIDE DEF met
      <4> QED  BY TaggedRows
    <3> HIDE DEF r, rows, met
    <3> QED  BY <2>5, <3>1
  <2> HIDE DEF r, rows
  <2>7. WritesOK(q)
    BY <1>1, <2>2, <2>3, <2>6 DEF Good, WritesOK, Follows
  <2>8. ReadsOK(q) /\ LoadedOK(q) /\ ListsOK(q) /\ TargetOK(q)
    BY <1>1, <1>2, <2>2, <2>3, ContentStays, ZenonT(30) DEF Identifies
  <2>9. Good(c, q, holder, settings)
    BY <1>1, <2>2, <2>3, <2>7, <2>8 DEF Good
  <2> QED  BY <1>1, <2>1, <2>9, RequestOnly
<1> QED  BY <1>1, <1>3, <1>4 DEF WriteRows

\* The flush reads its rows again.
LEMMA RefreshInv == ASSUME Inv, NEW c \in Clients, RefreshRows(c) PROVE Inv'
<1>1. At(c, {"refresh"}) /\ UNCHANGED <<settings, holder>> /\ request[c] # None
  BY DEF RefreshRows, At
<1>2. CASE Proceed(c, request[c])
  BY <1>1, <1>2, ProceedsInv
<1>3. CASE Stop(c, "error")
  BY <1>1, <1>3, Stops
<1> QED  BY <1>2, <1>3 DEF RefreshRows

\* A reference is stored, unchecked.
LEMMA ReferInv == ASSUME Inv, NEW c \in Clients, StoreReference(c) PROVE Inv'
<1> DEFINE r == request[c]
           s == r.does[r.pc]
<1>1. /\ r # None /\ Good(c, r, holder, settings) /\ IsRequest(c, r) /\ ~ Ended(r)
      /\ r.conn # None /\ holder[r.conn] = c /\ s.do \in {"refer"}
      /\ DOMAIN r = Fields /\ r = [x \in Fields |-> r[x]]
      /\ r.pc \in 1 .. Len(r.does) /\ s = Current(c) /\ UNCHANGED <<settings, holder>>
  BY AtStatement DEF StoreReference, Current
<1>2. CASE Stop(c, s.by)
  <2>1. s.by \in {"error", "not found", "forbidden", "conflict"}
    <3>1. InOrder(r.name, r.kind, r.does)
      BY <1>1 DEF IsRequest
    <3> HIDE DEF r
    <3> QED  BY <1>1, <3>1 DEF InOrder
  <2> QED  BY <1>1, <1>2, <2>1, Stops
<1>3. ASSUME NEW rows, Proceed(c, [r EXCEPT !.refers = @ \cup Tagged(s.on, rows)])
      PROVE  Inv'
  <2> DEFINE more == r.refers \cup Tagged(s.on, rows)
             q == [r EXCEPT !.pc = @ + 1, !.refers = more]
  <2> HIDE DEF more
  <2>1. /\ Follows(r, q) /\ q.tenant = r.tenant /\ q.conn = r.conn /\ q.reads = r.reads
        /\ q.writes = r.writes /\ q.loaded = r.loaded /\ q.listed = r.listed
    BY <1>1 DEF Follows, Fields
  <2>2. request' = [request EXCEPT ![c] = q]
    BY <1>1, <1>3 DEF Proceed, Fields, more
  <2> HIDE DEF q
  <2>3. /\ Entitled(q) = Entitled(r) /\ IsRequest(c, q)
        /\ ~ Ended(q) => Tells(q, settings[q.conn])
    BY <1>1, <2>1, Advances
  <2>4. ReadsOK(q) /\ WritesOK(q) /\ LoadedOK(q) /\ ListsOK(q) /\ TargetOK(q)
    BY <1>1, <2>1, <2>3, ContentStays DEF Identifies
  <2>5. Good(c, q, holder, settings)
    BY <1>1, <2>1, <2>3, <2>4 DEF Good
  <2> QED  BY <1>1, <2>2, <2>5, RequestOnly
<1> QED  BY <1>1, <1>2, <1>3 DEF StoreReference

\* A role is required.
LEMMA RequireInv == ASSUME Inv, NEW c \in Clients, RequireRole(c) PROVE Inv'
<1>1. At(c, {"require"}) /\ UNCHANGED <<settings, holder>> /\ request[c] # None
  BY DEF RequireRole, At
<1>2. CASE Proceed(c, request[c])
  BY <1>1, <1>2, ProceedsInv
<1>3. CASE Stop(c, "forbidden")
  BY <1>1, <1>3, Stops
<1> QED  BY <1>2, <1>3 DEF RequireRole

\* The tenant is resolved to one of the caller's, before anything names one.
LEMMA ResolveInv == ASSUME Inv, NEW c \in Clients, ResolveTenant(c) PROVE Inv'
<1> DEFINE r == request[c]
           s == r.does[r.pc]
           g == settings[r.conn]
<1>1. /\ r # None /\ Good(c, r, holder, settings) /\ IsRequest(c, r) /\ ~ Ended(r)
      /\ r.conn # None /\ holder[r.conn] = c /\ s.do = "resolve"
      /\ r.pc \in 1 .. Len(r.does) /\ s = Current(c) /\ g = Context(c)
      /\ DOMAIN r = Fields /\ r = [x \in Fields |-> r[x]]
      /\ UNCHANGED <<settings, holder>>
  BY AtStatement DEF ResolveTenant, Current, Context
<1>2. CASE Stop(c, "error") \/ Stop(c, "forbidden")
  BY <1>1, <1>2, Stops
<1>3. ASSUME NEW row \in Found(c), Proceed(c, [r EXCEPT !.tenant = row.tenant]) PROVE Inv'
  <2> DEFINE q == [r EXCEPT !.pc = @ + 1, !.tenant = row.tenant]
  <2>1. request' = [request EXCEPT ![c] = q]
    BY <1>1, <1>3 DEF Proceed, Fields
  <2>2. /\ Follows(r, q) /\ q.tenant = row.tenant /\ q.conn = r.conn /\ q.reads = r.reads
        /\ q.writes = r.writes /\ q.loaded = r.loaded /\ q.listed = r.listed
    BY <1>1 DEF Follows, Fields
  <2> HIDE DEF q
  <2>3. /\ s.on = "tenant_members" /\ s.by = "own" /\ r.kind = "tenant"
        /\ \A j \in 1 .. (r.pc - 1) : ~ SetsTenant(r.does[j])
        /\ ~ SetsTenant(s) /\ r.pc \in Nat \ {0}
    <3>1. /\ s = Resolve /\ r.kind = "tenant"
          /\ \A j \in 1 .. (r.pc - 1) : ~ SetsTenant(r.does[j])
      BY <1>1 DEF IsRequest, InOrder
    <3>2. s.on = "tenant_members" /\ s.by = "own" /\ s.do = "resolve"
      BY <3>1 DEF Resolve, Statement
    <3>3. ~ SetsTenant(s)
      BY <3>2 DEF SetsTenant
    <3>4. r.pc \in Nat \ {0}
      BY <1>1 DEF IsRequest
    <3> QED  BY <3>1, <3>2, <3>3, <3>4
  <2>4. row \in Memberships /\ Own(r, row)
    BY <1>1, <2>3 DEF Found, Permitted, Rows, Matches
  <2>5. row.tenant \in Entitled(r)
    BY <2>3, <2>4, IsolationAssumption DEF Own, Entitled, TenantsOf, TenantMember
  <2>6. Entitled(q) = Entitled(r)
    BY <2>2 DEF Entitled, Follows
  <2>7. \A j \in 1 .. (q.pc - 1) : j \in 1 .. (r.pc - 1) \/ j = r.pc
    BY <2>2, <2>3 DEF Follows
  <2>8. \A j \in 1 .. (q.pc - 1) : ~ SetsTenant(q.does[j])
    BY <2>2, <2>3, <2>7 DEF Follows
  <2>9. IsRequest(c, q)
    <3>1. q.tenant \in Entitled(q) /\ q.pc \in Nat \ {0}
      BY <2>2, <2>3, <2>5, <2>6 DEF Follows
    <3> HIDE DEF r
    <3> QED  BY <1>1, <2>2, <2>3, <3>1 DEF IsRequest, Follows
  <2>10. ~ Scoped(q.does, q.pc) /\ \A j \in 1 .. (q.pc - 1) : ~ Scoped(q.does, j)
    BY <2>2, <2>3, <2>8 DEF Scoped, Follows
  <2>11. ~ Ended(q) /\ q.conn # None => Tells(q, settings[q.conn])
    BY <1>1, <2>2, <2>6, <2>10 DEF Good, Tells, Follows
  <2>12. ReadsOK(q) /\ WritesOK(q) /\ LoadedOK(q) /\ TargetOK(q)
    BY <1>1, <2>2, <2>6, <2>10, ContentStays DEF TargetOK
  <2>13. ListsOK(q)
    <3>1. r.listed = {}
      BY <1>1, <2>3 DEF Good, ListsOK
    <3> QED  BY <2>2, <3>1 DEF ListsOK
  <2>14. Good(c, q, holder, settings)
    BY <1>1, <2>2, <2>9, <2>11, <2>12, <2>13 DEF Good
  <2> QED  BY <1>1, <2>1, <2>14, RequestOnly
<1> QED  BY <1>1, <1>2, <1>3 DEF ResolveTenant

\* A step of one client that changes its own connection, or takes an idle one.
LEMMA OneClient ==
    ASSUME Inv, NEW c \in Clients, NEW q, NEW n \in Connections, NEW h \in {c, None},
           NEW v \in [{"tenant", "user", "email"} -> Values],
           holder[n] \in {c, None},
           h = None => \A x \in {"tenant", "user", "email"} : v[x] \in {"unset", ""},
           request' = [request EXCEPT ![c] = q],
           settings' = [settings EXCEPT ![n] = v],
           holder' = [holder EXCEPT ![n] = h],
           Good(c, q, holder', settings')
    PROVE  Inv'
<1>1. /\ request' = [d \in Clients |-> request'[d]] /\ request'[c] = q
      /\ \A d \in Clients \ {c} : request'[d] = request[d]
  BY DEF Inv, Typed
<1>2. /\ settings' \in [Connections -> [{"tenant", "user", "email"} -> Values]]
      /\ holder' \in [Connections -> Clients \cup {None}]
      /\ settings'[n] = v /\ holder'[n] = h
      /\ \A m \in Connections \ {n} : settings'[m] = settings[m] /\ holder'[m] = holder[m]
  BY DEF Inv, Typed
<1>3. \A m \in Connections : holder[m] \in Clients \ {c} =>
        holder'[m] = holder[m] /\ settings'[m] = settings[m]
  <2>1. holder[n] \notin Clients \ {c}
    BY IsolationAssumption
  <2> QED  BY <1>2, <2>1
<1>4. Typed' /\ IdleIsClean'
  BY <1>1, <1>2 DEF Inv, Typed, IdleIsClean
<1>5. \A d \in Clients \ {c} : Good(d, request'[d], holder', settings')
  BY <1>1, <1>3, OthersStay
<1> QED  BY <1>1, <1>4, <1>5 DEF Inv

\* set_config: the tenant is the request's, once that is known.
LEMMA SetInv == ASSUME Inv, NEW c \in Clients, SetConfig(c) PROVE Inv'
<1> DEFINE r == request[c]
           s == r.does[r.pc]
           n == r.conn
           g == settings[n]
           x == IF s.on = "tenant" THEN r.tenant ELSE r.caller
           v == [g EXCEPT ![s.on] = x]
           q == [r EXCEPT !.pc = @ + 1]
<1>1. /\ r # None /\ Good(c, r, holder, settings) /\ IsRequest(c, r) /\ ~ Ended(r)
      /\ n # None /\ n \in Connections /\ holder[n] = c /\ s.do = "set"
      /\ r.pc \in 1 .. Len(r.does) /\ s = Current(c) /\ g = Context(c)
      /\ DOMAIN r = Fields /\ r = [y \in Fields |-> r[y]]
  BY AtStatement DEF SetConfig, Current, Context
<1>2. /\ settings' = [settings EXCEPT ![n] = v] /\ holder' = [holder EXCEPT ![n] = c]
      /\ request' = [request EXCEPT ![c] = q] /\ holder' = holder
  BY <1>1 DEF SetConfig, Proceed, Current, Inv, Typed
<1>3. /\ Follows(r, q) /\ q.tenant = r.tenant /\ q.conn = r.conn /\ q.reads = r.reads
      /\ q.writes = r.writes /\ q.loaded = r.loaded /\ q.listed = r.listed
  BY <1>1 DEF Follows, Fields
<1> HIDE DEF q
<1>4. /\ s.on # "tenant" => r.caller \in Users
      /\ s.on = "tenant" => r.tenant \in Entitled(r)
  BY <1>1 DEF IsRequest, InOrder, SetsTenant
<1>5. /\ Entitled(q) = Entitled(r) /\ IsRequest(c, q)
      /\ \A j \in 1 .. (q.pc - 1) : j \in 1 .. (r.pc - 1) \/ j = r.pc
      /\ 1 .. (r.pc - 1) \subseteq 1 .. (q.pc - 1)
  <2> HIDE DEF r
  <2> QED  BY <1>1, <1>3, SameRequest
<1>6. /\ Tells(r, g) /\ g \in [{"tenant", "user", "email"} -> Values]
      /\ Entitled(r) \subseteq Tenants
  BY <1>1, EntitledTenants DEF Good, Inv, Typed
<1>7. v \in [{"tenant", "user", "email"} -> Values]
  BY <1>4, <1>6 DEF Values
<1>8. /\ s.on = "tenant" => v.tenant = r.tenant /\ v.user = g.user /\ v.email = g.email
      /\ s.on # "tenant" => /\ v.tenant = g.tenant
                            /\ v.user \in {g.user, r.caller} /\ v.email \in {g.email, r.caller}
  BY <1>6
<1>9. Scoped(q.does, q.pc) /\ s.on # "tenant" => Scoped(r.does, r.pc)
  BY <1>3, <1>5 DEF Scoped, SetsTenant, Follows
<1> HIDE DEF r, v
<1>10. Tells(q, v)
  BY <1>3, <1>4, <1>5, <1>6, <1>8, <1>9, IsolationAssumption DEF Tells, Follows
<1>11. settings'[q.conn] = v
  BY <1>1, <1>2, <1>3 DEF Inv, Typed
<1>12. ReadsOK(q) /\ WritesOK(q) /\ LoadedOK(q) /\ ListsOK(q) /\ TargetOK(q)
  BY <1>1, <1>3, <1>5, ContentStays DEF Identifies
<1>13. Good(c, q, holder', settings')
  BY <1>1, <1>2, <1>3, <1>5, <1>10, <1>11, <1>12 DEF Good
<1> QED  BY <1>1, <1>2, <1>7, <1>13, OneClient, IsolationAssumption

\* accept_invite ends with its invitations, whatever tenant it leaves set.
LEMMA AcceptInv == ASSUME Inv, NEW c \in Clients, AcceptInvitations(c) PROVE Inv'
<1> DEFINE r == request[c]
           s == r.does[r.pc]
           n == r.conn
           g == settings[n]
           q == [r EXCEPT !.pc = @ + 1, !.writes = r.writes \cup r.loaded]
<1>1. /\ r # None /\ Good(c, r, holder, settings) /\ IsRequest(c, r) /\ ~ Ended(r)
      /\ n # None /\ n \in Connections /\ holder[n] = c /\ s.do = "accept"
      /\ r.pc \in 1 .. Len(r.does) /\ s = Current(c) /\ g = Context(c)
      /\ DOMAIN r = Fields /\ r = [y \in Fields |-> r[y]] /\ UNCHANGED holder
  BY AtStatement DEF AcceptInvitations, Current, Context
<1>2. PICK last \in Loaded(r, "tenant_members") :
        /\ settings' = [settings EXCEPT ![n] = [g EXCEPT !.tenant = last.tenant]]
        /\ \/ Proceed(c, [r EXCEPT !.writes = @ \cup r.loaded])
           \/ Stop(c, "error")
  BY <1>1 DEF AcceptInvitations
<1>3. last.tenant \in Tenants
  BY <1>1, <1>2 DEF Loaded, Good, LoadedOK
<1>4. [g EXCEPT !.tenant = last.tenant] \in [{"tenant", "user", "email"} -> Values]
  BY <1>1, <1>3 DEF Inv, Typed, Values
<1>5. holder' = [holder EXCEPT ![n] = c]
  BY <1>1 DEF Inv, Typed
<1>6. CASE Stop(c, "error")
  <2> DEFINE p == [r EXCEPT !.status = "error"]
  <2>1. Good(c, p, holder', settings')
    BY <1>1, StopStays
  <2>2. request' = [request EXCEPT ![c] = p]
    BY <1>6 DEF Stop, Inv, Typed
  <2> HIDE DEF p
  <2> QED  BY <1>1, <1>2, <1>4, <1>5, <2>1, <2>2, OneClient, IsolationAssumption
<1>7. CASE Proceed(c, [r EXCEPT !.writes = @ \cup r.loaded])
  <2>1. request' = [request EXCEPT ![c] = q]
    BY <1>1, <1>7 DEF Proceed, Fields
  <2>2. /\ Follows(r, q) /\ q.tenant = r.tenant /\ q.conn = r.conn /\ q.reads = r.reads
        /\ q.writes = r.writes \cup r.loaded /\ q.loaded = r.loaded /\ q.listed = r.listed
    BY <1>1 DEF Follows, Fields
  <2> HIDE DEF q
  <2>3. r.name = "accept_invite" /\ r.pc = Len(r.does) /\ r.pc \in Nat
    BY <1>1 DEF IsRequest, InOrder
  <2> HIDE DEF r
  <2>4. Entitled(q) = Entitled(r) /\ IsRequest(c, q)
    BY <1>1, <2>2, SameRequest
  <2>5. Ended(q)
    BY <2>2, <2>3 DEF Ended, Follows
  <2>6. WritesOK(q)
    BY <1>1, <2>2, <2>3, <2>4 DEF Good, WritesOK, LoadedOK, Follows
  <2>7. ReadsOK(q) /\ LoadedOK(q) /\ ListsOK(q) /\ TargetOK(q)
    BY <1>1, <2>2, <2>4, ContentStays DEF Identifies
  <2>8. Good(c, q, holder', settings')
    BY <1>1, <2>2, <2>4, <2>5, <2>6, <2>7 DEF Good
  <2> QED  BY <1>1, <1>2, <1>4, <1>5, <2>1, <2>8, OneClient, IsolationAssumption
<1> QED  BY <1>2, <1>6, <1>7

\* A new connection.
LEMMA FreshSettings == Fresh \in [{"tenant", "user", "email"} -> {"unset", ""}]
<1>1. Fresh \in [{"tenant", "user", "email"} -> {"unset"}]
  BY DEF Fresh
<1> QED  BY <1>1

\* What a connection tells when it has been given back.
Returned(c, n) == IF n = c THEN Fresh ELSE AtEnd(settings[n])

\* The end of a transaction leaves nothing on the connection.
LEMMA ReleaseInv ==
    ASSUME Inv, NEW c \in Clients, request[c] # None, request[c].conn # None,
           Release(c), NEW q, request' = [request EXCEPT ![c] = q],
           \A h, g : Good(c, q, h, g)
    PROVE  Inv'
<1> DEFINE n == request[c].conn
           v == Returned(c, n)
<1>1. n \in Connections /\ holder[n] = c
  BY DEF Inv, Good, IsRequest, Connections
<1>2. settings[n] \in [{"tenant", "user", "email"} -> Values]
  BY <1>1 DEF Inv, Typed
<1>3. /\ v \in [{"tenant", "user", "email"} -> Values]
      /\ \A x \in {"tenant", "user", "email"} : v[x] \in {"unset", ""}
  <2>1. Fresh \in [{"tenant", "user", "email"} -> {"unset", ""}]
    BY FreshSettings
  <2>2. DOMAIN settings[n] = {"tenant", "user", "email"}
    BY <1>2
  <2>3. AtEnd(settings[n]) \in [{"tenant", "user", "email"} -> {"unset", ""}]
    BY <2>2 DEF AtEnd
  <2>4. v \in [{"tenant", "user", "email"} -> {"unset", ""}]
    BY <2>1, <2>3 DEF Returned
  <2> HIDE DEF v
  <2> QED  BY <2>4 DEF Values
<1>4. /\ settings' = [settings EXCEPT ![n] = v]
      /\ holder' = [holder EXCEPT ![n] = None]
  BY DEF Release, Returned
<1>5. Good(c, q, holder', settings')
  OBVIOUS
<1> HIDE DEF n, v
<1> QED  BY <1>1, <1>3, <1>4, <1>5, OneClient

\* Rolled back by a rule of the endpoint.
LEMMA RefuseInv == ASSUME Inv, NEW c \in Clients, Refuse(c) PROVE Inv'
<1>1. /\ request[c] # None /\ ~ request[c].committed /\ Release(c)
      /\ request' = [request EXCEPT ![c] = None]
  BY DEF Refuse
<1>2. request[c].conn # None
  BY <1>1 DEF Inv, Good, IsRequest
<1>3. \A h, g : Good(c, None, h, g)
  BY DEF Good
<1> QED  BY <1>1, <1>2, <1>3, ReleaseInv

\* Answered.
LEMMA AnswerInv == ASSUME Inv, NEW c \in Clients, Answer(c) PROVE Inv'
<1>1. request[c] # None /\ request' = [request EXCEPT ![c] = None]
  BY DEF Answer
<1>2. \A h, g : Good(c, None, h, g)
  BY DEF Good
<1>3. CASE request[c].conn = None
  BY <1>1, <1>2, <1>3, RequestOnly DEF Answer
<1>4. CASE request[c].conn # None
  BY <1>1, <1>2, <1>4, ReleaseInv DEF Answer
<1> QED  BY <1>3, <1>4

\* A commit before the end leaves the request without a connection.
LEMMA CommitInv == ASSUME Inv, NEW c \in Clients, CommitEarly(c) PROVE Inv'
<1> DEFINE r == request[c]
           q == [r EXCEPT !.pc = @ + 1, !.conn = None, !.committed = TRUE]
<1>1. /\ r # None /\ Good(c, r, holder, settings) /\ IsRequest(c, r) /\ ~ Ended(r)
      /\ r.conn # None /\ r.does[r.pc].do = "commit" /\ r.pc \in 1 .. Len(r.does)
      /\ DOMAIN r = Fields /\ r = [y \in Fields |-> r[y]]
  BY AtStatement DEF CommitEarly
<1>2. Release(c) /\ request' = [request EXCEPT ![c] = q]
  BY <1>1 DEF CommitEarly, Proceed, Fields
<1>3. /\ Follows(r, q) /\ q.tenant = r.tenant /\ q.conn = None /\ q.committed
      /\ q.reads = r.reads
      /\ q.writes = r.writes /\ q.loaded = r.loaded /\ q.listed = r.listed
  BY <1>1 DEF Follows, Fields
<1> HIDE DEF q
<1>4. Entitled(q) = Entitled(r) /\ r.pc \in Nat \ {0}
  BY <1>1, <1>3 DEF Entitled, Follows, IsRequest
<1>5. /\ \A j \in 1 .. (q.pc - 1) : j \in 1 .. (r.pc - 1) \/ j = r.pc
      /\ r.pc \in 1 .. (q.pc - 1) /\ q.pc \in Nat \ {0}
  BY <1>3, <1>4 DEF Follows
<1>6. IsRequest(c, q)
  <2>1. \E j \in 1 .. (q.pc - 1) : q.does[j].do = "commit"
    BY <1>1, <1>3, <1>5 DEF Follows
  <2>2. q.kind = "tenant" /\ (\E j \in 1 .. (q.pc - 1) : q.does[j].do = "resolve")
          => q.tenant \in Entitled(q)
    <3>1. r.kind = "tenant" /\ (\E j \in 1 .. (r.pc - 1) : r.does[j].do = "resolve")
            => r.tenant \in Entitled(r)
      BY <1>1 DEF IsRequest
    <3> HIDE DEF r
    <3> QED  BY <1>1, <1>3, <1>4, <1>5, <3>1 DEF Follows
  <2> HIDE DEF r
  <2> QED  BY <1>1, <1>3, <1>4, <1>5, <2>1, <2>2 DEF IsRequest, Follows
<1>7. ReadsOK(q) /\ WritesOK(q) /\ LoadedOK(q) /\ ListsOK(q) /\ TargetOK(q)
  BY <1>1, <1>3, <1>4, ContentStays DEF Identifies
<1>8. \A h, g : Good(c, q, h, g)
  BY <1>3, <1>6, <1>7 DEF Good
<1> QED  BY <1>1, <1>2, <1>8, ReleaseInv

\* The statement after the commit runs on a connection that tells nothing.
LEMMA BorrowInv == ASSUME Inv, NEW c \in Clients, Borrow(c) PROVE Inv'
<1> DEFINE r == request[c]
<1>1. r # None /\ ~ Ended(r) /\ r.conn = None /\ UNCHANGED settings
  BY DEF Borrow
<1>2. PICK n \in Pool : /\ holder[n] = None
                        /\ holder' = [holder EXCEPT ![n] = c]
                        /\ request' = [request EXCEPT ![c].conn = n]
  BY DEF Borrow
<1> DEFINE q == [r EXCEPT !.conn = n]
<1>3. Good(c, r, holder, settings) /\ IsRequest(c, r)
  BY <1>1 DEF Inv, Good
<1>4. /\ DOMAIN q = Fields /\ q = [x \in Fields |-> q[x]] /\ q.status = r.status
      /\ q.name = r.name /\ q.kind = r.kind /\ q.does = r.does /\ q.caller = r.caller
      /\ q.at = r.at /\ q.target = r.target /\ q.tenant = r.tenant /\ q.pc = r.pc
      /\ q.conn = n /\ q.loaded = r.loaded /\ q.listed = r.listed /\ q.reads = r.reads
      /\ q.writes = r.writes
  BY <1>3 DEF IsRequest, Fields
<1>5. request' = [request EXCEPT ![c] = q] /\ settings' = [settings EXCEPT ![n] = settings[n]]
  BY <1>1, <1>2 DEF Inv, Typed
<1> HIDE DEF q
<1>6. Entitled(q) = Entitled(r)
  BY <1>4 DEF Entitled
<1>7. n \in Connections /\ n # None
  BY IsolationAssumption DEF Connections
<1>8. /\ settings[n] \in [{"tenant", "user", "email"} -> Values]
      /\ \A x \in {"tenant", "user", "email"} : settings[n][x] \in {"unset", ""}
  BY <1>2, <1>7 DEF Inv, Typed, IdleIsClean
<1>9. IsRequest(c, q)
  <2>1. q.kind = "tenant" /\ (\E j \in 1 .. (q.pc - 1) : q.does[j].do = "resolve")
          => q.tenant \in Entitled(q)
    BY <1>3, <1>4, <1>6 DEF IsRequest
  <2> HIDE DEF r
  <2> QED  BY <1>3, <1>4, <1>6, <1>7, <2>1 DEF IsRequest
<1>10. ~ Scoped(q.does, q.pc)
  BY <1>1, <1>3, <1>4 DEF IsRequest, Scoped
<1>11. Tells(q, settings[n])
  BY <1>8, <1>10 DEF Tells
<1>12. ReadsOK(q) /\ WritesOK(q) /\ LoadedOK(q) /\ TargetOK(q) /\ ListsOK(q)
  <2>1. ReadsOK(q) /\ WritesOK(q) /\ LoadedOK(q)
    BY <1>3, <1>4, <1>6, <1>1 DEF Good, ReadsOK, WritesOK, LoadedOK
  <2>2. TargetOK(q)
    BY <1>3, <1>4, <1>1 DEF Good, TargetOK
  <2>3. ListsOK(q)
    BY <1>3, <1>4, <1>1 DEF Good, ListsOK
  <2> QED  BY <2>1, <2>2, <2>3
<1>13. holder'[n] = c
  BY <1>2, <1>7 DEF Inv, Typed
<1>14. Good(c, q, holder', settings')
  BY <1>1, <1>4, <1>9, <1>11, <1>12, <1>13 DEF Good
<1> HIDE DEF r
<1> QED  BY <1>2, <1>5, <1>7, <1>8, <1>14, OneClient, IsolationAssumption

\* A route starts with nothing named, on a connection that tells nothing.
LEMMA StartInv ==
    ASSUME Inv, NEW c \in Clients, NEW n \in Pool \cup {c},
           NEW routes \in {Endpoints, Tasks}, Start(c, n, routes)
    PROVE  Inv'
<1>0. PICK name \in DOMAIN routes : \E asked \in Asked(routes[name].kind) :
        request' = [request EXCEPT ![c] = Started(name, routes[name], asked, n)]
  BY DEF Start
<1>1. PICK asked \in Asked(routes[name].kind) :
        request' = [request EXCEPT ![c] = Started(name, routes[name], asked, n)]
  BY <1>0
<1>2. holder[n] = None /\ holder' = [holder EXCEPT ![n] = c] /\ UNCHANGED settings
  BY DEF Start
<1> DEFINE kind == routes[name].kind
           q == Started(name, routes[name], asked, n)
<1>3. InOrder(name, kind, routes[name].does)
  BY RoutesAssumption
<1>4. /\ DOMAIN q = Fields /\ q = [x \in Fields |-> q[x]] /\ q.status = "running"
      /\ q.name = name /\ q.kind = kind /\ q.does = routes[name].does
      /\ q.caller = asked.caller /\ q.at = asked.at /\ q.target = asked.target
      /\ q.pc = 1 /\ q.conn = n /\ q.loaded = {} /\ q.listed = {} /\ q.reads = {}
      /\ q.writes = {}
      /\ q.tenant = CASE kind \in {"slug", "task"} -> asked.at
                      [] kind \in {"new", "platform"} -> asked.target
                      [] OTHER -> None
  BY DEF Started, Fields
<1>5. n \in Connections /\ n # None
  BY IsolationAssumption DEF Connections
<1>6. /\ settings[n] \in [{"tenant", "user", "email"} -> Values]
      /\ \A x \in {"tenant", "user", "email"} : settings[n][x] \in {"unset", ""}
      /\ settings' = [settings EXCEPT ![n] = settings[n]]
  BY <1>2, <1>5 DEF Inv, Typed, IdleIsClean
<1> HIDE DEF q
<1>7. /\ q.kind \in {"tenant", "user", "new", "platform", "slug", "task"}
      /\ q.caller \in Users \cup {None} /\ (q.caller = None => q.kind \in {"slug", "task"})
      /\ q.at \in Tenants \cup {None} /\ (q.kind \in {"slug", "task"} => q.at \in Tenants)
      /\ q.kind \in {"new", "platform"} => q.target \in Tenants
  <2>1. kind \in {"tenant", "user", "new", "platform", "slug", "task"}
    BY <1>3 DEF InOrder
  <2>2. asked \in Asked(kind)
    BY <1>1
  <2>3. /\ asked.caller \in Users \cup {None}
        /\ asked.caller = None => kind \in {"slug", "task"}
        /\ asked.at \in Tenants \cup {None} /\ (kind \in {"slug", "task"} => asked.at \in Tenants)
        /\ kind \in {"new", "platform"} => asked.target \in Tenants
    <3> HIDE DEF kind
    <3>1. CASE kind = "tenant"
      BY <2>2, <3>1, IsolationAssumption DEF Asked
    <3>2. CASE kind = "user"
      BY <2>2, <3>2, IsolationAssumption DEF Asked
    <3>3. CASE kind = "new"
      BY <2>2, <3>3, IsolationAssumption DEF Asked
    <3>4. CASE kind = "platform"
      BY <2>2, <3>4, IsolationAssumption DEF Asked
    <3>5. CASE kind = "slug"
      BY <2>2, <3>5 DEF Asked
    <3>6. CASE kind = "task"
      BY <2>2, <3>6 DEF Asked
    <3> QED  BY <2>1, <3>1, <3>2, <3>3, <3>4, <3>5, <3>6
  <2> HIDE DEF kind
  <2> QED  BY <1>4, <2>1, <2>3
<1>8. /\ q.tenant \in {None} \cup Entitled(q)
      /\ q.kind \in {"new", "platform", "slug", "task"} => q.tenant \in Entitled(q)
  <2> HIDE DEF kind
  <2> QED  BY <1>4, <1>7 DEF Entitled
<1>9. 1 .. (q.pc - 1) = {}
  BY <1>4
<1>10. IsRequest(c, q)
  <2> HIDE DEF kind
  <2> QED  BY <1>3, <1>4, <1>5, <1>7, <1>8, <1>9 DEF IsRequest
<1>11. Tells(q, settings[n])
  BY <1>6, <1>9 DEF Tells, Scoped
<1>12. ReadsOK(q) /\ WritesOK(q) /\ LoadedOK(q) /\ TargetOK(q) /\ ListsOK(q)
  BY <1>4, <1>9 DEF ReadsOK, WritesOK, LoadedOK, TargetOK, ListsOK
<1>13. holder'[n] = c
  BY <1>2, <1>5 DEF Inv, Typed
<1>14. Good(c, q, holder', settings')
  BY <1>2, <1>4, <1>10, <1>11, <1>12, <1>13 DEF Good
<1>15. request' = [request EXCEPT ![c] = q]
  BY <1>1 DEF q
<1> QED  BY <1>2, <1>5, <1>6, <1>14, <1>15, OneClient, IsolationAssumption

\* Every step keeps the invariant.
LEMMA StepInv == Inv /\ [IsolationNext]_isolation => Inv'
<1> SUFFICES ASSUME Inv, [IsolationNext]_isolation PROVE Inv'
  OBVIOUS
<1>1. CASE UNCHANGED isolation
  BY <1>1 DEF Inv, Typed, IdleIsClean, isolation
<1>2. ASSUME NEW c \in Clients, Begin(c) PROVE Inv'
  BY <1>2, StartInv DEF Begin
<1>3. ASSUME NEW c \in Clients, Deliver(c) PROVE Inv'
  BY <1>3, StartInv DEF Deliver
<1> QED  BY <1>1, <1>2, <1>3, SetInv, ReadInv, InsertInv, WriteInv, ReferInv, RefreshInv,
            ResolveInv, RequireInv, AcceptInv, RefuseInv, CommitInv, BorrowInv, AnswerInv
         DEF IsolationNext

THEOREM Invariance == IsolationSpec => []Inv
<1> QED  BY InitInv, StepInv, PTL DEF IsolationSpec

-----------------------------------------------------------------------------
\* Whoever asks, whatever its headers and ids name and whoever used its
\* connection before: it reads, writes and lists in its own tenant only.
THEOREM TenantsAreIsolated == IsolationSpec => []StaysInTheTenant
<1>1. ASSUME Inv PROVE StaysInTheTenant
  <2>1. ASSUME NEW r \in Requests
        PROVE  ReadsOK(r) /\ WritesOK(r) /\ ListsOK(r)
    BY <1>1, <2>1 DEF Requests, Inv, Good
  <2>2. ReadsInTheTenant /\ WritesInTheTenant
    BY <2>1 DEF ReadsInTheTenant, WritesInTheTenant, ReadsOK, WritesOK
  <2>3. ListsAreOfOneTenant
    BY <2>1 DEF ListsAreOfOneTenant, ListsOK, Answered
  <2> QED  BY <2>2, <2>3 DEF StaysInTheTenant
<1> QED  BY <1>1, Invariance, PTL

\* What a connection is left with when it is given back names nobody.
THEOREM PoolIsClean == IsolationSpec => []PooledConnectionsCarryNoTenant
<1>1. ASSUME Inv PROVE PooledConnectionsCarryNoTenant
  <2>1. DOMAIN Fresh = {"tenant", "user", "email"}
    BY DEF Fresh
  <2> QED  BY <1>1, <2>1 DEF Inv, IdleIsClean, PooledConnectionsCarryNoTenant, Connections
<1> QED  BY <1>1, Invariance, PTL

-----------------------------------------------------------------------------
(* What fails, and for whom.                                                 *)

\* The five known errors (FailuresAreKnown).
Known(r) ==
    \/ r.at = None /\ Cardinality(TenantsOf(r.caller)) > 1 /\ r.tenant = None
         /\ r.kind = "tenant"
    \/ r.name \in TransitionsById /\ r.caller \in PlatformAdmins /\ r.target # r.tenant
    \/ r.name = "transition_order_fulfillment" /\ r.committed
    \/ r.name = "accept_invite" /\ Cardinality({x.row.tenant : x \in r.loaded}) > 1
    \/ r.name = "create_upload_url" /\ r.does[r.pc].do = "refer"

\* The statements before the one the request is at.
Past(r) == 1 .. (r.pc - 1)
LEMMA PastGrows ==
    ASSUME NEW r, NEW q, r.pc \in Nat \ {0}, q.pc = r.pc + 1
    PROVE  Past(q) = Past(r) \cup {r.pc}
BY DEF Past

\* What a request has loaded is of its tenant, but for the invitations of
\* accept_invite, and for the row of another tenant that a platform administrator
\* named to a transition.
HeldOK(r) == \A x \in r.loaded :
    IF r.name = "accept_invite" THEN x.row \in Memberships
    ELSE /\ \E j \in Past(r) : SetsTenant(r.does[j])
         /\ \/ x.row.tenant = r.tenant
            \/ r.name \in TransitionsById /\ r.caller \in PlatformAdmins /\ r.target # r.tenant

\* Who has loaded a row by its id names an id of the tenant, or is one of those.
LoadsById(s) == s.do = "load" /\ s.by \in {"id", "id and tenant"}
IdOK(r) ==
    (\E j \in Past(r) : LoadsById(r.does[j]))
        => r.target = r.tenant \/ (r.name \in TransitionsById /\ r.caller \in PlatformAdmins)

\* A bulk delete has deleted nothing by the ids of another tenant.
DeleteOK(r) ==
    (\E i \in 1 .. Len(r.does) : r.does[i].do = "delete") /\ r.writes # {} =>
        r.target = r.tenant /\ \E j \in Past(r) : SetsTenant(r.does[j])

\* Only three routes store a reference to what they have not looked up.
ReferOK(r) == r.refers # {} => r.name \in StoresReferences

Fits(r) ==
    /\ Careful(r.name, r.kind, r.does)
    /\ r.status \in {"running", "error", "not found", "forbidden", "conflict"}
    /\ r.status = "error" => Known(r)
    /\ r.status = "conflict" => r.does[r.pc].do = "refer"
    /\ r.status # "running" => r.pc \in 1 .. Len(r.does)
    /\ r.pc \in 1 .. (Len(r.does) + 1)
    /\ r.kind = "task" => r.target = r.at
    /\ r.kind = "tenant" /\ r.tenant # None => \E j \in Past(r) : r.does[j].do = "resolve"
    /\ r.committed <=> \E j \in Past(r) : r.does[j].do = "commit"
    /\ HeldOK(r) /\ IdOK(r) /\ DeleteOK(r) /\ ReferOK(r)

\* The address is named before the invitations to it are accepted.
Named(r, g) ==
    r.name = "accept_invite" /\ (\E j \in Past(r) : r.does[j] = Set("email"))
        => g.email = r.caller

Knows(r, g) == r # None =>
    Fits(r) /\ (~ Ended(r) /\ r.conn # None => Named(r, g[r.conn]))

Answers == \A c \in Clients : Knows(request[c], settings)

\* Whom the database knows for the tenant of a row may write it, where any may.
LEMMA OwnRowsAreWritable ==
    ASSUME NEW g, NEW table, NEW cmd \in {"insert", "update", "delete"}, NEW rows,
           NEW row \in rows, g.tenant = row.tenant,
           cmd = "update" => table \notin AppendOnly,
           cmd = "delete" => table \notin Undeletable
    PROVE  row \in Permitted(g, table, cmd, rows)
<1>1. Satisfies("tenant", g, row) /\ Satisfies("raw tenant", g, row)
  BY DEF Satisfies
<1>2. "tenant" \in Clauses(table, cmd) \/ "raw tenant" \in Clauses(table, cmd)
  BY DEF Clauses
<1>3. \E clause \in Clauses(table, "select") : Satisfies(clause, g, row)
  BY OwnRowsAreShown
<1> QED  BY <1>1, <1>2, <1>3 DEF Permitted

\* One table's policies fail, on a connection that names the empty tenant.
LEMMA OnlyPreferencesFail ==
    ASSUME NEW g, NEW table, NEW cmd \in {"select", "insert", "update", "delete"},
           Fails(g, table, cmd)
    PROVE  table = "notification_preferences" /\ g.tenant = ""
<1>1. "raw tenant" \in Clauses(table, cmd) /\ g.tenant = ""
  BY DEF Fails, Raises
<1>2. table = "notification_preferences"
  BY <1>1 DEF Clauses
<1> QED  BY <1>1, <1>2

\* While the tenant is named, it is one.
LEMMA ScopedNames ==
    ASSUME NEW c, NEW r, NEW g, IsRequest(c, r), Tells(r, g), Scoped(r.does, r.pc)
    PROVE  g.tenant = r.tenant /\ r.tenant \in Tenants /\ g.tenant # ""
BY EntitledTenants, IsolationAssumption DEF Tells

\* A finite set with more than one element.
LEMMA SeveralElements ==
    ASSUME NEW S, IsFiniteSet(S)
    PROVE  Cardinality(S) > 1 <=> \E x, y \in S : x # y
<1>1. Cardinality(S) \in Nat
  BY FS_CardinalityType
<1>2. Cardinality(S) = 0 <=> S = {}
  BY FS_EmptySet
<1>3. Cardinality(S) = 1 <=> \E x : S = {x}
  BY FS_Singleton
<1> QED  BY <1>1, <1>2, <1>3

\* Numbers between.
LEMMA Between ==
    ASSUME NEW m \in Nat, NEW n \in Nat \ {0}, ~ (n > m) PROVE n \in 1 .. m
OBVIOUS

LEMMA Below ==
    ASSUME NEW m \in Nat, NEW n \in 1 .. m, NEW i \in 1 .. m, i < n PROVE i \in 1 .. (n - 1)
OBVIOUS

\* Who only accepts invitations acts in no tenant.
LEMMA UsersActInNone == ASSUME NEW r, r.kind = "user" PROVE Entitled(r) = {}
BY DEF Entitled

-----------------------------------------------------------------------------
(* What a step keeps of it.                                                  *)

\* Who did nothing still fits, and its connection says what it said.
LEMMA OneAnswer ==
    ASSUME Inv, Answers, NEW c \in Clients, NEW q, Knows(q, settings'),
           request' = [request EXCEPT ![c] = q],
           \A n \in Connections : holder[n] \in Clients \ {c} => settings'[n] = settings[n]
    PROVE  Answers'
<1>1. request'[c] = q /\ \A d \in Clients \ {c} : request'[d] = request[d]
  BY DEF Inv, Typed
<1>2. ASSUME NEW d \in Clients \ {c} PROVE Knows(request[d], settings')
  <2>1. Knows(request[d], settings)
    BY DEF Answers
  <2>2. request[d] # None /\ request[d].conn # None =>
          settings'[request[d].conn] = settings[request[d].conn]
    BY <1>2 DEF Inv, Good, IsRequest, Connections
  <2> QED  BY <2>1, <2>2 DEF Knows
<1> QED  BY <1>1, <1>2 DEF Answers

\* A request that is answered an error, for a known reason if it is one.
LEMMA StopAnswers ==
    ASSUME Inv, Answers, NEW c \in Clients, NEW status \in {"error", "not found", "forbidden", "conflict"},
           request[c] # None, ~ Ended(request[c]), Stop(c, status),
           status = "error" => Known(request[c]),
           status = "conflict" => request[c].does[request[c].pc].do = "refer",
           \A n \in Connections : holder[n] \in Clients \ {c} => settings'[n] = settings[n]
    PROVE  Answers'
<1> DEFINE r == request[c]
           q == [r EXCEPT !.status = status]
<1>1. Fits(r) /\ DOMAIN r = Fields /\ r = [x \in Fields |-> r[x]] /\ IsRequest(c, r)
  BY DEF Answers, Knows, Inv, Good, IsRequest
<1>2. /\ q.status = status
      /\ q.name = r.name /\ q.kind = r.kind /\ q.does = r.does /\ q.caller = r.caller
      /\ q.at = r.at /\ q.target = r.target /\ q.tenant = r.tenant /\ q.pc = r.pc
      /\ q.loaded = r.loaded /\ q.writes = r.writes /\ q.refers = r.refers
      /\ q.committed = r.committed
  BY <1>1 DEF Fields
<1>3. request' = [request EXCEPT ![c] = q]
  BY DEF Stop, Inv, Typed
<1> HIDE DEF q
<1>4. Known(r) => Known(q)
  BY <1>2 DEF Known
<1>5. Past(q) = Past(r)
  BY <1>2 DEF Past
<1>6. HeldOK(q) /\ IdOK(q) /\ DeleteOK(q) /\ ReferOK(q)
  <2>1. HeldOK(r) /\ IdOK(r) /\ DeleteOK(r) /\ ReferOK(r)
    BY <1>1 DEF Fits
  <2> HIDE DEF r
  <2>2. HeldOK(q)
    BY <1>2, <1>5, <2>1 DEF HeldOK
  <2>3. IdOK(q)
    BY <1>2, <1>5, <2>1 DEF IdOK
  <2>4. DeleteOK(q)
    BY <1>2, <1>5, <2>1 DEF DeleteOK
  <2>5. ReferOK(q)
    BY <1>2, <2>1 DEF ReferOK
  <2> QED  BY <2>2, <2>3, <2>4, <2>5
<1>7. Fits(q)
  <2>1. status = "error" => Known(q)
    BY <1>4
  <2>2. /\ r.committed <=> \E j \in Past(r) : r.does[j].do = "commit"
        /\ r.kind = "tenant" /\ r.tenant # None => \E j \in Past(r) : r.does[j].do = "resolve"
    BY <1>1 DEF Fits
  <2>3. q.committed <=> \E j \in Past(q) : q.does[j].do = "commit"
    BY <1>2, <1>5, <2>2
  <2>4. q.kind = "tenant" /\ q.tenant # None => \E j \in Past(q) : q.does[j].do = "resolve"
    BY <1>2, <1>5, <2>2
  <2>5. /\ Careful(q.name, q.kind, q.does) /\ q.pc \in 1 .. (Len(q.does) + 1)
        /\ q.kind = "task" => q.target = q.at
    BY <1>1, <1>2 DEF Fits
  <2>6. q.pc \in 1 .. Len(q.does) /\ (status = "conflict" => q.does[q.pc].do = "refer")
    <3>1. r.pc \in Nat \ {0} /\ Len(r.does) \in Nat /\ ~ (r.pc > Len(r.does))
      BY <1>1 DEF IsRequest, InOrder, Ended
    <3>2. r.pc \in 1 .. Len(r.does)
      BY <3>1, Between
    <3>3. q.pc = r.pc /\ q.does = r.does
      BY <1>2
    <3> QED  BY <3>2, <3>3
  <2> HIDE DEF r
  <2> QED  BY <1>2, <1>6, <2>1, <2>3, <2>4, <2>5, <2>6 DEF Fits
<1>8. Ended(q)
  BY <1>2 DEF Ended
<1>9. Knows(q, settings')
  BY <1>7, <1>8 DEF Knows
<1> QED  BY <1>3, <1>9, OneAnswer

\* A statement later.
LEMMA FitsOn ==
    ASSUME NEW c, NEW r, NEW q, IsRequest(c, r), Fits(r), Follows(r, q),
           q.tenant = r.tenant, q.committed = r.committed, r.does[r.pc].do # "commit",
           r.status = "running", ~ Ended(r)
    PROVE  /\ Past(q) = Past(r) \cup {r.pc}
           /\ q.loaded = r.loaded => HeldOK(q)
           /\ ~ LoadsById(r.does[r.pc]) => IdOK(q)
           /\ q.writes = r.writes => DeleteOK(q)
           /\ HeldOK(q) /\ IdOK(q) /\ DeleteOK(q) => Fits(q)
<1>1. Past(q) = Past(r) \cup {r.pc}
  <2>1. r.pc \in Nat \ {0} /\ q.pc = r.pc + 1
    BY DEF IsRequest, Follows
  <2> QED  BY <2>1, PastGrows
<1>2. q.loaded = r.loaded => HeldOK(q)
  BY <1>1 DEF Fits, HeldOK, Follows
<1>3. ~ LoadsById(r.does[r.pc]) => IdOK(q)
  BY <1>1 DEF Fits, IdOK, Follows
<1>4. q.writes = r.writes => DeleteOK(q)
  BY <1>1, ZenonT(30) DEF Fits, DeleteOK, Follows
<1>5. ASSUME HeldOK(q) /\ IdOK(q) /\ DeleteOK(q) PROVE Fits(q)
  <2>1. q.status = "running" /\ q.pc \in 1 .. (Len(q.does) + 1)
    BY DEF IsRequest, InOrder, Ended, Follows
  <2>2. q.kind = "tenant" /\ q.tenant # None => \E j \in Past(q) : q.does[j].do = "resolve"
    BY <1>1 DEF Fits, Follows
  <2>3. q.committed <=> \E j \in Past(q) : q.does[j].do = "commit"
    <3>1. q.does = r.does /\ (r.committed <=> \E j \in Past(r) : r.does[j].do = "commit")
      BY DEF Fits, Follows
    <3> QED  BY <1>1, <3>1
  <2>4. ReferOK(q)
    <3>1. r.pc \in 1 .. Len(r.does)
      BY DEF IsRequest, InOrder, Ended
    <3>2. r.does[r.pc].do = "refer" => r.name \in StoresReferences
      BY <3>1 DEF Fits, Careful
    <3> QED  BY <3>2 DEF Fits, ReferOK, Follows
  <2> QED  BY <1>5, <2>1, <2>2, <2>3, <2>4 DEF Fits, Follows
<1> QED  BY <1>1, <1>2, <1>3, <1>4, <1>5

\* A statement that sets nothing, and after which the request fits.
LEMMA GoesOn ==
    ASSUME Inv, Answers, NEW c \in Clients, NEW kinds, At(c, kinds), "set" \notin kinds,
           NEW q, Follows(request[c], q), q.conn = request[c].conn, Fits(q),
           request' = [request EXCEPT ![c] = q], UNCHANGED settings
    PROVE  Answers'
<1> DEFINE r == request[c]
<1>1. /\ r # None /\ IsRequest(c, r) /\ ~ Ended(r) /\ r.conn # None
      /\ r.does[r.pc].do \in kinds
  BY AtStatement
<1>2. Named(r, settings[r.conn])
  BY <1>1 DEF Answers, Knows
<1>3. Past(q) \subseteq Past(r) \cup {r.pc}
  <2>1. r.pc \in Nat \ {0} /\ q.pc = r.pc + 1
    BY <1>1 DEF IsRequest, Follows
  <2> QED  BY <2>1 DEF Past
<1>4. r.does[r.pc] # Set("email")
  <2>1. Set("email").do = "set"
    BY DEF Set, Statement
  <2> QED  BY <1>1, <2>1
<1>5. Named(q, settings[q.conn])
  BY <1>2, <1>3, <1>4 DEF Named, Follows
<1>6. Knows(q, settings')
  BY <1>5 DEF Knows
<1> QED  BY <1>6, OneAnswer

\* What the route of a request promises of the statement it is at.
LEMMA AtCareful ==
    ASSUME Inv, Answers, NEW c \in Clients, NEW kinds, At(c, kinds)
    PROVE  LET r == request[c]
               s == r.does[r.pc]
               g == settings[r.conn] IN
           /\ r # None /\ IsRequest(c, r) /\ ~ Ended(r) /\ r.status = "running"
           /\ r.conn # None /\ r.conn \in Connections /\ s.do \in kinds
           /\ s = Current(c) /\ g = Context(c)
           /\ DOMAIN r = Fields /\ r = [x \in Fields |-> r[x]]
           /\ Fits(r) /\ Named(r, g) /\ Tells(r, g) /\ LoadedOK(r)
           /\ s.do \in {"insert", "save", "discard", "delete"} \/ s.on = "notification_preferences"
                => Scoped(r.does, r.pc)
           /\ s.do = "load" => \/ r.name = "accept_invite" /\ s.on = "tenant_members"
                               \/ Scoped(r.does, r.pc) /\ s.by \in {"id", "id and tenant"}
           /\ s.do = "load" /\ s.by = "id" /\ s.on \in PlatformTables =>
                s.on # "tenant_members" /\ (r.name \in TransitionsById \/ r.kind = "task")
           /\ s.do = "save" => s.on \notin AppendOnly
           /\ s.do = "discard" => s.on \notin Undeletable
           /\ s.do = "delete" => s.by = "id"
           /\ s.do = "refresh" =>
                \/ Scoped(r.does, r.pc)
                \/ /\ r.name = "transition_order_fulfillment"
                   /\ \E j \in Past(r) : r.does[j].do = "commit"
           /\ s.do = "refer" =>
                s.by = "conflict" \/ (s.by = "error" /\ r.name = "create_upload_url")
           /\ s.do = "resolve" => \A j \in Past(r) : r.does[j].do # "resolve"
           /\ s.do = "accept" => \E j \in Past(r) : r.does[j] = Set("email")
           /\ r.name = "accept_invite" => r.kind = "user" /\ s.do \in {"set", "load", "accept"}
<1> DEFINE r == request[c]
           s == r.does[r.pc]
           g == settings[r.conn]
<1>1. /\ r # None /\ Good(c, r, holder, settings) /\ IsRequest(c, r) /\ ~ Ended(r)
      /\ r.conn # None /\ r.conn \in Connections /\ s.do \in kinds
      /\ r.pc \in 1 .. Len(r.does)
      /\ DOMAIN r = Fields /\ r = [x \in Fields |-> r[x]]
  BY AtStatement
<1>2. Fits(r) /\ Named(r, g) /\ Tells(r, g) /\ LoadedOK(r) /\ r.status = "running"
  BY <1>1 DEF Answers, Knows, Good, Ended
<1>3. Careful(r.name, r.kind, r.does)
  BY <1>2 DEF Fits
<1>4. s = Current(c) /\ g = Context(c)
  BY DEF Current, Context
<1>5. s.do = "refer" => s.by = "conflict" \/ (s.by = "error" /\ r.name = "create_upload_url")
  <2>1. InOrder(r.name, r.kind, r.does)
    BY <1>1 DEF IsRequest
  <2>2. s.do = "refer" => s.by \in {"conflict", "error"}
    BY <1>1, <2>1 DEF InOrder
  <2>3. s.do = "refer" /\ s.by = "error" => r.name = "create_upload_url"
    BY <1>1, <1>3 DEF Careful
  <2> QED  BY <2>2, <2>3
<1>6. /\ s.do \in {"insert", "save", "discard", "delete"} \/ s.on = "notification_preferences"
           => Scoped(r.does, r.pc)
      /\ s.do = "load" => \/ r.name = "accept_invite" /\ s.on = "tenant_members"
                          \/ Scoped(r.does, r.pc) /\ s.by \in {"id", "id and tenant"}
      /\ s.do = "load" /\ s.by = "id" /\ s.on \in PlatformTables =>
           s.on # "tenant_members" /\ (r.name \in TransitionsById \/ r.kind = "task")
      /\ s.do = "save" => s.on \notin AppendOnly
      /\ s.do = "discard" => s.on \notin Undeletable
      /\ s.do = "delete" => s.by = "id"
  BY <1>1, <1>3 DEF Careful
<1>7. /\ s.do = "refresh" =>
           \/ Scoped(r.does, r.pc)
           \/ /\ r.name = "transition_order_fulfillment"
              /\ \E j \in Past(r) : r.does[j].do = "commit"
      /\ s.do = "resolve" => \A j \in Past(r) : r.does[j].do # "resolve"
      /\ s.do = "accept" => \E j \in Past(r) : r.does[j] = Set("email")
      /\ r.name = "accept_invite" => r.kind = "user" /\ s.do \in {"set", "load", "accept"}
  BY <1>1, <1>3 DEF Careful, Past
<1> HIDE DEF r, s, g
<1> QED  BY <1>1, <1>2, <1>4, <1>5, <1>6, <1>7 DEF r, s, g

\* SELECT: with the tenant named, a row that is found by its id is of the tenant,
\* or a platform administrator is shown it.
LEMMA ReadAnswers == ASSUME Inv, Answers, NEW c \in Clients, Read(c) PROVE Answers'
<1> DEFINE r == request[c]
           s == r.does[r.pc]
           g == settings[r.conn]
           rows == Tagged(s.on, Found(c))
<1>1. At(c, {"select", "list", "load"}) /\ UNCHANGED <<settings, holder>>
  BY DEF Read
<1>2. /\ r # None /\ IsRequest(c, r) /\ ~ Ended(r) /\ r.status = "running"
      /\ r.conn # None /\ s.do \in {"select", "list", "load"}
      /\ s = Current(c) /\ g = Context(c)
      /\ DOMAIN r = Fields /\ r = [x \in Fields |-> r[x]]
      /\ Fits(r) /\ Tells(r, g)
  BY <1>1, AtCareful
<1>3. /\ s.on = "notification_preferences" => Scoped(r.does, r.pc)
      /\ s.do = "load" => \/ r.name = "accept_invite" /\ s.on = "tenant_members"
                          \/ Scoped(r.does, r.pc) /\ s.by \in {"id", "id and tenant"}
      /\ s.do = "load" /\ s.by = "id" /\ s.on \in PlatformTables =>
           s.on # "tenant_members" /\ (r.name \in TransitionsById \/ r.kind = "task")
      /\ r.name = "accept_invite" => r.kind = "user"
  BY <1>1, AtCareful
<1>4. Scoped(r.does, r.pc) => g.tenant = r.tenant /\ g.tenant # ""
  <2>1. IsRequest(c, r) /\ Tells(r, g)
    BY <1>2
  <2> HIDE DEF r, g
  <2> QED  BY <2>1, ScopedNames
<1>5. ~ Fails(g, s.on, "select")
  <2> SUFFICES ASSUME Fails(g, s.on, "select") PROVE FALSE
    OBVIOUS
  <2>1. s.on = "notification_preferences" /\ g.tenant = ""
    BY OnlyPreferencesFail
  <2> QED  BY <1>3, <1>4, <2>1
<1>6. CASE Stop(c, "not found")
  BY <1>1, <1>2, <1>6, StopAnswers
<1>7. CASE /\ s.do = "load" => rows # {}
           /\ Proceed(c, [r EXCEPT !.reads = @ \cup rows,
                                   !.loaded = IF s.do = "load" THEN @ \cup rows ELSE @,
                                   !.listed = IF s.do = "list" THEN rows ELSE @])
  <2> DEFINE q == [r EXCEPT !.pc = @ + 1, !.reads = r.reads \cup rows,
                            !.loaded = IF s.do = "load" THEN r.loaded \cup rows ELSE r.loaded,
                            !.listed = IF s.do = "list" THEN rows ELSE r.listed]
  <2>1. request' = [request EXCEPT ![c] = q]
    <3> HIDE DEF rows
    <3> QED  BY <1>2, <1>7, ZenonT(30) DEF Proceed, Fields
  <2>2. /\ Follows(r, q) /\ q.tenant = r.tenant /\ q.conn = r.conn /\ q.writes = r.writes
        /\ q.committed = r.committed
        /\ q.loaded = IF s.do = "load" THEN r.loaded \cup rows ELSE r.loaded
    <3> HIDE DEF rows
    <3> QED  BY <1>2 DEF Follows, Fields
  <2> HIDE DEF q
  <2>3. /\ Past(q) = Past(r) \cup {r.pc}
        /\ q.loaded = r.loaded => HeldOK(q)
        /\ ~ LoadsById(s) => IdOK(q)
        /\ DeleteOK(q)
        /\ HeldOK(q) /\ IdOK(q) => Fits(q)
    <3>1. s.do # "commit" /\ IsRequest(c, r) /\ ~ Ended(r) /\ r.status = "running" /\ Fits(r)
      BY <1>2
    <3> QED  BY <2>2, <3>1, FitsOn
  <2>4. ASSUME s.do = "load", r.name = "accept_invite" PROVE HeldOK(q) /\ IdOK(q)
    <3>1. s.on = "tenant_members" /\ ~ LoadsById(s)
      <4>1. r.pc \in 1 .. Len(r.does) /\ IsRequest(c, r)
        BY <1>1, AtStatement
      <4>2. s.by = "invited"
        BY <2>4, <4>1 DEF IsRequest, InOrder
      <4> QED  BY <1>3, <2>4, <4>2 DEF LoadsById
    <3>2. \A x \in rows : x.row \in Memberships
      <4>1. \A x \in rows : x.row \in Found(c)
        BY TaggedRows
      <4>2. \A row \in Found(c) : row \in Memberships
        BY <1>2, <3>1 DEF Found, Permitted, Rows
      <4> QED  BY <4>1, <4>2
    <3>3. HeldOK(r) /\ q.loaded = r.loaded \cup rows /\ q.name = r.name
      BY <1>2, <2>2, <2>4 DEF Fits, Follows
    <3>4. HeldOK(q)
      <4> HIDE DEF r, rows
      <4> QED  BY <2>4, <3>2, <3>3 DEF HeldOK
    <3> QED  BY <2>3, <3>1, <3>4
  <2>5. ASSUME s.do = "load", r.name # "accept_invite" PROVE HeldOK(q) /\ IdOK(q)
    <3>1. Scoped(r.does, r.pc) /\ s.by \in {"id", "id and tenant"}
      BY <1>3, <2>5
    <3>2. g.tenant = r.tenant
      BY <1>4, <3>1
    <3>3. ASSUME NEW row \in Found(c)
          PROVE  /\ row.tenant = r.target
                 /\ \/ row.tenant = r.tenant
                    \/ r.name \in TransitionsById /\ r.caller \in PlatformAdmins
      <4>1. row \in Permitted(g, s.on, "select", Rows(s.on)) /\ Matches(r, s.by, row)
        BY <3>3 DEF Found, Current, Context
      <4>2. CASE s.by = "id and tenant"
        BY <4>1, <4>2 DEF Matches
      <4>3. CASE s.by = "id"
        <5>1. row.tenant = r.target
          BY <4>1, <4>3 DEF Matches
        <5>2. \/ row.tenant = g.tenant
              \/ s.on \in PlatformTables /\ (s.on # "tenant_members" => r.caller \in PlatformAdmins)
          <6> HIDE DEF r, g
          <6> QED  BY <1>2, <4>1, ShownRows DEF PlatformTables
        <5>3. r.kind = "task" => r.target = r.tenant
          BY <1>2 DEF Fits, IsRequest, Entitled
        <5> QED  BY <1>3, <2>5, <3>2, <4>3, <5>1, <5>2, <5>3
      <4> QED  BY <3>1, <4>2, <4>3
    <3>4. PICK j \in Past(r) : SetsTenant(r.does[j])
      BY <3>1 DEF Scoped, Past
    <3>5. j \in Past(q) /\ SetsTenant(q.does[j])
      BY <2>2, <2>3, <3>4 DEF Follows
    <3>6. \A x \in rows : x.row \in Found(c)
      BY TaggedRows
    <3>7. HeldOK(r) /\ q.loaded = r.loaded \cup rows /\ q.name = r.name /\ q.caller = r.caller
            /\ q.target = r.target /\ q.tenant = r.tenant
      BY <1>2, <2>2, <2>5 DEF Fits, Follows
    <3>8. HeldOK(q)
      <4> HIDE DEF r, rows
      <4> QED  BY <2>5, <3>3, <3>5, <3>6, <3>7 DEF HeldOK
    <3>9. PICK row \in Found(c) : TRUE
      <4>1. rows # {}
        BY <1>7, <2>5
      <4> QED  BY <3>6, <4>1
    <3>10. IdOK(q)
      <4> HIDE DEF r, rows
      <4> QED  BY <3>3, <3>7, <3>9 DEF IdOK
    <3> QED  BY <3>8, <3>10
  <2>6. ASSUME s.do # "load" PROVE HeldOK(q) /\ IdOK(q)
    BY <2>2, <2>3, <2>6 DEF LoadsById
  <2>7. Fits(q) /\ "set" \notin {"select", "list", "load"}
    BY <2>3, <2>4, <2>5, <2>6
  <2> QED  BY <1>1, <2>1, <2>2, <2>7, GoesOn
<1>8. \/ Stop(c, "not found")
      \/ /\ s.do = "load" => rows # {}
         /\ Proceed(c, [r EXCEPT !.reads = @ \cup rows,
                                 !.loaded = IF s.do = "load" THEN @ \cup rows ELSE @,
                                 !.listed = IF s.do = "list" THEN rows ELSE @])
  BY <1>2, <1>5 DEF Read
<1> QED  BY <1>6, <1>7, <1>8

\* INSERT: the row is of the tenant that is named, and nothing refuses it.
LEMMA InsertAnswers == ASSUME Inv, Answers, NEW c \in Clients, InsertRow(c) PROVE Answers'
<1> DEFINE r == request[c]
           s == r.does[r.pc]
           g == settings[r.conn]
           rows == Tagged(s.on, {Row(r.tenant)})
           q == [r EXCEPT !.pc = @ + 1, !.writes = r.writes \cup rows,
                          !.loaded = r.loaded \cup rows]
<1>1. At(c, {"insert"}) /\ UNCHANGED <<settings, holder>>
  BY DEF InsertRow
<1>2. /\ r # None /\ IsRequest(c, r) /\ ~ Ended(r) /\ r.status = "running"
      /\ r.conn # None /\ s.do = "insert" /\ s = Current(c) /\ g = Context(c)
      /\ DOMAIN r = Fields /\ r = [x \in Fields |-> r[x]]
      /\ Fits(r) /\ Tells(r, g) /\ Scoped(r.does, r.pc) /\ r.name # "accept_invite"
  <2>1. /\ r # None /\ IsRequest(c, r) /\ ~ Ended(r) /\ r.status = "running"
        /\ r.conn # None /\ s.do \in {"insert"} /\ s = Current(c) /\ g = Context(c)
        /\ DOMAIN r = Fields /\ r = [x \in Fields |-> r[x]] /\ Fits(r) /\ Tells(r, g)
    BY <1>1, AtCareful
  <2>2. s.do = "insert" => Scoped(r.does, r.pc)
    BY <1>1, AtCareful
  <2>3. r.name = "accept_invite" => s.do \in {"set", "load", "accept"}
    BY <1>1, AtCareful
  <2> QED  BY <2>1, <2>2, <2>3
<1>3. g.tenant = r.tenant /\ g.tenant # ""
  <2>1. IsRequest(c, r) /\ Tells(r, g) /\ Scoped(r.does, r.pc)
    BY <1>2
  <2> HIDE DEF r, g
  <2> QED  BY <2>1, ScopedNames
<1>4. ~ Fails(g, s.on, "insert")
  <2> HIDE DEF r, g
  <2> QED  BY <1>3, OnlyPreferencesFail
<1>5. Permitted(g, s.on, "insert", {Row(r.tenant)}) # {}
  <2>1. Row(r.tenant).tenant = g.tenant
    BY <1>3 DEF Row
  <2>2. Row(r.tenant) \in Permitted(g, s.on, "insert", {Row(r.tenant)})
    <3> HIDE DEF r, g
    <3> QED  BY <2>1, OwnRowsAreWritable
  <2> QED  BY <2>2
<1>6. request' = [request EXCEPT ![c] = q]
  <2>1. Proceed(c, [r EXCEPT !.writes = @ \cup rows, !.loaded = @ \cup rows])
    BY <1>2, <1>4, <1>5 DEF InsertRow
  <2> HIDE DEF rows
  <2> QED  BY <1>2, <2>1 DEF Proceed, Fields
<1>7. /\ Follows(r, q) /\ q.tenant = r.tenant /\ q.conn = r.conn
      /\ q.committed = r.committed /\ q.loaded = r.loaded \cup rows
  <2> HIDE DEF rows
  <2> QED  BY <1>2 DEF Follows, Fields
<1> HIDE DEF q
<1>8. /\ Past(q) = Past(r) \cup {r.pc} /\ IdOK(q)
      /\ HeldOK(q) /\ DeleteOK(q) => Fits(q)
  <2>1. s.do # "commit" /\ ~ LoadsById(s)
    BY <1>2 DEF LoadsById
  <2> QED  BY <1>2, <1>7, <2>1, FitsOn
<1>9. \A x \in rows : x.row.tenant = r.tenant
  BY TaggedRows DEF Row
<1>10. HeldOK(q)
  <2>1. PICK j \in Past(r) : SetsTenant(r.does[j])
    BY <1>2 DEF Scoped, Past
  <2>2. j \in Past(q) /\ SetsTenant(q.does[j])
    BY <1>7, <1>8, <2>1 DEF Follows
  <2>3. HeldOK(r)
    BY <1>2 DEF Fits
  <2> HIDE DEF r, rows
  <2> QED  BY <1>2, <1>7, <1>9, <2>2, <2>3 DEF HeldOK, Follows
<1>11. DeleteOK(q)
  <2>1. Careful(r.name, r.kind, r.does) /\ r.pc \in 1 .. Len(r.does)
    BY <1>1, <1>2, AtStatement DEF Fits
  <2>2. ~ \E i \in 1 .. Len(r.does) : r.does[i].do = "delete"
    BY <1>2, <2>1 DEF Careful
  <2> QED  BY <1>7, <2>2 DEF DeleteOK, Follows
<1> QED  BY <1>1, <1>6, <1>7, <1>8, <1>10, <1>11, GoesOn

\* UPDATE and DELETE: a flush is refused the row of another tenant alone, and by
\* the ids of another tenant nothing is deleted.
LEMMA WriteAnswers == ASSUME Inv, Answers, NEW c \in Clients, WriteRows(c) PROVE Answers'
<1> DEFINE r == request[c]
           s == r.does[r.pc]
           g == settings[r.conn]
           cmd == Command[s.do]
           flush == s.do \in {"save", "discard"}
           meant == IF flush THEN Loaded(r, s.on)
                             ELSE {row \in Rows(s.on) : Matches(r, s.by, row)}
           met == Permitted(g, s.on, cmd, meant)
           rows == Tagged(s.on, met)
           q == [r EXCEPT !.pc = @ + 1, !.writes = r.writes \cup rows]
<1>1. At(c, DOMAIN Command) /\ UNCHANGED <<settings, holder>>
  BY DEF WriteRows
<1>2. /\ r # None /\ IsRequest(c, r) /\ ~ Ended(r) /\ r.status = "running"
      /\ r.conn # None /\ s.do \in DOMAIN Command /\ s = Current(c) /\ g = Context(c)
      /\ DOMAIN r = Fields /\ r = [x \in Fields |-> r[x]]
      /\ Fits(r) /\ Tells(r, g)
  BY <1>1, AtCareful
<1>3. /\ s.do \in {"save", "discard", "delete"} \/ s.on = "notification_preferences"
           => Scoped(r.does, r.pc)
      /\ s.do = "save" => s.on \notin AppendOnly
      /\ s.do = "discard" => s.on \notin Undeletable
      /\ s.do = "delete" => s.by = "id"
      /\ r.name = "accept_invite" => s.do \in {"set", "load", "accept"}
  BY <1>1, AtCareful
<1>4. /\ s.do \in {"change", "save", "delete", "discard"} /\ cmd \in {"update", "delete"}
      /\ flush => cmd = IF s.do = "save" THEN "update" ELSE "delete"
  BY <1>2 DEF Command
<1>5. Scoped(r.does, r.pc) => g.tenant = r.tenant /\ g.tenant # ""
  <2>1. IsRequest(c, r) /\ Tells(r, g)
    BY <1>2
  <2> HIDE DEF r, g
  <2> QED  BY <2>1, ScopedNames
<1>6. ~ Fails(g, s.on, cmd)
  <2> SUFFICES ASSUME Fails(g, s.on, cmd) PROVE FALSE
    OBVIOUS
  <2>1. s.on = "notification_preferences" /\ g.tenant = ""
    <3> HIDE DEF r, g, cmd
    <3> QED  BY <1>4, OnlyPreferencesFail
  <2> QED  BY <1>3, <1>5, <2>1
<1>7. CASE flush /\ met # meant /\ Stop(c, "error")
  <2>1. PICK row \in meant : row \notin met
    BY <1>7 DEF Permitted
  <2>2. PICK x \in r.loaded : x.row = row
    BY <1>7 DEF Loaded
  <2>3. g.tenant = r.tenant /\ r.name # "accept_invite"
    BY <1>3, <1>5, <1>7
  <2>4. row.tenant # g.tenant
    <3> SUFFICES ASSUME g.tenant = row.tenant PROVE FALSE
      OBVIOUS
    <3>1. /\ cmd = "update" => s.on \notin AppendOnly
          /\ cmd = "delete" => s.on \notin Undeletable
      BY <1>3, <1>4, <1>7
    <3>2. cmd \in {"insert", "update", "delete"}
      BY <1>4
    <3> HIDE DEF r, s, g, cmd, meant
    <3>3. row \in Permitted(g, s.on, cmd, meant)
      BY <3>1, <3>2, OwnRowsAreWritable
    <3> QED  BY <2>1, <3>3
  <2>5. Known(r)
    BY <1>2, <2>2, <2>3, <2>4 DEF Fits, HeldOK, Known
  <2> QED  BY <1>1, <1>2, <1>7, <2>5, StopAnswers
<1>8. CASE Proceed(c, [r EXCEPT !.writes = @ \cup rows])
  <2>1. request' = [request EXCEPT ![c] = q]
    <3> HIDE DEF rows
    <3> QED  BY <1>2, <1>8 DEF Proceed, Fields
  <2>2. /\ Follows(r, q) /\ q.tenant = r.tenant /\ q.conn = r.conn
        /\ q.committed = r.committed /\ q.loaded = r.loaded /\ q.writes = r.writes \cup rows
    <3> HIDE DEF rows
    <3> QED  BY <1>2 DEF Follows, Fields
  <2> HIDE DEF q
  <2>3. /\ Past(q) = Past(r) \cup {r.pc} /\ HeldOK(q) /\ IdOK(q)
        /\ DeleteOK(q) => Fits(q)
    <3>1. s.do # "commit" /\ ~ LoadsById(s)
      BY <1>2, <1>4 DEF LoadsById
    <3> QED  BY <1>2, <2>2, <3>1, FitsOn
  <2>4. CASE s.do = "delete"
    <3>1. g.tenant = r.tenant /\ s.by = "id" /\ meant = {row \in Rows(s.on) : Matches(r, s.by, row)}
      BY <1>3, <1>5, <2>4
    <3>2. ASSUME NEW x \in rows PROVE r.target = r.tenant
      <4>1. x.row \in met
        <5> HIDE DEF met
        <5> QED  BY TaggedRows
      <4>2. x.row.tenant = r.target
        BY <3>1, <4>1 DEF Permitted, Matches
      <4>3. x.row.tenant = g.tenant
        <5>1. cmd \in {"insert", "update", "delete"}
          BY <1>4
        <5>2. PICK clause \in Clauses(s.on, cmd) : Satisfies(clause, g, x.row)
          BY <4>1 DEF Permitted
        <5> HIDE DEF cmd, g, s
        <5> QED  BY <5>1, <5>2, WritePolicies
      <4> QED  BY <3>1, <4>2, <4>3
    <3>3. PICK j \in Past(r) : SetsTenant(r.does[j])
      BY <1>3, <2>4 DEF Scoped, Past
    <3>4. j \in Past(q) /\ SetsTenant(q.does[j])
      BY <2>2, <2>3, <3>3 DEF Follows
    <3>5. r.does = q.does /\ r.target = q.target /\ DeleteOK(r)
      BY <1>2, <2>2 DEF Fits, Follows
    <3>6. \E i \in 1 .. Len(r.does) : r.does[i].do = "delete"
      BY <1>1, <2>4, AtStatement
    <3>7. DeleteOK(q)
      <4> HIDE DEF r, rows
      <4> QED  BY <2>2, <3>2, <3>4, <3>5, <3>6 DEF DeleteOK
    <3> QED  BY <1>1, <2>1, <2>2, <2>3, <3>7, GoesOn DEF Command
  <2>5. CASE s.do # "delete"
    <3>1. Careful(r.name, r.kind, r.does) /\ r.pc \in 1 .. Len(r.does)
      BY <1>1, <1>2, AtStatement DEF Fits
    <3>2. ~ \E i \in 1 .. Len(r.does) : r.does[i].do = "delete"
      BY <1>4, <2>5, <3>1 DEF Careful
    <3>3. DeleteOK(q)
      BY <2>2, <3>2 DEF DeleteOK, Follows
    <3> QED  BY <1>1, <2>1, <2>2, <2>3, <3>3, GoesOn DEF Command
  <2> QED  BY <2>4, <2>5
<1> QED  BY <1>2, <1>6, <1>7, <1>8 DEF WriteRows

\* A statement that changes nothing but the request's place.
LEMMA ProceedsAnswers ==
    ASSUME Inv, Answers, NEW c \in Clients, NEW kinds, At(c, kinds),
           kinds \cap {"set", "commit", "load"} = {},
           Proceed(c, request[c]), UNCHANGED settings
    PROVE  Answers'
<1> DEFINE r == request[c]
           q == [r EXCEPT !.pc = @ + 1]
<1>1. /\ IsRequest(c, r) /\ ~ Ended(r) /\ r.status = "running" /\ Fits(r)
      /\ r.does[r.pc].do \in kinds
      /\ DOMAIN r = Fields /\ r = [x \in Fields |-> r[x]]
  BY AtCareful
<1>2. request' = [request EXCEPT ![c] = q]
  BY DEF Proceed
<1>3. /\ Follows(r, q) /\ q.tenant = r.tenant /\ q.conn = r.conn
      /\ q.committed = r.committed /\ q.loaded = r.loaded /\ q.writes = r.writes
  BY <1>1 DEF Follows, Fields
<1> HIDE DEF q
<1>4. r.does[r.pc].do # "commit" /\ ~ LoadsById(r.does[r.pc])
  BY <1>1 DEF LoadsById
<1>5. Fits(q)
  BY <1>1, <1>3, <1>4, FitsOn
<1> QED  BY <1>2, <1>3, <1>5, GoesOn

\* The flush reads its rows again: with the tenant named it finds them, and after
\* the commit of the one route that goes on it fails.
LEMMA RefreshAnswers == ASSUME Inv, Answers, NEW c \in Clients, RefreshRows(c) PROVE Answers'
<1> DEFINE r == request[c]
           s == r.does[r.pc]
           g == settings[r.conn]
           rows == Loaded(r, s.on)
<1>1. At(c, {"refresh"}) /\ UNCHANGED <<settings, holder>>
  BY DEF RefreshRows
<1>2. CASE Proceed(c, request[c])
  BY <1>1, <1>2, ProceedsAnswers
<1>3. CASE Permitted(g, s.on, "select", rows) # rows /\ Stop(c, "error")
  <2>1. /\ r # None /\ IsRequest(c, r) /\ ~ Ended(r) /\ Fits(r) /\ Tells(r, g)
        /\ s.do \in {"refresh"}
        /\ r.name = "accept_invite" => s.do \in {"set", "load", "accept"}
    BY <1>1, AtCareful
  <2>2. s.do = "refresh" =>
          \/ Scoped(r.does, r.pc)
          \/ r.name = "transition_order_fulfillment" /\ \E j \in Past(r) : r.does[j].do = "commit"
    BY <1>1, AtCareful
  <2>3. ASSUME Scoped(r.does, r.pc) PROVE Known(r)
    <3>1. g.tenant = r.tenant
      <4>1. IsRequest(c, r) /\ Tells(r, g)
        BY <2>1
      <4> HIDE DEF r, g
      <4> QED  BY <2>3, <4>1, ScopedNames
    <3>2. PICK row \in rows : row \notin Permitted(g, s.on, "select", rows)
      BY <1>3 DEF Permitted
    <3>3. PICK x \in r.loaded : x.row = row
      BY <3>2 DEF Loaded
    <3>4. row.tenant # g.tenant
      <4> HIDE DEF r, s, g, rows
      <4> QED  BY <3>2, OwnRowsAreShown DEF Permitted
    <3>5. HeldOK(r) /\ r.name # "accept_invite"
      BY <2>1 DEF Fits
    <3>6. r.name \in TransitionsById /\ r.caller \in PlatformAdmins /\ r.target # r.tenant
      BY <3>1, <3>3, <3>4, <3>5 DEF HeldOK
    <3> HIDE DEF r
    <3> QED  BY <3>6 DEF Known
  <2>4. Known(r)
    <3>1. CASE r.name = "transition_order_fulfillment"
                 /\ \E j \in Past(r) : r.does[j].do = "commit"
      <4>1. r.committed
        BY <2>1, <3>1 DEF Fits
      <4> HIDE DEF r
      <4> QED  BY <3>1, <4>1 DEF Known
    <3> QED  BY <2>1, <2>2, <2>3, <3>1
  <2> QED  BY <1>1, <1>3, <2>1, <2>4, StopAnswers
<1> QED  BY <1>2, <1>3 DEF RefreshRows, Current, Context

\* A reference is stored, or answered as a conflict, or is the known failure.
LEMMA ReferAnswers == ASSUME Inv, Answers, NEW c \in Clients, StoreReference(c) PROVE Answers'
<1> DEFINE r == request[c]
           s == r.does[r.pc]
<1>1. At(c, {"refer"}) /\ UNCHANGED <<settings, holder>>
  BY DEF StoreReference
<1>2. /\ r # None /\ IsRequest(c, r) /\ ~ Ended(r) /\ r.status = "running"
      /\ s.do \in {"refer"} /\ s = Current(c) /\ Fits(r)
      /\ DOMAIN r = Fields /\ r = [x \in Fields |-> r[x]]
  BY <1>1, AtCareful
<1>3. s.by = "conflict" \/ (s.by = "error" /\ r.name = "create_upload_url")
  BY <1>1, <1>2, AtCareful
<1>4. CASE Stop(c, s.by)
  <2>1. s.by = "error" => Known(r)
    BY <1>2, <1>3 DEF Known
  <2> QED  BY <1>1, <1>2, <1>3, <1>4, <2>1, StopAnswers
<1>5. ASSUME NEW rows, Proceed(c, [r EXCEPT !.refers = @ \cup Tagged(s.on, rows)])
      PROVE  Answers'
  <2> DEFINE more == r.refers \cup Tagged(s.on, rows)
             q == [r EXCEPT !.pc = @ + 1, !.refers = more]
  <2> HIDE DEF more
  <2>1. /\ Follows(r, q) /\ q.tenant = r.tenant /\ q.conn = r.conn
        /\ q.committed = r.committed /\ q.loaded = r.loaded /\ q.writes = r.writes
    BY <1>2 DEF Follows, Fields
  <2>2. request' = [request EXCEPT ![c] = q]
    BY <1>2, <1>5 DEF Proceed, Fields, more
  <2> HIDE DEF q
  <2>3. r.does[r.pc].do # "commit" /\ ~ LoadsById(r.does[r.pc])
    BY <1>2 DEF LoadsById
  <2>4. Fits(q)
    BY <1>2, <2>1, <2>3, FitsOn
  <2> QED  BY <1>1, <2>1, <2>2, <2>4, GoesOn
<1> QED  BY <1>2, <1>4, <1>5 DEF StoreReference

\* A role is required.
LEMMA RequireAnswers == ASSUME Inv, Answers, NEW c \in Clients, RequireRole(c) PROVE Answers'
<1>1. /\ At(c, {"require"}) /\ UNCHANGED <<settings, holder>>
      /\ request[c] # None /\ ~ Ended(request[c])
  BY DEF RequireRole, At
<1>2. CASE Proceed(c, request[c])
  BY <1>1, <1>2, ProceedsAnswers
<1>3. CASE Stop(c, "forbidden")
  BY <1>1, <1>3, StopAnswers
<1> QED  BY <1>2, <1>3 DEF RequireRole

\* The tenant is resolved before anything is loaded or written; several are found
\* for a member of several tenants who names none.
LEMMA ResolveAnswers == ASSUME Inv, Answers, NEW c \in Clients, ResolveTenant(c) PROVE Answers'
<1> DEFINE r == request[c]
           s == r.does[r.pc]
<1>1. At(c, {"resolve"}) /\ UNCHANGED <<settings, holder>>
  BY DEF ResolveTenant
<1>2. /\ r # None /\ IsRequest(c, r) /\ ~ Ended(r) /\ r.status = "running"
      /\ r.conn # None /\ s.do \in {"resolve"} /\ s = Current(c)
      /\ DOMAIN r = Fields /\ r = [x \in Fields |-> r[x]] /\ Fits(r)
  BY <1>1, AtCareful
<1>3. s.do = "resolve" => \A j \in Past(r) : r.does[j].do # "resolve"
  BY <1>1, AtCareful
<1>4. /\ r.pc \in 1 .. Len(r.does) /\ r.kind = "tenant" /\ s = Resolve
      /\ \A j \in Past(r) : ~ SetsTenant(r.does[j])
  <2>1. r.pc \in 1 .. Len(r.does)
    BY <1>1, AtStatement
  <2> QED  BY <1>2, <2>1 DEF IsRequest, InOrder, Past
<1>5. r.name # "accept_invite" /\ Careful(r.name, r.kind, r.does)
  BY <1>2, <1>4 DEF Fits, Careful
<1>6. \A row \in Found(c) : row \in Memberships /\ Own(r, row)
  <2>1. s.on = "tenant_members" /\ s.by = "own"
    BY <1>4 DEF Resolve, Statement
  <2>2. \A row \in Found(c) : row \in Rows(s.on) /\ Matches(r, s.by, row)
    BY DEF Found, Permitted, Current
  <2> QED  BY <2>1, <2>2 DEF Rows, Matches
<1>7. CASE Cardinality(Found(c)) > 1 /\ Stop(c, "error")
  <2>1. IsFiniteSet(Found(c))
    BY <1>6, MembershipsAssumption, FS_Subset
  <2>2. PICK m, n \in Found(c) : m # n
    BY <1>7, <2>1, SeveralElements
  <2>3. /\ {m, n} \subseteq Memberships /\ m.user = r.caller /\ n.user = r.caller
        /\ m.status = "active" /\ n.status = "active"
        /\ r.at # None => m.tenant = r.at /\ n.tenant = r.at
    BY <1>6, <2>2 DEF Own
  <2>4. m.tenant # n.tenant
    <3>1. r.caller # None
      BY <1>2, <1>4 DEF IsRequest
    <3> QED  BY <2>2, <2>3, <3>1, MembershipsAssumption
  <2>5. m.tenant \in TenantsOf(r.caller) /\ n.tenant \in TenantsOf(r.caller)
    BY <2>3 DEF TenantsOf
  <2>6. IsFiniteSet(TenantsOf(r.caller))
    <3>1. TenantsOf(r.caller) \subseteq Tenants
      BY IsolationAssumption, ZenonT(30) DEF TenantsOf, TenantMember
    <3> QED  BY <3>1, MembershipsAssumption, FS_Subset
  <2>7. Cardinality(TenantsOf(r.caller)) > 1
    BY <2>4, <2>5, <2>6, SeveralElements
  <2>8. r.tenant = None
    BY <1>2, <1>3, <1>4 DEF Fits
  <2>9. Known(r)
    BY <1>4, <2>3, <2>4, <2>7, <2>8 DEF Known
  <2> QED  BY <1>1, <1>2, <1>7, <2>9, StopAnswers
<1>8. CASE Stop(c, "forbidden")
  BY <1>1, <1>2, <1>8, StopAnswers
<1>9. ASSUME NEW row \in Found(c), Proceed(c, [r EXCEPT !.tenant = row.tenant]) PROVE Answers'
  <2> DEFINE q == [r EXCEPT !.pc = @ + 1, !.tenant = row.tenant]
  <2>1. request' = [request EXCEPT ![c] = q]
    BY <1>2, <1>9 DEF Proceed, Fields
  <2>2. /\ Follows(r, q) /\ q.conn = r.conn
        /\ q.committed = r.committed /\ q.loaded = r.loaded /\ q.writes = r.writes
    BY <1>2 DEF Follows, Fields
  <2> HIDE DEF q
  <2>3. Past(q) = Past(r) \cup {r.pc}
    <3>1. r.pc \in Nat \ {0} /\ q.pc = r.pc + 1
      BY <1>2, <2>2 DEF IsRequest, Follows
    <3> QED  BY <3>1, PastGrows
  <2>4. r.loaded = {}
    BY <1>2, <1>4, <1>5 DEF Fits, HeldOK
  <2>5. HeldOK(q)
    BY <2>2, <2>4 DEF HeldOK
  <2>6. ASSUME NEW j \in Past(r)
        PROVE  ~ LoadsById(r.does[j]) /\ ~ SetsTenant(r.does[j])
    <3>1. j \in 1 .. Len(r.does) /\ 1 .. (j - 1) \subseteq Past(r)
      BY <1>2, <1>4 DEF Past, IsRequest, InOrder
    <3>2. ~ Scoped(r.does, j)
      BY <1>4, <3>1 DEF Scoped
    <3>3. r.does[j].do # "load"
      BY <1>5, <3>1, <3>2 DEF Careful
    <3> QED  BY <1>4, <3>3 DEF LoadsById
  <2>7. IdOK(q)
    <3>1. ~ LoadsById(s)
      BY <1>2 DEF LoadsById
    <3> QED  BY <2>2, <2>3, <2>6, <3>1 DEF IdOK, Follows
  <2>8. DeleteOK(q)
    <3>1. DeleteOK(r)
      BY <1>2 DEF Fits
    <3>2. ~ ((\E i \in 1 .. Len(r.does) : r.does[i].do = "delete") /\ r.writes # {})
      BY <2>6, <3>1 DEF DeleteOK
    <3> QED  BY <2>2, <3>2 DEF DeleteOK, Follows
  <2>9. q.committed <=> \E j \in Past(q) : q.does[j].do = "commit"
    <3>1. q.does = r.does /\ (r.committed <=> \E j \in Past(r) : r.does[j].do = "commit")
      BY <1>2, <2>2 DEF Fits, Follows
    <3>2. s.do # "commit"
      BY <1>2
    <3> QED  BY <2>2, <2>3, <3>1, <3>2
  <2>10. Fits(q)
    <3>1. q.status = "running" /\ q.kind = "tenant" /\ q.pc \in 1 .. (Len(q.does) + 1)
      <4>1. q.status = "running" /\ q.kind = "tenant" /\ q.pc = r.pc + 1 /\ q.does = r.does
        BY <1>2, <1>4, <2>2 DEF Follows
      <4>2. Len(r.does) \in Nat
        BY <1>2 DEF IsRequest, InOrder
      <4> QED  BY <1>4, <4>1, <4>2
    <3>2. \E j \in Past(q) : q.does[j].do = "resolve"
      BY <1>2, <2>2, <2>3 DEF Follows
    <3>3. Careful(q.name, q.kind, q.does)
      BY <1>5, <2>2 DEF Follows
    <3>4. ReferOK(q)
      BY <1>2, <2>2 DEF Fits, ReferOK, Follows
    <3> QED  BY <2>5, <2>7, <2>8, <2>9, <3>1, <3>2, <3>3, <3>4 DEF Fits
  <2> QED  BY <1>1, <2>1, <2>2, <2>10, GoesOn
<1> QED  BY <1>7, <1>8, <1>9 DEF ResolveTenant

\* accept_invite updates all its invitations under the last one's tenant: one of
\* another tenant is what it fails for.
LEMMA AcceptAnswers == ASSUME Inv, Answers, NEW c \in Clients, AcceptInvitations(c) PROVE Answers'
<1> DEFINE r == request[c]
           s == r.does[r.pc]
           g == settings[r.conn]
           invitations == Loaded(r, "tenant_members")
           q == [r EXCEPT !.pc = @ + 1, !.writes = r.writes \cup r.loaded]
<1>1. At(c, {"accept"}) /\ holder' = holder
  BY DEF AcceptInvitations
<1>2. /\ r # None /\ IsRequest(c, r) /\ ~ Ended(r) /\ r.status = "running"
      /\ r.conn # None /\ r.conn \in Connections /\ s.do \in {"accept"} /\ g = Context(c)
      /\ DOMAIN r = Fields /\ r = [x \in Fields |-> r[x]]
      /\ Fits(r) /\ Named(r, g) /\ LoadedOK(r)
  BY <1>1, AtCareful
<1>3. s.do = "accept" => \E j \in Past(r) : r.does[j] = Set("email")
  BY <1>1, AtCareful
<1>4. r.name = "accept_invite" /\ r.pc = Len(r.does) /\ r.pc \in Nat
  <2>1. r.pc \in 1 .. Len(r.does)
    BY <1>1, AtStatement
  <2> QED  BY <1>2, <2>1 DEF IsRequest, InOrder
<1>5. g.email = r.caller
  BY <1>2, <1>3, <1>4 DEF Named
<1>6. PICK last \in invitations :
        /\ settings' = [settings EXCEPT ![r.conn] = [g EXCEPT !.tenant = last.tenant]]
        /\ IF Permitted([g EXCEPT !.tenant = last.tenant], "tenant_members", "update",
                        invitations) = invitations
           THEN Proceed(c, [r EXCEPT !.writes = @ \cup r.loaded])
           ELSE Stop(c, "error")
  BY <1>2 DEF AcceptInvitations
<1>7. \A n \in Connections : holder[n] \in Clients \ {c} => settings'[n] = settings[n]
  <2>1. holder[r.conn] = c
    BY <1>1, AtStatement
  <2>2. \A n \in Connections \ {r.conn} : settings'[n] = settings[n]
    BY <1>6 DEF Inv, Typed
  <2> QED  BY <2>1, <2>2
<1>8. CASE /\ Permitted([g EXCEPT !.tenant = last.tenant], "tenant_members", "update",
                        invitations) # invitations
           /\ Stop(c, "error")
  <2> DEFINE k == [g EXCEPT !.tenant = last.tenant]
  <2>1. PICK row \in invitations : row \notin Permitted(k, "tenant_members", "update", invitations)
    BY <1>8 DEF Permitted
  <2>2. k.tenant = last.tenant
    <3>1. g \in [{"tenant", "user", "email"} -> Values]
      BY <1>2 DEF Inv, Typed
    <3> QED  BY <3>1
  <2> HIDE DEF k
  <2>3. row.tenant # last.tenant
    <3> SUFFICES ASSUME row.tenant = last.tenant PROVE FALSE
      OBVIOUS
    <3>1. "tenant_members" \notin AppendOnly
      BY DEF AppendOnly
    <3> HIDE DEF invitations
    <3>2. row \in Permitted(k, "tenant_members", "update", invitations)
      BY <2>2, <3>1, OwnRowsAreWritable
    <3> QED  BY <2>1, <3>2
  <2> DEFINE S == {x.row.tenant : x \in r.loaded}
  <2>4. last.tenant \in S /\ row.tenant \in S
    <3>1. \A y \in invitations : \E x \in r.loaded : y = x.row
      BY DEF Loaded
    <3>2. \A y \in invitations : y.tenant \in S
      BY <3>1
    <3> QED  BY <3>2
  <2>5. IsFiniteSet(S)
    <3>1. S \subseteq Tenants
      BY <1>2 DEF LoadedOK
    <3> HIDE DEF S
    <3> QED  BY <3>1, MembershipsAssumption, FS_Subset
  <2>6. Cardinality(S) > 1
    <3> HIDE DEF S
    <3> QED  BY <2>3, <2>4, <2>5, SeveralElements
  <2>7. Known(r)
    <3> HIDE DEF r
    <3> QED  BY <1>4, <2>6 DEF Known
  <2> QED  BY <1>2, <1>7, <1>8, <2>7, StopAnswers
<1>9. CASE Proceed(c, [r EXCEPT !.writes = @ \cup r.loaded])
  <2>1. request' = [request EXCEPT ![c] = q]
    BY <1>2, <1>9 DEF Proceed, Fields
  <2>2. /\ Follows(r, q) /\ q.tenant = r.tenant /\ q.conn = r.conn
        /\ q.committed = r.committed /\ q.loaded = r.loaded
    BY <1>2 DEF Follows, Fields
  <2> HIDE DEF q
  <2>3. DeleteOK(q)
    <3>1. ~ \E i \in 1 .. Len(r.does) : r.does[i].do = "delete"
      BY <1>2, <1>4 DEF Fits, Careful
    <3> QED  BY <2>2, <3>1 DEF DeleteOK, Follows
  <2>4. Fits(q)
    <3>1. s.do # "commit" /\ ~ LoadsById(s)
      BY <1>2 DEF LoadsById
    <3> QED  BY <1>2, <2>2, <2>3, <3>1, FitsOn
  <2>5. Ended(q)
    BY <1>4, <2>2 DEF Ended, Follows
  <2>6. Knows(q, settings')
    BY <2>4, <2>5 DEF Knows
  <2> QED  BY <1>7, <2>1, <2>6, OneAnswer
<1> QED  BY <1>6, <1>8, <1>9

\* set_config: the address that is named is the caller's.
LEMMA SetAnswers == ASSUME Inv, Answers, NEW c \in Clients, SetConfig(c) PROVE Answers'
<1> DEFINE r == request[c]
           s == r.does[r.pc]
           n == r.conn
           g == settings[n]
           x == IF s.on = "tenant" THEN r.tenant ELSE r.caller
           v == [g EXCEPT ![s.on] = x]
           q == [r EXCEPT !.pc = @ + 1]
<1>1. At(c, {"set"}) /\ holder' = holder
  BY DEF SetConfig
<1>2. /\ r # None /\ IsRequest(c, r) /\ ~ Ended(r) /\ r.status = "running"
      /\ n # None /\ n \in Connections /\ s.do \in {"set"} /\ s = Current(c)
      /\ DOMAIN r = Fields /\ r = [y \in Fields |-> r[y]]
      /\ Fits(r) /\ Named(r, g)
  BY <1>1, AtCareful
<1>3. settings' = [settings EXCEPT ![n] = v] /\ request' = [request EXCEPT ![c] = q]
  BY <1>2 DEF SetConfig, Proceed
<1>4. /\ Follows(r, q) /\ q.tenant = r.tenant /\ q.conn = r.conn
      /\ q.committed = r.committed /\ q.loaded = r.loaded /\ q.writes = r.writes
  BY <1>2 DEF Follows, Fields
<1>5. settings'[n] = v /\ \A m \in Connections \ {n} : settings'[m] = settings[m]
  BY <1>2, <1>3 DEF Inv, Typed
<1>6. \A m \in Connections : holder[m] \in Clients \ {c} => settings'[m] = settings[m]
  <2>1. holder[n] = c
    BY <1>1, AtStatement
  <2> HIDE DEF n, v
  <2> QED  BY <1>5, <2>1
<1> HIDE DEF q
<1>7. Past(q) = Past(r) \cup {r.pc} /\ Fits(q)
  <2>1. s.do # "commit" /\ ~ LoadsById(s)
    BY <1>2 DEF LoadsById
  <2> QED  BY <1>2, <1>4, <2>1, FitsOn
<1>8. ASSUME r.name = "accept_invite", \E j \in Past(q) : q.does[j] = Set("email")
      PROVE  v.email = r.caller
  <2>1. g \in [{"tenant", "user", "email"} -> Values]
    BY <1>2 DEF Inv, Typed
  <2>2. s.on # "tenant"
    <3>1. r.name = "accept_invite" => r.kind = "user"
      BY <1>1, AtCareful
    <3>2. r.pc \in 1 .. Len(r.does)
      BY <1>1, AtStatement
    <3> QED  BY <1>2, <1>8, <3>1, <3>2 DEF IsRequest, InOrder, SetsTenant
  <2>3. CASE s.on = "email"
    BY <2>1, <2>2, <2>3
  <2>4. CASE s.on # "email"
    <3>1. s # Set("email")
      <4>1. Set("email").on = "email"
        BY DEF Set, Statement
      <4> QED  BY <2>4, <4>1
    <3>2. \E j \in Past(r) : r.does[j] = Set("email")
      <4> HIDE DEF r
      <4> QED  BY <1>4, <1>7, <1>8, <3>1 DEF Follows
    <3>3. g.email = r.caller
      BY <1>2, <1>8, <3>2 DEF Named
    <3> QED  BY <2>1, <2>4, <3>3
  <2> QED  BY <2>3, <2>4
<1>9. Named(q, settings'[q.conn])
  <2>1. q.name = r.name /\ q.caller = r.caller /\ q.conn = n
    BY <1>4 DEF Follows
  <2> HIDE DEF r, n, v
  <2> QED  BY <1>5, <1>8, <2>1 DEF Named
<1>10. Knows(q, settings')
  BY <1>7, <1>9 DEF Knows
<1> QED  BY <1>3, <1>6, <1>10, OneAnswer

\* The end of a transaction concerns one connection.
LEMMA ReleaseOwn ==
    ASSUME Inv, NEW c \in Clients, request[c] # None, request[c].conn # None, Release(c)
    PROVE  \A m \in Connections : holder[m] \in Clients \ {c} => settings'[m] = settings[m]
<1>1. holder[request[c].conn] = c
  BY DEF Inv, Good
<1>2. \A m \in Connections \ {request[c].conn} : settings'[m] = settings[m]
  BY DEF Inv, Typed, Release
<1> QED  BY <1>1, <1>2

\* Rolled back, or answered.
LEMMA LeaveAnswers ==
    ASSUME Inv, Answers, NEW c \in Clients, Refuse(c) \/ Answer(c)
    PROVE  Answers'
<1>1. request[c] # None /\ request' = [request EXCEPT ![c] = None]
  BY DEF Refuse, Answer
<1>2. CASE request[c].conn = None /\ Answer(c)
  BY <1>1, <1>2, OneAnswer DEF Answer, Knows
<1>3. CASE request[c].conn # None
  <2>1. Release(c)
    BY <1>3 DEF Refuse, Answer
  <2> QED  BY <1>1, <1>3, <2>1, ReleaseOwn, OneAnswer DEF Knows
<1>4. Refuse(c) => request[c].conn # None
  BY <1>1 DEF Refuse, Inv, Good, IsRequest
<1> QED  BY <1>2, <1>3, <1>4

\* A commit before the end.
LEMMA CommitAnswers == ASSUME Inv, Answers, NEW c \in Clients, CommitEarly(c) PROVE Answers'
<1> DEFINE r == request[c]
           q == [r EXCEPT !.pc = @ + 1, !.conn = None, !.committed = TRUE]
<1>1. At(c, {"commit"}) /\ Release(c)
  BY DEF CommitEarly
<1>2. /\ r # None /\ IsRequest(c, r) /\ r.status = "running" /\ r.conn # None
      /\ r.does[r.pc].do \in {"commit"}
      /\ DOMAIN r = Fields /\ r = [y \in Fields |-> r[y]] /\ Fits(r)
  BY <1>1, AtCareful
<1>3. request' = [request EXCEPT ![c] = q]
  BY <1>2 DEF CommitEarly, Proceed, Fields
<1>4. /\ Follows(r, q) /\ q.tenant = r.tenant /\ q.conn = None /\ q.committed
      /\ q.writes = r.writes /\ q.loaded = r.loaded
  BY <1>2 DEF Follows, Fields
<1> HIDE DEF q
<1>5. Past(q) = Past(r) \cup {r.pc}
  <2>1. r.pc \in Nat \ {0} /\ q.pc = r.pc + 1
    BY <1>2, <1>4 DEF IsRequest, Follows
  <2> QED  BY <2>1, PastGrows
<1>6. ~ LoadsById(r.does[r.pc])
  BY <1>2 DEF LoadsById
<1>7. HeldOK(q) /\ IdOK(q) /\ DeleteOK(q) /\ ReferOK(q)
  <2>1. HeldOK(r) /\ IdOK(r) /\ DeleteOK(r) /\ ReferOK(r)
    BY <1>2 DEF Fits
  <2>2. HeldOK(q)
    BY <1>4, <1>5, <2>1 DEF HeldOK, Follows
  <2>3. IdOK(q)
    BY <1>4, <1>5, <1>6, <2>1 DEF IdOK, Follows
  <2>4. DeleteOK(q)
    BY <1>4, <1>5, <2>1 DEF DeleteOK, Follows
  <2>5. ReferOK(q)
    BY <1>2, <1>4, <2>1 DEF ReferOK, Follows
  <2> QED  BY <2>2, <2>3, <2>4, <2>5
<1>8. q.kind = "tenant" /\ q.tenant # None => \E j \in Past(q) : q.does[j].do = "resolve"
  BY <1>2, <1>4, <1>5, ZenonT(30) DEF Fits, Follows
<1>9. \E j \in Past(q) : q.does[j].do = "commit"
  <2>1. q.does = r.does /\ r.pc \in Past(q)
    BY <1>4, <1>5 DEF Follows
  <2> QED  BY <1>2, <2>1
<1>10. q.pc \in 1 .. (Len(q.does) + 1)
  <2>1. r.pc \in 1 .. Len(r.does)
    BY <1>1, AtStatement
  <2>2. q.pc = r.pc + 1 /\ q.does = r.does /\ Len(r.does) \in Nat
    BY <1>2, <1>4 DEF IsRequest, InOrder, Follows
  <2> QED  BY <2>1, <2>2
<1>11. Fits(q)
  BY <1>2, <1>4, <1>7, <1>8, <1>9, <1>10 DEF Fits, Follows
<1>12. Knows(q, settings')
  BY <1>4, <1>11 DEF Knows
<1> QED  BY <1>1, <1>2, <1>3, <1>12, ReleaseOwn, OneAnswer

\* Nobody commits and then accepts invitations.
LEMMA BorrowAnswers == ASSUME Inv, Answers, NEW c \in Clients, Borrow(c) PROVE Answers'
<1> DEFINE r == request[c]
<1>1. r # None /\ ~ Ended(r) /\ r.conn = None /\ UNCHANGED settings
  BY DEF Borrow
<1>2. PICK n \in Pool : request' = [request EXCEPT ![c].conn = n]
  BY DEF Borrow
<1> DEFINE q == [r EXCEPT !.conn = n]
<1>3. Good(c, r, holder, settings) /\ IsRequest(c, r) /\ Fits(r)
  BY <1>1 DEF Inv, Good, Answers, Knows
<1>4. /\ q.status = r.status
      /\ q.name = r.name /\ q.kind = r.kind /\ q.does = r.does /\ q.caller = r.caller
      /\ q.at = r.at /\ q.target = r.target /\ q.tenant = r.tenant /\ q.pc = r.pc
      /\ q.loaded = r.loaded /\ q.writes = r.writes /\ q.refers = r.refers
      /\ q.committed = r.committed
  BY <1>3 DEF IsRequest, Fields
<1>5. request' = [request EXCEPT ![c] = q]
  BY <1>2 DEF Inv, Typed
<1> HIDE DEF q
<1>6. Past(q) = Past(r)
  BY <1>4 DEF Past
<1>7. Fits(q)
  <2>1. HeldOK(q) /\ IdOK(q) /\ DeleteOK(q) /\ ReferOK(q)
    BY <1>3, <1>4, <1>6 DEF Fits, HeldOK, IdOK, DeleteOK, ReferOK
  <2>2. r.status = "running"
    BY <1>1 DEF Ended
  <2> HIDE DEF r
  <2> QED  BY <1>3, <1>4, <1>6, <2>1, <2>2 DEF Fits
<1>8. r.name # "accept_invite"
  <2>1. PICK j \in Past(r) : r.does[j].do = "commit"
    BY <1>1, <1>3 DEF IsRequest, Past
  <2>2. j \in 1 .. Len(r.does)
    <3>1. ~ r.pc > Len(r.does)
      BY <1>1 DEF Ended
    <3>2. r.pc \in Nat \ {0} /\ Len(r.does) \in Nat
      BY <1>3 DEF IsRequest, InOrder
    <3> HIDE DEF r
    <3> QED  BY <2>1, <3>1, <3>2 DEF Past
  <2> QED  BY <1>3, <2>1, <2>2 DEF Fits, Careful
<1>9. Knows(q, settings')
  BY <1>4, <1>7, <1>8 DEF Knows, Named
<1> QED  BY <1>1, <1>5, <1>9, OneAnswer

\* A route starts with nothing done.
LEMMA StartAnswers ==
    ASSUME Inv, Answers, NEW c \in Clients, NEW n, NEW routes \in {Endpoints, Tasks},
           Start(c, n, routes)
    PROVE  Answers'
<1>1. PICK name \in DOMAIN routes : \E asked \in Asked(routes[name].kind) :
        request' = [request EXCEPT ![c] = Started(name, routes[name], asked, n)]
  BY DEF Start
<1>2. PICK asked \in Asked(routes[name].kind) :
        request' = [request EXCEPT ![c] = Started(name, routes[name], asked, n)]
  BY <1>1
<1> DEFINE kind == routes[name].kind
           q == Started(name, routes[name], asked, n)
<1>3. Careful(name, kind, routes[name].does)
  BY CarefulRoutesAssumption
<1>4. /\ q.status = "running" /\ q.name = name /\ q.kind = kind /\ q.does = routes[name].does
      /\ q.at = asked.at /\ q.target = asked.target
      /\ q.pc = 1 /\ q.loaded = {} /\ q.writes = {} /\ q.refers = {} /\ ~ q.committed
      /\ kind = "tenant" => q.tenant = None
  BY DEF Started
<1>5. kind = "task" => asked.target = asked.at
  <2>1. asked \in Asked(kind)
    BY <1>2
  <2> HIDE DEF kind
  <2> QED  BY <2>1 DEF Asked
<1>6. request' = [request EXCEPT ![c] = q] /\ UNCHANGED settings
  BY <1>2 DEF Start
<1> HIDE DEF q, kind
<1>7. Past(q) = {}
  BY <1>4 DEF Past
<1>8. Fits(q)
  <2>1. q.pc \in 1 .. (Len(q.does) + 1)
    BY <1>4, RoutesAssumption DEF InOrder
  <2> QED  BY <1>3, <1>4, <1>5, <1>7, <2>1 DEF Fits, HeldOK, IdOK, DeleteOK, ReferOK
<1>9. Knows(q, settings')
  BY <1>7, <1>8 DEF Knows, Named
<1> QED  BY <1>6, <1>9, OneAnswer

\* Every step keeps it.
LEMMA StepAnswers == Inv /\ Answers /\ [IsolationNext]_isolation => Answers'
<1> SUFFICES ASSUME Inv, Answers, [IsolationNext]_isolation PROVE Answers'
  OBVIOUS
<1>1. CASE UNCHANGED isolation
  BY <1>1 DEF Answers, isolation
<1>2. ASSUME NEW c \in Clients, Begin(c) PROVE Answers'
  BY <1>2, StartAnswers DEF Begin
<1>3. ASSUME NEW c \in Clients, Deliver(c) PROVE Answers'
  BY <1>3, StartAnswers DEF Deliver
<1> QED  BY <1>1, <1>2, <1>3, SetAnswers, ReadAnswers, InsertAnswers, WriteAnswers,
            ReferAnswers, RefreshAnswers, ResolveAnswers, RequireAnswers, AcceptAnswers,
            LeaveAnswers, CommitAnswers, BorrowAnswers
         DEF IsolationNext

THEOREM EveryRequestFits == IsolationSpec => [](Inv /\ Answers)
<1>1. IsolationInit => Answers
  BY DEF IsolationInit, Answers, Knows
<1> QED  BY <1>1, InitInv, StepInv, StepAnswers, PTL DEF IsolationSpec

-----------------------------------------------------------------------------
\* The database refuses a statement of the routes in five cases and no other, on
\* whatever connection and whatever its last borrower left there.
THEOREM FailuresKnown == IsolationSpec => []FailuresAreKnown
<1>1. ASSUME Answers PROVE FailuresAreKnown
  <2>1. ASSUME NEW r \in Answered, Outcome(r) = "error" PROVE Known(r)
    <3>1. Fits(r)
      BY <1>1 DEF Answered, Requests, Answers, Knows
    <3>2. r.status = "error"
      BY <2>1 DEF Outcome
    <3> QED  BY <3>1, <3>2 DEF Fits
  <2> QED  BY <2>1 DEF FailuresAreKnown, Known
<1> QED  BY <1>1, EveryRequestFits, PTL

\* The id of another tenant's row gets the answer of an id of none from whichever
\* route looks it up, but of the three transitions and by a platform administrator;
\* only the three routes that look up no id of a category or a product of the body
\* can store a reference to another tenant's row.
THEOREM ForeignIdsRefused == IsolationSpec => []ForeignIdsAreNotFound
<1>1. ASSUME Inv, Answers PROVE ForeignIdsAreNotFound
  <2>7. ASSUME NEW r \in Answered
        PROVE  \A x \in r.refers : x.row.tenant = r.tenant \/ r.name \in StoresReferences
    BY <1>1 DEF Answered, Requests, Answers, Knows, Fits, ReferOK
  <2> SUFFICES ASSUME NEW r \in Answered, r.tenant # None, r.tenant # r.target, LooksUpAnId(r)
               PROVE  \/ Outcome(r) \in {"forbidden", "not found"}
                      \/ \E i \in 1 .. Len(r.does) : r.does[i].do = "delete" /\ r.writes = {}
                      \/ r.name \in TransitionsById /\ r.caller \in PlatformAdmins
    BY <2>7 DEF ForeignIdsAreNotFound
  <2>1. PICK c \in Clients : r = request[c] /\ request[c] # None
    BY DEF Answered, Requests
  <2>2. Fits(r) /\ Good(c, r, holder, settings) /\ IsRequest(c, r) /\ TargetOK(r) /\ Ended(r)
    BY <1>1, <2>1 DEF Answers, Knows, Inv, Good, Answered
  <2>3. PICK i \in 1 .. Len(r.does) :
          r.does[i].do \in {"load", "delete"} /\ r.does[i].by \in {"id", "id and tenant"}
    BY DEF LooksUpAnId
  <2>4. CASE r.does[i].do = "delete"
    BY <2>2, <2>3, <2>4 DEF Fits, DeleteOK
  <2>5. CASE r.does[i].do = "load" /\ r.status = "running"
    <3>1. r.pc > Len(r.does) /\ r.pc \in Nat /\ Len(r.does) \in Nat
      BY <2>2, <2>5 DEF Ended, IsRequest, InOrder
    <3>2. i \in Past(r)
      <4>1. 1 .. Len(r.does) \subseteq 1 .. (r.pc - 1)
        BY <3>1
      <4> QED  BY <4>1 DEF Past
    <3> QED  BY <2>2, <2>3, <2>5, <3>2 DEF Fits, IdOK, LoadsById
  \* A reference comes after every id that is looked up.
  <2>8. CASE r.status # "running" /\ r.does[r.pc].do = "refer" /\ r.does[i].do = "load"
    <3>1. r.pc \in 1 .. Len(r.does) /\ i < r.pc
      BY <2>2, <2>3, <2>8 DEF Fits, Careful
    <3>2. i \in Past(r)
      <4>1. Len(r.does) \in Nat
        BY <2>2 DEF IsRequest, InOrder
      <4>2. i \in 1 .. Len(r.does)
        BY <2>3
      <4>3. i \in 1 .. (r.pc - 1)
        BY <3>1, <4>1, <4>2, Below
      <4> QED  BY <4>3 DEF Past
    <3> QED  BY <2>2, <2>3, <2>8, <3>2 DEF Fits, IdOK, LoadsById
  <2>6. CASE r.status = "error" /\ r.does[r.pc].do # "refer"
    <3>1. Known(r)
      BY <2>2, <2>6 DEF Fits
    <3>2. ~ (r.name = "transition_order_fulfillment" /\ r.committed)
      <4> SUFFICES ASSUME r.name = "transition_order_fulfillment", r.committed PROVE FALSE
        OBVIOUS
      <4>1. PICK k \in Past(r) : r.does[k].do = "commit"
        BY <2>2 DEF Fits
      <4>2. r.pc \in 1 .. (Len(r.does) + 1) /\ Len(r.does) \in Nat
        BY <2>2 DEF Fits, IsRequest, InOrder
      <4>3. k \in 1 .. (r.pc - 1)
        BY <4>1 DEF Past
      <4>4. k \in 1 .. Len(r.does) /\ 1 .. (k - 1) \subseteq Past(r)
        BY <4>2, <4>3 DEF Past
      <4>5. \E j \in 1 .. (k - 1) : Scoped(r.does, j) /\ Identifies(r.does[j])
        BY <2>2, <4>1, <4>4 DEF Fits, Careful
      <4> QED  BY <2>2, <4>4, <4>5 DEF TargetOK, Past
    <3>3. ~ (r.name = "accept_invite")
      <4>1. r.name = "accept_invite" => r.kind = "user"
        BY <2>2, <2>3 DEF Fits, Careful
      <4>2. r.tenant \in Entitled(r)
        BY <2>2 DEF IsRequest
      <4> QED  BY <4>1, <4>2, UsersActInNone
    <3> QED  BY <2>6, <3>1, <3>2, <3>3 DEF Known
  <2> QED  BY <2>2, <2>3, <2>4, <2>5, <2>6, <2>8 DEF Fits, Outcome
<1> QED  BY <1>1, EveryRequestFits, PTL

=============================================================================
