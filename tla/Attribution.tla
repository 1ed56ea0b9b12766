----------------------------- MODULE Attribution -----------------------------
(* The ingest of analytics events (services/analytics_ingest.py,             *)
(* handle_analytics_ingest): a batch names a visitor and a session, keeps    *)
(* the session's first attribution and drops repeated storefront views. The  *)
(* ids come from the browser, which keeps them for all storefronts of its    *)
(* origin, and are primary keys: one tenant's row takes the id from the      *)
(* others.                                                                   *)
(*                                                                           *)
(* Each statement sees what is committed by then. visitors, sessions and     *)
(* events hold what is committed; a request holds the locks of the rows it   *)
(* has written until it ends.                                                *)
EXTENDS Naturals, Sequences

CONSTANTS
    Clients, Tenants, Visitors, Sessions,
    Sources,        \* values of utm_source; "" may be sent too
    Batches,        \* the storefront views of a request: the time each claims, or None
    Window,         \* the ten minutes
    MaxTime, MaxRequests,   \* bounds: of the clock, of the requests begun
    None

Ids == Visitors \cup Sessions
Utm == Sources \cup {"", None}
Session == [tenant : Tenants, utm : Utm]

\* fresh: the ids that other requests have stored since this one came.
Request == [tenant : Tenants, visitor : Visitors, session : Sessions, utm : Utm,
            views : Batches, n : Nat, pc : 1 .. 6, seen : BOOLEAN, fresh : SUBSET Ids,
            status : {"running", "error"}]

ASSUME AttributionAssumption ==
    /\ Window \in Nat /\ MaxTime \in Nat /\ MaxRequests \in Nat
    /\ None \notin Tenants \cup Sources \cup Clients \cup Session \cup Request
    /\ "" \notin Sources
    /\ Visitors \cap Sessions = {}

VARIABLES
    visitors,       \* visitors[v]: the tenant of its row, or None
    sessions,       \* sessions[s]: its row [tenant, utm], or None
    events,         \* the storefront views
    lock,           \* lock[x]: the request that has written row x
    request,        \* request[c]: None when it has none
    now,
    begun,
    offered         \* offered[s]: what its committed requests said of the source

attribution == <<visitors, sessions, events, lock, request, now, begun, offered>>

Owner(x) == IF x \in Visitors THEN visitors[x]
            ELSE IF sessions[x] = None THEN None ELSE sessions[x].tenant
\* Mutant: the views are looked for before the session is locked.
StepsDedupeFirst == <<"dedupe", "find_visitor", "insert_visitor", "find_session",
                      "insert_session", "ingest">>

Steps == <<"find_visitor", "insert_visitor", "find_session", "insert_session", "dedupe", "ingest">>

At(c, step) == request[c] # None /\ request[c].status = "running" /\ Steps[request[c].pc] = step

Begin(c) ==
    /\ request[c] = None \/ (request[c] # None /\ request[c].status = "error")
    /\ begun < MaxRequests /\ begun' = begun + 1
    /\ \E t \in Tenants, v \in Visitors, s \in Sessions, utm \in Utm, views \in Batches :
         request' = [request EXCEPT ![c] =
            [tenant |-> t, visitor |-> v, session |-> s, utm |-> utm, views |-> views,
             n |-> begun + 1, pc |-> 1, seen |-> FALSE, fresh |-> {}, status |-> "running"]]
    /\ UNCHANGED <<visitors, sessions, events, lock, now, offered>>

-----------------------------------------------------------------------------
(* INSERT ... ON CONFLICT (tenant_id, id) DO UPDATE.                         *)

Unlock(c) == [x \in Ids |-> IF lock[x] = c THEN None ELSE lock[x]]
Fail(c) ==
    /\ request' = [request EXCEPT ![c].status = "error"]
    /\ lock' = Unlock(c)
    /\ UNCHANGED <<visitors, sessions, events, now, begun, offered>>

GoOn(c, x, steps) ==
    /\ request' = [request EXCEPT ![c].pc = @ + steps]
    /\ lock' = IF steps = 2 \/ At(c, "insert_visitor") \/ At(c, "insert_session")
               THEN [lock EXCEPT ![x] = c] ELSE lock
    /\ UNCHANGED <<visitors, sessions, events, now, begun, offered>>

\* Mutant: a row is always inserted.
FindNothing(c, step, x) == At(c, step) /\ GoOn(c, x, 1)

\* The unique index of the conflict target is looked at first. A row of the
\* tenant is updated, once nobody else holds it; else the request goes on to insert.
Find(c, step, x) ==
    /\ At(c, step)
    /\ LET ours == Owner(x) = request[c].tenant
           theirs == lock[x] # None /\ lock[x] # c
                       /\ request[lock[x]].tenant = request[c].tenant IN
       /\ ~ theirs
       /\ GoOn(c, x, IF ours THEN 2 ELSE 1)

\* The primary key is not the conflict target: another row with the id, of
\* whatever tenant, is an error. An uncommitted one is waited for.
Insert(c, step, x) ==
    /\ At(c, step) /\ lock[x] = None
    /\ IF Owner(x) # None THEN Fail(c) ELSE GoOn(c, x, 1)

FindVisitor(c) == request[c] # None /\ Find(c, "find_visitor", request[c].visitor)
InsertVisitor(c) == request[c] # None /\ Insert(c, "insert_visitor", request[c].visitor)
FindSession(c) == request[c] # None /\ Find(c, "find_session", request[c].session)
InsertSession(c) == request[c] # None /\ Insert(c, "insert_session", request[c].session)

-----------------------------------------------------------------------------
(* The events.                                                               *)

Dedupe(c) ==
    /\ At(c, "dedupe")
    /\ LET r == request[c] IN
       request' = [request EXCEPT ![c].pc = @ + 1, ![c].seen =
           \E e \in events : e.session = r.session /\ e.tenant = r.tenant /\ e.at + Window > now]
    /\ UNCHANGED <<visitors, sessions, events, lock, now, begun, offered>>

\* Mutant: the last source wins.
AttributionLast(old, new) == IF new = "" THEN None ELSE new

\* COALESCE(old, NULLIF(new, '')).
Attributed(old, new) ==
    CASE old # None -> old
      [] old = None /\ new = "" -> None
      [] OTHER -> new

\* The first view of the batch only, and none after a recent one.
Kept(r) == IF r.seen \/ r.views = <<>> THEN {}
           ELSE {[session |-> r.session, tenant |-> r.tenant, n |-> r.n,
                  claimed |-> r.views[1] # None,
                  at |-> IF r.views[1] = None THEN now ELSE r.views[1]]}

\* The events, and the commit of all that was written.
Ingest(c) ==
    /\ At(c, "ingest")
    /\ LET r == request[c]
           row == sessions[r.session] IN
       /\ events' = events \cup Kept(r)
       /\ visitors' = [visitors EXCEPT ![r.visitor] = r.tenant]
       /\ sessions' = [sessions EXCEPT ![r.session] =
            [tenant |-> r.tenant,
             utm |-> IF row = None THEN r.utm ELSE Attributed(row.utm, r.utm)]]
       /\ offered' = [offered EXCEPT ![r.session] = Append(@, r.utm)]
       /\ request' = [d \in Clients |->
            CASE d = c -> None
              [] d # c /\ request[d] # None ->
                   [request[d] EXCEPT !.fresh = @ \cup
                      {x \in {r.visitor, r.session} : Owner(x) = None}]
              [] OTHER -> None]
    /\ lock' = Unlock(c)
    /\ UNCHANGED <<now, begun>>

\* The visitor leaves the page, or the server stops: rolled back.
Abort(c) ==
    /\ request[c] # None /\ request[c].status = "running"
    /\ request' = [request EXCEPT ![c] = None]
    /\ lock' = Unlock(c)
    /\ UNCHANGED <<visitors, sessions, events, now, begun, offered>>

Tick ==
    /\ now < MaxTime /\ now' = now + 1
    /\ UNCHANGED <<visitors, sessions, events, lock, request, begun, offered>>

-----------------------------------------------------------------------------
AttributionInit ==
    /\ visitors = [v \in Visitors |-> None]
    /\ sessions = [s \in Sessions |-> None]
    /\ events = {}
    /\ lock = [x \in Ids |-> None]
    /\ request = [c \in Clients |-> None]
    /\ now = 0 /\ begun = 0
    /\ offered = [s \in Sessions |-> <<>>]

Finished == begun = MaxRequests /\ now = MaxTime /\ \A c \in Clients :
    request[c] = None \/ (request[c] # None /\ request[c].status = "error")

AttributionNext ==
    \/ \E c \in Clients :
         \/ Begin(c) \/ FindVisitor(c) \/ InsertVisitor(c) \/ FindSession(c) \/ InsertSession(c)
         \/ Dedupe(c) \/ Ingest(c) \/ Abort(c)
    \/ Tick
    \/ Finished /\ UNCHANGED attribution

AttributionSpec == AttributionInit /\ [][AttributionNext]_attribution

-----------------------------------------------------------------------------
(* Properties.                                                               *)

TypeOK ==
    /\ visitors \in [Visitors -> Tenants \cup {None}]
    /\ sessions \in [Sessions -> Session \cup {None}]
    /\ lock \in [Ids -> Clients \cup {None}]
    /\ request \in [Clients -> Request \cup {None}]
    /\ now \in Nat /\ begun \in Nat

\* "Dedupe storefront_view (skip if same session within 10 min)": however the
\* batches of a session race, the server stamps one view in ten minutes. (A view
\* that claims a time of its own is taken at its word.)
OneViewPerWindow ==
    \A e, f \in {x \in events : ~ x.claimed} :
        e.session = f.session /\ e.n # f.n => e.at + Window <= f.at \/ f.at + Window <= e.at

\* "First attribution sticks": a session has the source that its first committed
\* request named, were it empty, or else the first one named later that is not.
FirstAttributionSticks ==
    \A s \in Sessions :
        LET first == offered[s][1]
            Named(i) == i \in 2 .. Len(offered[s]) /\ offered[s][i] \notin {None, ""} IN
        sessions[s] # None =>
            \/ first # None /\ sessions[s].utm = first
            \/ /\ first = None
               /\ \E i \in DOMAIN offered[s] :
                     /\ Named(i) /\ \A j \in DOMAIN offered[s] : Named(j) => i <= j
                     /\ sessions[s].utm = offered[s][i]
            \/ /\ first = None /\ sessions[s].utm = None
               /\ \A i \in DOMAIN offered[s] : ~ Named(i)

\* A batch fails only over an id that has a row of another tenant, or that
\* another request has stored since this one came: a browser that sends its
\* batches to one shop, one after the other, is never refused.
ErrorsAreOfSharedIds ==
    \A c \in Clients :
        LET r == request[c] IN
        r # None /\ r.status = "error" =>
            \E x \in {r.visitor, r.session} : x \in r.fresh \/ Owner(x) \notin {r.tenant, None}

==============================================================================
