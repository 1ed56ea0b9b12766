------------------------------ MODULE VisitProofs ------------------------------
(* Proofs about what a visitor sends: the analytics batches of Attribution    *)
(* and the chats of AiQuota, for every number of clients, visitors, chats,    *)
(* users and batches, every window, estimate and quota.                       *)
(*                                                                            *)
(* The batches. The row lock of the session, taken before the views are       *)
(* looked for, is what makes one view in a window hold: the invariant says    *)
(* who holds which rows, and what that entails.                               *)
EXTENDS Attribution, AiQuota, Sums, TLAPS

Running(c) == request[c] # None /\ request[c].status = "running"

\* A row is written by a running request of its tenant, or not yet stored.
LocksHold == \A x \in Ids : lock[x] # None =>
    LET r == request[lock[x]] IN
    /\ Running(lock[x])
    /\ x \in {r.visitor, r.session}
    /\ Owner(x) \in {None, r.tenant}

\* A request past the upsert of a row has written it.
RowsHeld == \A c \in Clients : Running(c) =>
    LET r == request[c] IN
    /\ r.pc >= 3 => lock[r.visitor] = c
    /\ r.pc >= 5 => lock[r.session] = c

\* One that inserts did not find a row of its tenant: who has one, stored it since.
InsertsMissed == \A c \in Clients : Running(c) =>
    LET r == request[c] IN
    /\ r.pc = 2 /\ Owner(r.visitor) = r.tenant => r.visitor \in r.fresh
    /\ r.pc = 4 /\ Owner(r.session) = r.tenant => r.session \in r.fresh

\* An event is of the tenant of its session, and the server's stamps are past.
EventsPast == \A e \in events :
    /\ e.session \in Sessions
    /\ Owner(e.session) = e.tenant /\ e.tenant \in Tenants
    /\ ~ e.claimed => e.at \in Nat /\ e.at <= now

\* A request that saw no recent view is right until it stores its own.
SeenStays == \A c \in Clients : Running(c) /\ request[c].pc = 6 /\ ~ request[c].seen =>
    \A e \in events : e.session = request[c].session /\ ~ e.claimed => e.at + Window <= now

Inv == /\ TypeOK /\ LocksHold /\ RowsHeld /\ InsertsMissed /\ EventsPast /\ SeenStays
       /\ OneViewPerWindow /\ ErrorsAreOfSharedIds

-----------------------------------------------------------------------------
\* Nobody has asked for anything yet.
LEMMA InitInv == AttributionInit => Inv
<1> SUFFICES ASSUME AttributionInit PROVE Inv
  OBVIOUS
<1> USE DEF AttributionInit
<1>1. TypeOK
  BY DEF TypeOK
<1>2. LocksHold /\ RowsHeld /\ InsertsMissed /\ EventsPast /\ SeenStays
  BY DEF LocksHold, RowsHeld, InsertsMissed, EventsPast, SeenStays, Running
<1>3. OneViewPerWindow /\ ErrorsAreOfSharedIds
  BY DEF OneViewPerWindow, ErrorsAreOfSharedIds
<1> QED  BY <1>1, <1>2, <1>3 DEF Inv

LEMMA ConstantsApart ==
    /\ Window \in Nat
    /\ None \notin Tenants /\ None \notin Clients /\ None \notin Session /\ None \notin Request
    /\ \A x \in Visitors : x \notin Sessions
BY AttributionAssumption

\* The steps and their places.
LEMMA Places ==
    ASSUME TypeOK, NEW c \in Clients, NEW step, At(c, step)
    PROVE  /\ request[c] \in Request /\ Running(c)
           /\ step = "find_visitor" => request[c].pc = 1
           /\ step = "insert_visitor" => request[c].pc = 2
           /\ step = "find_session" => request[c].pc = 3
           /\ step = "insert_session" => request[c].pc = 4
           /\ step = "dedupe" => request[c].pc = 5
           /\ step = "ingest" => request[c].pc = 6
<1>1. request[c] \in Request /\ Running(c) /\ Steps[request[c].pc] = step
  BY DEF At, TypeOK, Running
<1>2. request[c].pc \in 1 .. 6
  BY <1>1 DEF Request
<1>3. /\ Steps[1] = "find_visitor" /\ Steps[2] = "insert_visitor" /\ Steps[3] = "find_session"
      /\ Steps[4] = "insert_session" /\ Steps[5] = "dedupe" /\ Steps[6] = "ingest"
  BY DEF Steps
<1>4. \/ request[c].pc = 1 \/ request[c].pc = 2 \/ request[c].pc = 3
      \/ request[c].pc = 4 \/ request[c].pc = 5 \/ request[c].pc = 6
  BY <1>2
<1> QED  BY <1>1, <1>3, <1>4

\* What a running request q of client c needs.
Sound(c, q) ==
    /\ q.pc >= 3 => lock[q.visitor] = c
    /\ q.pc >= 5 => lock[q.session] = c
    /\ q.pc = 2 /\ Owner(q.visitor) = q.tenant => q.visitor \in q.fresh
    /\ q.pc = 4 /\ Owner(q.session) = q.tenant => q.session \in q.fresh
    /\ q.pc = 6 /\ ~ q.seen =>
         \A e \in events : e.session = q.session /\ ~ e.claimed => e.at + Window <= now

Lost(q) == \E x \in {q.visitor, q.session} : x \in q.fresh \/ Owner(x) \notin {q.tenant, None}

LEMMA SoundRequests ==
    ASSUME RowsHeld, InsertsMissed, SeenStays, NEW c \in Clients, Running(c)
    PROVE  Sound(c, request[c])
BY DEF RowsHeld, InsertsMissed, SeenStays, Sound

\* A step of one request that stores nothing: what it locks is of its tenant.
LEMMA StepOfOne ==
    ASSUME Inv, NEW c \in Clients, NEW q \in Request \cup {None},
           request' = [request EXCEPT ![c] = q],
           UNCHANGED <<visitors, sessions, events, now>>, begun' \in Nat,
           lock' \in [Ids -> Clients \cup {None}],
           \A x \in Ids : \/ lock'[x] = lock[x]
                          \/ lock[x] \in {None, c} /\ lock'[x] \in {None, c},
           \A x \in Ids : lock'[x] = c =>
              /\ q \in Request /\ q.status = "running"
              /\ x \in {q.visitor, q.session} /\ Owner(x) \in {None, q.tenant},
           q \in Request /\ q.status = "running" => Sound(c, q)',
           q \in Request /\ q.status = "error" => Lost(q)
    PROVE  Inv'
<1>1. /\ request'[c] = q /\ \A d \in Clients \ {c} : request'[d] = request[d]
      /\ TypeOK'
  BY DEF Inv, TypeOK
<1>2. \A x : Owner(x)' = Owner(x)
  BY DEF Owner
<1>3. None \notin Request /\ None \notin Clients
  BY ConstantsApart
<1>4. \A d \in Clients : (Running(d))' <=> request'[d] # None /\ request'[d].status = "running"
  BY DEF Running
<1>5. LocksHold'
  <2> SUFFICES ASSUME NEW x \in Ids, lock'[x] # None
               PROVE  /\ Running(lock[x])'
                      /\ x \in {request'[lock'[x]].visitor, request'[lock'[x]].session}
                      /\ Owner(x)' \in {None, request'[lock'[x]].tenant}
    BY DEF LocksHold
  <2>1. CASE lock'[x] = c
    BY <1>1, <1>2, <1>3, <2>1 DEF Running
  <2>2. CASE lock'[x] # c
    <3>1. lock'[x] = lock[x] /\ lock[x] \in Clients \ {c}
      BY <2>2 DEF Inv, TypeOK
    <3> QED  BY <1>1, <1>2, <3>1 DEF Inv, LocksHold, Running
  <2> QED  BY <2>1, <2>2
<1>6. \A d \in Clients : (Running(d))' => Sound(d, request[d])'
  <2> SUFFICES ASSUME NEW d \in Clients, Running(d)' PROVE Sound(d, request[d])'
    OBVIOUS
  <2>1. CASE d = c
    BY <1>1, <1>3, <2>1 DEF Running
  <2>2. CASE d # c
    <3>1. request'[d] = request[d] /\ Running(d)
      BY <1>1, <2>2 DEF Running
    <3>2. Sound(d, request[d])
      BY <3>1, SoundRequests DEF Inv
    <3>3. \A x \in Ids : lock[x] = d => lock'[x] = d
      BY <1>3, <2>2
    <3>4. request[d] \in Request /\ request[d].visitor \in Ids /\ request[d].session \in Ids
      BY <3>1 DEF Running, Inv, TypeOK, Request, Ids
    <3> QED  BY <1>2, <3>1, <3>2, <3>3, <3>4 DEF Sound
  <2> QED  BY <2>1, <2>2
<1>7. (RowsHeld /\ InsertsMissed /\ SeenStays)'
  BY <1>6 DEF RowsHeld, InsertsMissed, SeenStays, Sound
<1>8. EventsPast'
  BY <1>2 DEF Inv, EventsPast
<1>9. OneViewPerWindow'
  BY DEF Inv, OneViewPerWindow
<1>10. ErrorsAreOfSharedIds'
  <2> SUFFICES ASSUME NEW d \in Clients, request'[d] # None, request'[d].status = "error"
               PROVE  \E x \in {request'[d].visitor, request'[d].session} :
                         \/ x \in request'[d].fresh
                         \/ Owner(x)' \notin {request'[d].tenant, None}
    BY DEF ErrorsAreOfSharedIds
  <2>1. CASE d = c
    BY <1>1, <1>2, <2>1 DEF Lost
  <2>2. CASE d # c
    BY <1>1, <1>2, <2>2 DEF Inv, ErrorsAreOfSharedIds
  <2> QED  BY <2>1, <2>2
<1> QED  BY <1>1, <1>5, <1>7, <1>8, <1>9, <1>10 DEF Inv

LEMMA BeginInv == ASSUME Inv, NEW c \in Clients, Begin(c) PROVE Inv'
<1>1. PICK q \in Request : /\ request' = [request EXCEPT ![c] = q]
                           /\ q.status = "running" /\ q.pc = 1 /\ begun' = begun + 1
  <2>1. PICK t \in Tenants, v \in Visitors, s \in Sessions, utm \in Utm, views \in Batches :
          /\ begun' = begun + 1
          /\ request' = [request EXCEPT ![c] =
               [tenant |-> t, visitor |-> v, session |-> s, utm |-> utm, views |-> views,
                n |-> begun + 1, pc |-> 1, seen |-> FALSE, fresh |-> {}, status |-> "running"]]
    BY DEF Begin
  <2> DEFINE q == [tenant |-> t, visitor |-> v, session |-> s, utm |-> utm, views |-> views,
                   n |-> begun + 1, pc |-> 1, seen |-> FALSE, fresh |-> {},
                   status |-> "running"]
  <2>2. q \in Request /\ q.status = "running" /\ q.pc = 1
    BY <2>1 DEF Inv, TypeOK, Request
  <2> QED  BY <2>1, <2>2
<1>2. ~ Running(c) /\ UNCHANGED <<visitors, sessions, events, lock, now>>
  BY DEF Begin, Running
<1>3. \A x \in Ids : lock'[x] # c
  BY <1>2, ConstantsApart DEF Inv, LocksHold
<1>4. Sound(c, q)'
  BY <1>1 DEF Sound
<1>5. begun' \in Nat /\ lock' \in [Ids -> Clients \cup {None}]
  BY <1>1, <1>2 DEF Inv, TypeOK
<1> QED  BY <1>1, <1>2, <1>3, <1>4, <1>5, StepOfOne

\* A request that ends without storing anything.
LEMMA UnlockInv ==
    ASSUME Inv, NEW c \in Clients, NEW q \in Request \cup {None},
           request' = [request EXCEPT ![c] = q], lock' = Unlock(c),
           q \in Request => q.status = "error" /\ Lost(q),
           UNCHANGED <<visitors, sessions, events, now, begun>>
    PROVE  Inv'
<1>1. \A x \in Ids : lock'[x] = IF lock[x] = c THEN None ELSE lock[x]
  BY DEF Unlock
<1>2. lock' \in [Ids -> Clients \cup {None}] /\ begun' \in Nat
  BY DEF Unlock, Inv, TypeOK
<1>3. \A x \in Ids : lock'[x] # c
  BY <1>1, ConstantsApart
<1> QED  BY <1>1, <1>2, <1>3, StepOfOne

LEMMA AbortInv == ASSUME Inv, NEW c \in Clients, Abort(c) PROVE Inv'
BY UnlockInv, ConstantsApart DEF Abort

\* The upsert of a row: found or not, or inserted.
LEMMA GoOnInv ==
    ASSUME Inv, NEW c \in Clients, Running(c), NEW x \in Ids, NEW k \in {1, 2},
           request' = [request EXCEPT ![c].pc = @ + k],
           lock' \in {lock, [lock EXCEPT ![x] = c]},
           \/ request[c].pc \in {1, 2} /\ x = request[c].visitor
           \/ request[c].pc \in {3, 4} /\ x = request[c].session,
           UNCHANGED <<visitors, sessions, events, now, begun>>,
           lock' # lock => lock[x] \in {None, c} /\ Owner(x) \in {None, request[c].tenant},
           request[c].pc + k \in {3, 5} => lock'[x] = c,
           request[c].pc + k \in {2, 4} /\ Owner(x) = request[c].tenant => x \in request[c].fresh,
           request[c].pc + k <= 5, request[c].pc = 2 => k = 1
    PROVE  Inv'
<1> DEFINE r == request[c]
<1>1. r \in Request
  BY DEF Running, Inv, TypeOK
<1>2. PICK q \in Request :
        /\ request' = [request EXCEPT ![c] = q] /\ q.status = "running"
        /\ q.pc = r.pc + k /\ q.visitor = r.visitor /\ q.session = r.session
        /\ q.tenant = r.tenant /\ q.fresh = r.fresh /\ r.visitor \in Ids /\ r.session \in Ids
        /\ r.pc \in Nat
  <2> DEFINE q == [r EXCEPT !.pc = @ + k]
  <2>1. /\ q \in Request /\ request' = [request EXCEPT ![c] = q] /\ q.status = "running"
        /\ q.pc = r.pc + k /\ q.visitor = r.visitor /\ q.session = r.session
        /\ q.tenant = r.tenant /\ q.fresh = r.fresh /\ r.visitor \in Ids /\ r.session \in Ids
        /\ r.pc \in Nat
    BY <1>1 DEF Request, Running, Inv, TypeOK, Ids
  <2> QED  BY <2>1
<1>3. /\ \A y \in Ids :
           \/ lock'[y] = lock[y]
           \/ y = x /\ lock[x] \in {None, c} /\ lock'[x] = c
      /\ lock' \in [Ids -> Clients \cup {None}] /\ begun' \in Nat
  <2>1. CASE lock' = lock
    <3>1. lock \in [Ids -> Clients \cup {None}] /\ begun \in Nat /\ begun' = begun
      BY DEF Inv, TypeOK
    <3> QED  BY <2>1, <3>1
  <2>2. CASE lock' # lock /\ lock' = [lock EXCEPT ![x] = c]
    BY <2>2 DEF Inv, TypeOK
  <2> QED  BY <2>1, <2>2
<1>4. \A y \in Ids : lock'[y] = c => y \in {q.visitor, q.session} /\ Owner(y) \in {None, q.tenant}
  <2> SUFFICES ASSUME NEW y \in Ids, lock'[y] = c
               PROVE  y \in {r.visitor, r.session} /\ Owner(y) \in {None, r.tenant}
    BY <1>2
  <2>1. CASE lock[y] = c
    <3>1. lock[y] # None
      BY <2>1, ConstantsApart
    <3> QED  BY <2>1, <3>1 DEF Inv, LocksHold
  <2>2. CASE lock[y] # c
    BY <1>3, <2>2
  <2> QED  BY <2>1, <2>2
<1>5. \A y : Owner(y)' = Owner(y)
  BY DEF Owner
<1>6. Sound(c, r)
  BY SoundRequests DEF Inv
<1>7. Sound(c, q)'
  <2> HIDE DEF r
  <2>1. \A y \in Ids : lock[y] = c => lock'[y] = c
    BY <1>3
  <2>2. q.pc >= 3 => lock'[q.visitor] = c
    BY <1>2, <1>6, <2>1 DEF Sound, r
  <2>3. q.pc >= 5 => lock'[q.session] = c
    BY <1>2, <1>6, <2>1 DEF Sound, r
  <2>4. q.pc # 6
    BY <1>2 DEF r
  <2>5. /\ q.pc = 2 /\ Owner(q.visitor) = q.tenant => q.visitor \in q.fresh
        /\ q.pc = 4 /\ Owner(q.session) = q.tenant => q.session \in q.fresh
    BY <1>2 DEF r
  <2>6. /\ q.pc = 2 /\ Owner(q.visitor)' = q.tenant => q.visitor \in q.fresh
        /\ q.pc = 4 /\ Owner(q.session)' = q.tenant => q.session \in q.fresh
    <3> HIDE DEF Owner
    <3> QED  BY <1>5, <2>5
  <2> QED  BY <2>2, <2>3, <2>4, <2>6 DEF Sound
<1>8. \A y \in Ids : \/ lock'[y] = lock[y]
                     \/ lock[y] \in {None, c} /\ lock'[y] \in {None, c}
  BY <1>3
<1>9. UNCHANGED <<visitors, sessions, events, now>>
  OBVIOUS
<1>10. q \in Request /\ q.status = "error" => Lost(q)
  BY <1>2
<1> HIDE DEF r
<1> QED  BY <1>2, <1>3, <1>4, <1>7, <1>8, <1>9, <1>10, StepOfOne, ZenonT(30)

\* The unique index of the conflict target is looked at first.
LEMMA FindInv ==
    ASSUME Inv, NEW c \in Clients, NEW step, NEW x,
           \/ step = "find_visitor" /\ x = request[c].visitor
           \/ step = "find_session" /\ x = request[c].session,
           Find(c, step, x)
    PROVE  Inv'
<1> DEFINE r == request[c]
           ours == Owner(x) = r.tenant
           k == IF ours THEN 2 ELSE 1
<1>1. At(c, step) /\ GoOn(c, x, k)
  BY DEF Find
<1>2. /\ r \in Request /\ Running(c)
      /\ step = "find_visitor" => r.pc = 1
      /\ step = "find_session" => r.pc = 3
  BY <1>1, Places DEF Inv
<1>3. x \in Ids
  BY <1>2 DEF Request, Ids
<1>4. ~ At(c, "insert_visitor") /\ ~ At(c, "insert_session")
  <2>1. r.pc \in {1, 3}
    BY <1>2
  <2>2. TypeOK
    BY DEF Inv
  <2>3. At(c, "insert_visitor") => r.pc = 2
    BY <2>2, Places
  <2>4. At(c, "insert_session") => r.pc = 4
    BY <2>2, Places
  <2> QED  BY <2>1, <2>3, <2>4
<1>5. lock' = IF k = 2 THEN [lock EXCEPT ![x] = c] ELSE lock
  BY <1>1, <1>4 DEF GoOn
<1>6. ours => lock[x] \in {None, c}
  <2> SUFFICES ASSUME ours, lock[x] # None, lock[x] # c PROVE FALSE
    OBVIOUS
  <2>1. Owner(x) \in {None, request[lock[x]].tenant}
    BY <1>3 DEF Inv, LocksHold
  <2>2. r.tenant # None
    BY <1>2, ConstantsApart DEF Request
  <2>3. request[lock[x]].tenant # r.tenant
    BY DEF Find
  <2> QED  BY <2>1, <2>2, <2>3
<1>7. /\ request' = [request EXCEPT ![c].pc = @ + k]
      /\ UNCHANGED <<visitors, sessions, events, now, begun>>
  BY <1>1 DEF GoOn
<1>8. CASE ours
  <2>1. lock' = [lock EXCEPT ![x] = c] /\ lock'[x] = c
    BY <1>3, <1>5, <1>8 DEF Inv, TypeOK
  <2>2. request' = [request EXCEPT ![c].pc = @ + 2]
    BY <1>7, <1>8
  <2>3. \/ request[c].pc = 1 /\ x = request[c].visitor
        \/ request[c].pc = 3 /\ x = request[c].session
    BY <1>2
  <2>4. lock[x] \in {None, c} /\ Owner(x) \in {None, request[c].tenant}
    BY <1>6, <1>8
  <2>5. /\ \/ request[c].pc \in {1, 2} /\ x = request[c].visitor
           \/ request[c].pc \in {3, 4} /\ x = request[c].session
        /\ request[c].pc + 2 \in {3, 5} /\ request[c].pc + 2 \notin {2, 4}
        /\ request[c].pc + 2 <= 5 /\ request[c].pc # 2
    BY <2>3
  <2>6. lock' \in {lock, [lock EXCEPT ![x] = c]} /\ Running(c)
    BY <1>2, <2>1
  <2> HIDE DEF k, ours, r
  <2> QED  BY <1>3, <1>7, <2>1, <2>2, <2>4, <2>5, <2>6, GoOnInv
<1>9. CASE ~ ours
  <2>1. lock' = lock
    BY <1>5, <1>9
  <2>2. request' = [request EXCEPT ![c].pc = @ + 1]
    BY <1>7, <1>9
  <2>3. \/ request[c].pc = 1 /\ x = request[c].visitor
        \/ request[c].pc = 3 /\ x = request[c].session
    BY <1>2
  <2>4. Owner(x) # request[c].tenant
    BY <1>9
  <2>5. /\ \/ request[c].pc \in {1, 2} /\ x = request[c].visitor
           \/ request[c].pc \in {3, 4} /\ x = request[c].session
        /\ request[c].pc + 1 \notin {3, 5}
        /\ request[c].pc + 1 <= 5 /\ request[c].pc # 2
    BY <2>3
  <2>6. lock' \in {lock, [lock EXCEPT ![x] = c]} /\ Running(c)
    BY <1>2, <2>1
  <2> HIDE DEF k, ours, r
  <2> QED  BY <1>3, <1>7, <2>1, <2>2, <2>4, <2>5, <2>6, GoOnInv
<1> QED  BY <1>8, <1>9

\* Another row with the id is an error, when no request of ours has stored it.
LEMMA InsertInv ==
    ASSUME Inv, NEW c \in Clients, NEW step, NEW x,
           \/ step = "insert_visitor" /\ x = request[c].visitor
           \/ step = "insert_session" /\ x = request[c].session,
           Insert(c, step, x)
    PROVE  Inv'
<1> DEFINE r == request[c]
<1>1. At(c, step) /\ lock[x] = None
  BY DEF Insert
<1>2. /\ r \in Request /\ Running(c)
      /\ step = "insert_visitor" => r.pc = 2
      /\ step = "insert_session" => r.pc = 4
  BY <1>1, Places DEF Inv
<1>3. x \in Ids
  BY <1>2 DEF Request, Ids
<1>4. CASE Owner(x) # None /\ Fail(c)
  <2>1. Owner(x) = r.tenant => x \in r.fresh
    BY <1>2 DEF Inv, InsertsMissed
  <2>2. PICK q \in Request : /\ request' = [request EXCEPT ![c] = q] /\ q.status = "error"
                             /\ q.visitor = r.visitor /\ q.session = r.session
                             /\ q.tenant = r.tenant /\ q.fresh = r.fresh
    <3> DEFINE q == [r EXCEPT !.status = "error"]
    <3>1. /\ q \in Request /\ request' = [request EXCEPT ![c] = q] /\ q.status = "error"
          /\ q.visitor = r.visitor /\ q.session = r.session
          /\ q.tenant = r.tenant /\ q.fresh = r.fresh
      BY <1>2, <1>4 DEF Fail, Request, Inv, TypeOK
    <3> QED  BY <3>1
  <2>3. Lost(q)
    BY <1>4, <2>1, <2>2 DEF Lost
  <2> QED  BY <1>4, <2>2, <2>3, UnlockInv DEF Fail
<1>5. CASE Owner(x) = None /\ GoOn(c, x, 1)
  <2>1. lock' = [lock EXCEPT ![x] = c] /\ lock'[x] = c
    BY <1>1, <1>3, <1>5 DEF GoOn, Inv, TypeOK
  <2>2. r.tenant # None
    BY <1>2, ConstantsApart DEF Request
  <2>3. /\ request' = [request EXCEPT ![c].pc = @ + 1]
        /\ UNCHANGED <<visitors, sessions, events, now, begun>>
    BY <1>5 DEF GoOn
  <2>4. \/ request[c].pc = 2 /\ x = request[c].visitor
        \/ request[c].pc = 4 /\ x = request[c].session
    BY <1>2
  <2>5. lock[x] \in {None, c} /\ Owner(x) = None /\ request[c].tenant # None
    BY <1>1, <1>5, <2>2
  <2>6. /\ \/ request[c].pc \in {1, 2} /\ x = request[c].visitor
           \/ request[c].pc \in {3, 4} /\ x = request[c].session
        /\ request[c].pc + 1 \notin {2, 4} /\ request[c].pc + 1 <= 5
    BY <2>4
  <2>7. lock' \in {lock, [lock EXCEPT ![x] = c]} /\ Running(c)
    BY <1>2, <2>1
  <2> HIDE DEF r
  <2> QED  BY <1>3, <2>1, <2>3, <2>5, <2>6, <2>7, GoOnInv
<1> QED  BY <1>4, <1>5 DEF Insert

\* What is looked for is the committed views of the session, which is held.
LEMMA DedupeInv == ASSUME Inv, NEW c \in Clients, Dedupe(c) PROVE Inv'
<1> DEFINE r == request[c]
           seen == \E e \in events : /\ e.session = r.session /\ e.tenant = r.tenant
                                     /\ e.at + Window > now
<1>1. r \in Request /\ Running(c) /\ r.pc = 5
  BY Places DEF Dedupe, Inv
<1>2. PICK q \in Request : /\ request' = [request EXCEPT ![c] = q] /\ q.status = "running"
                           /\ q.visitor = r.visitor /\ q.session = r.session
                           /\ q.tenant = r.tenant /\ q.pc = 6 /\ q.seen = seen
  <2> DEFINE q == [r EXCEPT !.pc = @ + 1, !.seen = seen]
  <2>1. /\ q \in Request /\ request' = [request EXCEPT ![c] = q] /\ q.status = "running"
        /\ q.visitor = r.visitor /\ q.session = r.session
        /\ q.tenant = r.tenant /\ q.pc = 6 /\ q.seen = seen
    <3>1. request' = [request EXCEPT ![c].pc = @ + 1, ![c].seen = seen] /\ seen \in BOOLEAN
      BY DEF Dedupe
    <3> HIDE DEF seen
    <3>2. /\ q \in Request /\ q.status = "running" /\ q.visitor = r.visitor
          /\ q.session = r.session /\ q.tenant = r.tenant /\ q.pc = 6 /\ q.seen = seen
      <4>1. r.pc \in Nat /\ r.pc + 1 \in 1 .. 6 /\ r.pc + 1 = 6 /\ r.status = "running"
        BY <1>1 DEF Running
      <4>2. [r EXCEPT !.seen = seen] \in Request
        BY <1>1, <3>1 DEF Request
      <4> QED  BY <1>1, <3>1, <4>1, <4>2 DEF Request
    <3>3. request' = [request EXCEPT ![c] = q]
      BY <1>1, <3>1 DEF Request, Inv, TypeOK
    <3> QED  BY <3>2, <3>3
  <2> QED  BY <2>1
<1>3. UNCHANGED <<visitors, sessions, events, lock, now>> /\ begun' \in Nat
        /\ lock' \in [Ids -> Clients \cup {None}]
  BY DEF Dedupe, Inv, TypeOK
<1>4. Sound(c, r) /\ r.visitor \in Ids /\ r.session \in Ids
  BY <1>1, SoundRequests DEF Inv, Request, Ids
<1>5. lock[r.session] = c /\ Owner(r.session) \in {None, r.tenant}
        /\ \A x \in Ids : lock[x] = c => x \in {r.visitor, r.session} /\ Owner(x) \in {None,
          r.tenant}
  <2>1. lock[r.session] = c
    BY <1>1, <1>4 DEF Sound
  <2>2. ASSUME NEW x \in Ids, lock[x] = c
        PROVE  x \in {r.visitor, r.session} /\ Owner(x) \in {None, r.tenant}
    <3>1. lock[x] # None
      BY <2>2, ConstantsApart
    <3> QED  BY <2>2, <3>1 DEF Inv, LocksHold
  <2> QED  BY <1>4, <2>1, <2>2
<1>6. ~ q.seen => \A e \in events : e.session = r.session /\ ~ e.claimed => e.at + Window <= now
  <2> SUFFICES ASSUME ~ seen, NEW e \in events, e.session = r.session, ~ e.claimed
               PROVE  e.at + Window <= now
    BY <1>2
  <2>1. e.at \in Nat /\ e.tenant \in Tenants /\ Owner(e.session) = e.tenant /\ now \in Nat
    BY DEF Inv, EventsPast, TypeOK
  <2>2. e.tenant = r.tenant
    BY <1>5, <2>1, ConstantsApart
  <2>3. ~ (e.at + Window > now)
    BY <2>2
  <2> QED  BY <2>1, <2>3, ConstantsApart
<1>7. Sound(c, q)'
  BY <1>1, <1>2, <1>3, <1>4, <1>6 DEF Sound
<1> QED  BY <1>1, <1>2, <1>3, <1>5, <1>7, StepOfOne

\* What a request has written becomes what there is. Nobody else holds it.
LEMMA IngestInv == ASSUME Inv, NEW c \in Clients, Ingest(c) PROVE Inv'
<1> DEFINE r == request[c]
           stored == {y \in {r.visitor, r.session} : Owner(y) = None}
<1>1. /\ r \in Request /\ Running(c) /\ r.pc = 6 /\ r.tenant # None /\ r.tenant \in Tenants
      /\ r.visitor \in Visitors /\ r.session \in Sessions
  BY Places, ConstantsApart DEF Ingest, Inv, Request
<1>2. /\ lock[r.visitor] = c /\ lock[r.session] = c
      /\ Owner(r.visitor) \in {None, r.tenant} /\ Owner(r.session) \in {None, r.tenant}
      /\ r.visitor \in Ids /\ r.session \in Ids
  <2>1. lock[r.visitor] = c /\ lock[r.session] = c /\ r.visitor \in Ids /\ r.session \in Ids
    BY <1>1, SoundRequests DEF Inv, Sound, Ids
  <2> QED  BY <2>1, ConstantsApart DEF Inv, LocksHold
<1>3. /\ visitors' = [visitors EXCEPT ![r.visitor] = r.tenant]
      /\ events' = events \cup Kept(r) /\ UNCHANGED <<now, begun>> /\ lock' = Unlock(c)
  BY DEF Ingest
<1>4. PICK row \in Session : sessions' = [sessions EXCEPT ![r.session] = row]
                               /\ row.tenant = r.tenant
  <2> DEFINE old == sessions[r.session]
             utm == IF old = None THEN r.utm ELSE Attributed(old.utm, r.utm)
             row == [tenant |-> r.tenant, utm |-> utm]
  <2>1. old # None => old \in Session
    BY <1>1 DEF Inv, TypeOK
  <2>2. r.utm \in Utm
    BY <1>1 DEF Request
  <2>3. utm \in Utm
    <3>1. None \in Utm
      BY DEF Utm
    <3> QED  BY <2>1, <2>2, <3>1 DEF Attributed, Session
  <2>4. sessions' = [sessions EXCEPT ![r.session] = row]
    BY DEF Ingest
  <2>5. row \in Session /\ row.tenant = r.tenant
    BY <1>1, <2>3 DEF Session
  <2> QED  BY <2>4, <2>5
<1>5. \A x \in Ids : Owner(x)' = IF x \in {r.visitor, r.session} THEN r.tenant ELSE Owner(x)
  <2>1. row # None
    BY ConstantsApart
  <2> QED  BY <1>1, <1>3, <1>4, <2>1, ConstantsApart DEF Owner, Ids, Inv, TypeOK
<1>6. \A x \in Ids : lock'[x] = IF lock[x] = c THEN None ELSE lock[x]
  BY <1>3 DEF Unlock
<1>7. /\ request'[c] = None
      /\ \A d \in Clients \ {c} : request'[d] =
           IF request[d] # None THEN [request[d] EXCEPT !.fresh = @ \cup stored] ELSE None
  BY DEF Ingest
<1>8. \A d \in Clients : request'[d] # None =>
        /\ d # c /\ request[d] # None /\ request[d] \in Request /\ request'[d] \in Request
        /\ request'[d].visitor = request[d].visitor /\ request'[d].session = request[d].session
        /\ request'[d].tenant = request[d].tenant /\ request'[d].status = request[d].status
        /\ request'[d].pc = request[d].pc /\ request'[d].seen = request[d].seen
        /\ request'[d].fresh = request[d].fresh \cup stored
        /\ request[d].visitor \in Ids /\ request[d].session \in Ids
        /\ request[d].tenant # None
  <2> SUFFICES ASSUME NEW d \in Clients, request'[d] # None
               PROVE  /\ d # c /\ request[d] # None /\ request[d] \in Request
                      /\ request'[d] \in Request
                      /\ request'[d].visitor = request[d].visitor
                      /\ request'[d].session = request[d].session
                      /\ request'[d].tenant = request[d].tenant
                      /\ request'[d].status = request[d].status
                      /\ request'[d].pc = request[d].pc /\ request'[d].seen = request[d].seen
                      /\ request'[d].fresh = request[d].fresh \cup stored
                      /\ request[d].visitor \in Ids /\ request[d].session \in Ids
                      /\ request[d].tenant # None
    OBVIOUS
  <2>1. d # c /\ request[d] # None
    BY <1>7
  <2>2. request[d] \in Request
    BY <2>1 DEF Inv, TypeOK
  <2>3. stored \subseteq Ids
    BY <1>2
  <2>4. request'[d] = [request[d] EXCEPT !.fresh = @ \cup stored]
    BY <1>7, <2>1
  <2> HIDE DEF stored
  <2> QED  BY <2>1, <2>2, <2>3, <2>4, ConstantsApart DEF Request, Ids
<1> HIDE DEF stored
<1>9. TypeOK'
  <2>1. lock' \in [Ids -> Clients \cup {None}]
    BY <1>3 DEF Unlock, Inv, TypeOK
  <2>2. request' \in [Clients -> Request \cup {None}]
    <3>1. request' = [d \in Clients |-> request'[d]]
      BY DEF Ingest
    <3> QED  BY <1>8, <3>1
  <2> QED  BY <1>1, <1>3, <1>4, <2>1, <2>2 DEF Inv, TypeOK
<1>10. \A d \in Clients : (Running(d))' => Running(d) /\ d # c
  BY <1>8 DEF Running
<1>11. LocksHold'
  <2> SUFFICES ASSUME NEW x \in Ids, lock'[x] # None
               PROVE  /\ Running(lock[x])'
                      /\ x \in {request'[lock'[x]].visitor, request'[lock'[x]].session}
                      /\ Owner(x)' \in {None, request'[lock'[x]].tenant}
    BY DEF LocksHold
  <2>1. lock'[x] = lock[x] /\ lock[x] # c /\ lock[x] # None /\ lock[x] \in Clients
    BY <1>6 DEF Inv, TypeOK
  <2>2. Owner(x)' = Owner(x)
    BY <1>2, <1>5, <2>1
  <2>3. /\ Running(lock[x]) /\ x \in {request[lock[x]].visitor, request[lock[x]].session}
        /\ Owner(x) \in {None, request[lock[x]].tenant}
    BY <2>1 DEF Inv, LocksHold
  <2>4. request'[lock[x]] # None
    <3>1. [request[lock[x]] EXCEPT !.fresh = @ \cup stored] \in Request
      <4>1. request[lock[x]] \in Request
        BY <2>1, <2>3 DEF Running, Inv, TypeOK
      <4>2. stored \subseteq Ids
        BY <1>2 DEF stored
      <4> QED  BY <4>1, <4>2 DEF Request
    <3> QED  BY <1>7, <2>1, <2>3, <3>1, ConstantsApart DEF Running
  <2> QED  BY <1>8, <2>1, <2>2, <2>3, <2>4 DEF Running
<1>12. \A d \in Clients : (Running(d))' => Sound(d, request[d])'
  <2> SUFFICES ASSUME NEW d \in Clients, (Running(d))' PROVE Sound(d, request[d])'
    OBVIOUS
  <2>1. Running(d) /\ d # c /\ request'[d] # None
    BY <1>10 DEF Running
  <2>2. Sound(d, request[d])
    BY <2>1, SoundRequests DEF Inv
  <2>3. \A x \in Ids : lock[x] = d => lock'[x] = d
    BY <1>6, <2>1
  <2>4. \A x \in {request[d].visitor, request[d].session} :
          Owner(x)' = request[d].tenant => Owner(x) = request[d].tenant \/ x \in stored
    BY <1>2, <1>5, <1>8, <2>1 DEF stored
  <2>5. request'[d].pc = 6 /\ ~ request'[d].seen =>
          \A e \in events' : e.session = request'[d].session /\ ~ e.claimed => e.at + Window <= now'
    <3> SUFFICES ASSUME request[d].pc = 6, ~ request[d].seen, NEW e \in events',
                        e.session = request[d].session, ~ e.claimed
                 PROVE  e.at + Window <= now
      BY <1>3, <1>8, <2>1
    <3>1. lock[request[d].session] = d
      BY <2>2 DEF Sound
    <3>2. request[d].session # r.session
      BY <1>2, <2>1, <3>1
    <3>3. e \in events
      BY <1>3, <3>2 DEF Kept
    <3> QED  BY <2>2, <3>3 DEF Sound
  <2> QED  BY <1>8, <2>1, <2>2, <2>3, <2>4, <2>5 DEF Sound
<1>13. (RowsHeld /\ InsertsMissed /\ SeenStays)'
  BY <1>12 DEF RowsHeld, InsertsMissed, SeenStays, Sound
<1>14. \A e \in Kept(r) : /\ e.session = r.session /\ e.tenant = r.tenant /\ e.n = r.n
                          /\ ~ r.seen /\ (~ e.claimed => e.at = now)
  <2> SUFFICES ASSUME NEW e \in Kept(r)
               PROVE  /\ e.session = r.session /\ e.tenant = r.tenant /\ e.n = r.n
                      /\ ~ r.seen /\ (~ e.claimed => e.at = now)
    OBVIOUS
  <2> HIDE DEF r
  <2>1. /\ ~ r.seen
        /\ e = [session |-> r.session, tenant |-> r.tenant, n |-> r.n,
                claimed |-> r.views[1] # None,
                at |-> IF r.views[1] = None THEN now ELSE r.views[1]]
    BY DEF Kept
  <2>2. /\ e.session = r.session /\ e.tenant = r.tenant /\ e.n = r.n
        /\ e.at = IF r.views[1] = None THEN now ELSE r.views[1]
    BY <2>1
  <2>3. e.claimed <=> r.views[1] # None
    BY <2>1, Zenon
  <2> QED  BY <2>1, <2>2, <2>3
<1>15. EventsPast'
  <2> SUFFICES ASSUME NEW e \in events'
               PROVE  /\ e.session \in Sessions
                      /\ Owner(e.session)' = e.tenant /\ e.tenant \in Tenants
                      /\ ~ e.claimed => e.at \in Nat /\ e.at <= now
    BY <1>3 DEF EventsPast
  <2>1. now \in Nat
    BY DEF Inv, TypeOK
  <2>2. CASE e \in events
    <3>1. /\ e.session \in Sessions /\ Owner(e.session) = e.tenant /\ e.tenant \in Tenants
          /\ ~ e.claimed => e.at \in Nat /\ e.at <= now
      BY <2>2 DEF Inv, EventsPast
    <3>2. Owner(e.session)' = e.tenant
      BY <1>2, <1>5, <3>1, ConstantsApart DEF Ids
    <3> QED  BY <3>1, <3>2
  <2>3. CASE e \in Kept(r)
    BY <1>1, <1>2, <1>5, <1>14, <2>1, <2>3
  <2> QED  BY <1>3, <2>2, <2>3
<1>16. OneViewPerWindow'
  <2>1. \A e \in events, f \in Kept(r) :
          e.session = f.session /\ ~ e.claimed /\ ~ f.claimed => e.at + Window <= f.at
    BY <1>1, <1>14 DEF Inv, SeenStays
  <2>2. \A e \in Kept(r), f \in Kept(r) : e.n = f.n
    BY <1>14
  <2> HIDE DEF r
  <2> QED  BY <1>3, <2>1, <2>2 DEF Inv, OneViewPerWindow
<1>17. ErrorsAreOfSharedIds'
  <2> SUFFICES ASSUME NEW d \in Clients, request'[d] # None, request'[d].status = "error"
               PROVE  \E x \in {request'[d].visitor, request'[d].session} :
                         \/ x \in request'[d].fresh
                         \/ Owner(x)' \notin {request'[d].tenant, None}
    BY DEF ErrorsAreOfSharedIds
  <2>1. PICK x \in {request[d].visitor, request[d].session} :
          x \in request[d].fresh \/ Owner(x) \notin {request[d].tenant, None}
    BY <1>8 DEF Inv, ErrorsAreOfSharedIds
  <2>2. Owner(x) # None => Owner(x)' = Owner(x)
    BY <1>2, <1>5, <1>8, <2>1
  <2> QED  BY <1>8, <2>1, <2>2
<1> QED  BY <1>9, <1>11, <1>13, <1>15, <1>16, <1>17 DEF Inv

LEMMA TickInv == ASSUME Inv, Tick PROVE Inv'
<1>1. UNCHANGED <<visitors, sessions, events, lock, request, begun>> /\ now' = now + 1
  BY DEF Tick
<1>2. now \in Nat /\ Window \in Nat
  BY ConstantsApart DEF Inv, TypeOK
<1>3. TypeOK' /\ LocksHold' /\ RowsHeld' /\ InsertsMissed'
  BY <1>1, <1>2 DEF Inv, TypeOK, LocksHold, RowsHeld, InsertsMissed, Running, Owner
<1>4. EventsPast'
  BY <1>1, <1>2 DEF Inv, EventsPast, Owner
<1>5. SeenStays'
  BY <1>1, <1>2 DEF Inv, SeenStays, EventsPast, Running
<1>6. OneViewPerWindow' /\ ErrorsAreOfSharedIds'
  BY <1>1 DEF Inv, OneViewPerWindow, ErrorsAreOfSharedIds, Owner
<1> QED  BY <1>3, <1>4, <1>5, <1>6 DEF Inv

\* Every step keeps the invariant.
LEMMA StepInv == Inv /\ [AttributionNext]_attribution => Inv'
<1> SUFFICES ASSUME Inv, [AttributionNext]_attribution PROVE Inv'
  OBVIOUS
<1>1. CASE UNCHANGED attribution
  BY <1>1 DEF attribution, Inv, TypeOK, LocksHold, RowsHeld, InsertsMissed, EventsPast,
              SeenStays, OneViewPerWindow, ErrorsAreOfSharedIds, Running, Owner
<1>2. ASSUME NEW c \in Clients, FindVisitor(c) \/ FindSession(c) PROVE Inv'
  BY <1>2, FindInv DEF FindVisitor, FindSession
<1>3. ASSUME NEW c \in Clients, InsertVisitor(c) \/ InsertSession(c) PROVE Inv'
  BY <1>3, InsertInv DEF InsertVisitor, InsertSession
<1> QED  BY <1>1, <1>2, <1>3, BeginInv, DedupeInv, IngestInv, AbortInv, TickInv
         DEF AttributionNext

THEOREM Invariance == AttributionSpec => []Inv
<1> QED  BY InitInv, StepInv, PTL DEF AttributionSpec

-----------------------------------------------------------------------------
\* However the batches of a session race, the views the server stamps are a
\* window apart: a request looks for them while it holds the session's row.
THEOREM ViewsAreApart == AttributionSpec => []OneViewPerWindow
<1>1. Inv => OneViewPerWindow
  BY DEF Inv
<1> QED  BY <1>1, Invariance, PTL

\* A batch that fails on a unique key (analytics_ingest.py, lines 36-104) meets an
\* id of another tenant, or one that was stored after it began.
THEOREM OnlySharedIdsFail == AttributionSpec => []ErrorsAreOfSharedIds
<1>1. Inv => ErrorsAreOfSharedIds
  BY DEF Inv
<1> QED  BY <1>1, Invariance, PTL

-----------------------------------------------------------------------------
\* The place of a source that a later request has named, of those told so far.
Named(told, i) == i \in 2 .. Len(told) /\ told[i] \notin {None, ""}

\* The source u is what the requests of the session have told.
Sticks(u, told) ==
    \/ told[1] # None /\ u = told[1]
    \/ /\ told[1] = None
       /\ \E i \in DOMAIN told :
             /\ Named(told, i) /\ \A j \in DOMAIN told : Named(told, j) => i <= j
             /\ u = told[i]
    \/ told[1] = None /\ u = None /\ \A i \in DOMAIN told : ~ Named(told, i)

SourcesOK ==
    /\ offered \in [Sessions -> Seq(Utm)]
    /\ \A s \in Sessions : /\ sessions[s] = None <=> offered[s] = <<>>
                           /\ sessions[s] # None => Sticks(sessions[s].utm, offered[s])

\* No session has a row before its first request.
LEMMA SourcesAtFirst == AttributionInit => SourcesOK
<1>1. <<>> \in Seq(Utm)
  OBVIOUS
<1> QED  BY <1>1 DEF AttributionInit, SourcesOK

\* The first request decides.
LEMMA FirstSource == ASSUME NEW u \in Utm PROVE <<u>> # <<>> /\ Sticks(u, <<u>>)
<1> PICK told : told = <<u>>
  OBVIOUS
<1>1. told # <<>> /\ told[1] = u /\ Len(told) = 1
  OBVIOUS
<1>2. \A i : i \notin 2 .. Len(told)
  BY <1>1
<1>3. \A i \in DOMAIN told : ~ Named(told, i)
  BY <1>2 DEF Named
<1> QED  BY <1>1, <1>3 DEF Sticks

\* COALESCE(old, NULLIF(new, '')): what is there stays, else what says something.
LEMMA Coalesced ==
    ASSUME NEW old, NEW u
    PROVE  /\ old # None => Attributed(old, u) = old
           /\ old = None /\ u \in {None, ""} => Attributed(old, u) = None
           /\ old = None /\ u \notin {None, ""} => Attributed(old, u) = u
<1>1. CASE old # None
  BY <1>1 DEF Attributed
<1>2. CASE old = None /\ u = ""
  BY <1>2 DEF Attributed
<1>3. CASE old = None /\ u # ""
  BY <1>3 DEF Attributed
<1> QED  BY <1>1, <1>2, <1>3

\* One more request, merged into what those before have left.
LEMMA NextSource ==
    ASSUME NEW told \in Seq(Utm), told # <<>>, NEW old, Sticks(old, told), NEW u \in Utm
    PROVE  Append(told, u) # <<>> /\ Sticks(Attributed(old, u), Append(told, u))
<1> PICK later, n : later = Append(told, u) /\ n = Len(told)
  OBVIOUS
<1>1. /\ n \in Nat /\ n >= 1 /\ DOMAIN told = 1 .. n /\ DOMAIN later = 1 .. n + 1
      /\ Len(later) = n + 1 /\ later[n + 1] = u /\ later # <<>>
      /\ \A i \in 1 .. n : later[i] = told[i]
  OBVIOUS
<1>2. later[1] = told[1]
  BY <1>1
<1>9. \A i \in 1 .. n : i \in 2 .. Len(later) <=> i \in 2 .. Len(told)
  BY <1>1
<1>10. n + 1 \in 2 .. Len(later)
  BY <1>1
<1>3. \A i \in DOMAIN told : Named(later, i) <=> Named(told, i)
  BY ONLY <1>1, <1>9 DEF Named
<1>4. Named(later, n + 1) <=> u \notin {None, ""}
  BY ONLY <1>1, <1>10 DEF Named
<1>5. \A i \in DOMAIN later : i \in DOMAIN told \/ i = n + 1
  BY <1>1
<1>6. CASE told[1] # None /\ old = told[1]
  BY <1>1, <1>2, <1>6, Coalesced DEF Sticks
<1>7. ASSUME told[1] = None, NEW i \in DOMAIN told, Named(told, i),
             \A j \in DOMAIN told : Named(told, j) => i <= j, old = told[i]
      PROVE  Sticks(Attributed(old, u), later)
  <2>1. Attributed(old, u) = later[i] /\ i \in DOMAIN later
    <3>1. told[i] # None
      BY ONLY <1>7 DEF Named
    <3>2. Attributed(old, u) = old
      BY ONLY <1>7, <3>1, Coalesced
    <3>3. i \in DOMAIN later /\ later[i] = told[i]
      BY <1>1
    <3> QED  BY ONLY <1>7, <3>2, <3>3
  <2>2. \A j \in DOMAIN later : Named(later, j) => i <= j
    <3>1. i <= n + 1
      BY <1>1
    <3> QED  BY <1>3, <1>5, <1>7, <3>1
  <2> QED  BY <1>2, <1>3, <1>7, <2>1, <2>2 DEF Sticks
<1>8. CASE told[1] = None /\ old = None /\ \A i \in DOMAIN told : ~ Named(told, i)
  <2>1. CASE u \in {None, ""}
    <3>1. Attributed(old, u) = None
      BY <1>8, <2>1, Coalesced
    <3>2. \A i \in DOMAIN later : ~ Named(later, i)
      BY <1>3, <1>4, <1>5, <1>8, <2>1
    <3> QED  BY <1>2, <1>8, <3>1, <3>2 DEF Sticks
  <2>2. CASE u \notin {None, ""}
    <3>1. Attributed(old, u) = later[n + 1] /\ n + 1 \in DOMAIN later
      <4>1. n + 1 \in DOMAIN later /\ later[n + 1] = u
        BY <1>1
      <4>2. Attributed(old, u) = u
        BY ONLY <1>8, <2>2, Coalesced
      <4> QED  BY ONLY <4>1, <4>2
    <3>2. \A j \in DOMAIN later : Named(later, j) => n + 1 <= j
      <4>1. \A j \in DOMAIN later : Named(later, j) => j = n + 1
        BY ONLY <1>3, <1>5, <1>8
      <4> QED  BY <1>1, <4>1
    <3>3. Named(later, n + 1)
      BY ONLY <1>4, <2>2
    <3>4. later[1] = None
      BY ONLY <1>2, <1>8
    <3> QED  BY <3>1, <3>2, <3>3, <3>4 DEF Sticks
  <2> QED  BY <2>1, <2>2
<1> QED  BY <1>1, <1>6, <1>7, <1>8 DEF Sticks

\* Only the commit of a batch writes a source, and it merges its own.
LEMMA SourcesStay ==
    ASSUME Inv, SourcesOK, [AttributionNext]_attribution PROVE SourcesOK'
<1>1. ASSUME UNCHANGED <<sessions, offered>> PROVE SourcesOK'
  BY <1>1 DEF SourcesOK
<1>2. ASSUME NEW c \in Clients, Ingest(c) PROVE SourcesOK'
  <2> PICK r, s, u : r = request[c] /\ s = r.session /\ u = r.utm
    OBVIOUS
  <2>1. r \in Request
    BY <1>2, Places DEF Ingest, Inv
  <2>2. s \in Sessions /\ u \in Utm
    BY <2>1 DEF Request
  <2>3. /\ offered' = [offered EXCEPT ![s] = Append(offered[s], u)]
        /\ sessions' = [sessions EXCEPT ![s] = [tenant |-> r.tenant,
              utm |-> IF sessions[s] = None THEN u ELSE Attributed(sessions[s].utm, u)]]
    BY <1>2 DEF Ingest
  <2>4. TypeOK /\ TypeOK'
    BY StepInv DEF Inv, AttributionNext
  <2>5. offered'[s] # <<>> /\ sessions'[s] # None /\ Sticks(sessions'[s].utm, offered'[s])
    <3>1. offered'[s] = Append(offered[s], u)
      BY <2>2, <2>3 DEF SourcesOK
    <3>2. sessions'[s].utm = IF sessions[s] = None THEN u ELSE Attributed(sessions[s].utm, u)
      BY <2>2, <2>3, <2>4 DEF TypeOK
    <3>3. sessions'[s] \in Session
      <4>1. sessions[s] # None => sessions[s].utm \in Utm
        BY <2>2, <2>4 DEF TypeOK, Session
      <4>2. None \in Utm /\ r.tenant \in Tenants
        BY <2>1 DEF Utm, Request
      <4>3. (IF sessions[s] = None THEN u ELSE Attributed(sessions[s].utm, u)) \in Utm
        BY <2>2, <4>1, <4>2 DEF Attributed
      <4> QED  BY <2>2, <2>3, <2>4, <4>2, <4>3 DEF TypeOK, Session
    <3>4. CASE sessions[s] = None
      <4>1. offered[s] = <<>>
        BY <2>2, <3>4 DEF SourcesOK
      <4>3. Append(<<>>, u) = <<u>>
        OBVIOUS
      <4>2. offered'[s] = <<u>> /\ sessions'[s].utm = u
        BY ONLY <3>1, <3>2, <3>4, <4>1, <4>3
      <4> QED  BY <2>2, <3>3, <4>2, FirstSource, ConstantsApart
    <3>5. CASE sessions[s] # None
      <4>1. /\ offered[s] \in Seq(Utm) /\ offered[s] # <<>>
            /\ Sticks(sessions[s].utm, offered[s])
        BY <2>2, <3>5 DEF SourcesOK
      <4>2. sessions'[s].utm = Attributed(sessions[s].utm, u)
        BY <3>2, <3>5
      <4> QED  BY <2>2, <3>1, <3>3, <4>1, <4>2, NextSource, ConstantsApart
    <3> QED  BY <3>4, <3>5
  <2>6. \A x \in Sessions \ {s} : sessions'[x] = sessions[x] /\ offered'[x] = offered[x]
    BY <2>3, <2>4 DEF TypeOK, SourcesOK
  <2>7. offered' \in [Sessions -> Seq(Utm)]
    BY <2>2, <2>3 DEF SourcesOK
  <2>8. \A x \in Sessions \ {s} :
           /\ sessions'[x] = None <=> offered'[x] = <<>>
           /\ sessions'[x] # None => Sticks(sessions'[x].utm, offered'[x])
    BY <2>6 DEF SourcesOK
  <2> QED  BY <2>5, <2>7, <2>8 DEF SourcesOK
<1>3. CASE ~ \E c \in Clients : Ingest(c)
  BY <1>1, <1>3 DEF AttributionNext, attribution, Begin, FindVisitor, InsertVisitor, FindSession,
     InsertSession, Find, Insert, GoOn, Fail, Dedupe, Abort, Tick
<1> QED  BY <1>2, <1>3

\* The source of a session is the one its first request named, or the first
\* that was named later (analytics_ingest.py, COALESCE and NULLIF in the
\* upsert), however the batches race.
THEOREM SourceSticks == AttributionSpec => []FirstAttributionSticks
<1>1. SourcesOK => FirstAttributionSticks
  BY DEF SourcesOK, Sticks, Named, FirstAttributionSticks
<1> QED  BY <1>1, SourcesAtFirst, SourcesStay, Invariance, PTL DEF AttributionSpec

-----------------------------------------------------------------------------
(* The chats. A chat has a share of the quota of the month it was reserved    *)
(* in; the counter is the sum of what the chats have added to it, and the     *)
(* total that INCRBY returns is never less than the shares, however stale it  *)
(* is by the time the request looks at it.                                    *)

Early == {"idle", "expire", "reserve"}
Admitted == {"load", "insert", "call"}
Answered == {"save", "commit"} \cup Ended

\* What a chat cannot have yet: a reservation, an answer, a settlement.
ChatsOK == \A c \in Chats :
    /\ pc[c] \in Early => booked[c] = 0
    /\ pc[c] \notin Answered => settled[c] = 0
    /\ pc[c] \notin Answered \cup {"adjust"} => tokens[c] = 0
    /\ pc[c] = "deny" => booked[c] # 0

\* What a chat has added to the counter of month m.
Counted(m) == [c \in Chats |->
    (IF booked[c] = m THEN Estimate[c] ELSE 0)
      + (IF settled[c] = m THEN tokens[c] - Estimate[c] ELSE 0)]

UsedIsCounted == \A m \in Months : used[m] = Sum(Counted(m), Chats)

\* What a chat takes of the quota of month m for good: it is admitted with its
\* estimate, and nothing it does later takes more.
Share(m) == [c \in Chats |->
    (IF booked[c] = m
     THEN (tokens[c] - Excess[c]) + (IF pc[c] \in Admitted THEN Estimate[c] ELSE 0) ELSE 0)
      - (IF settled[c] = m /\ booked[c] # m THEN Estimate[c] ELSE 0)]

SharesFit == HardLimit > 0 => \A m \in Months : Sum(Share(m), Chats) <= HardLimit

QuotaInv == QuotaTypeOK /\ ChatsOK /\ UsedIsCounted /\ SharesFit

LEMMA QuotaConstants ==
    /\ IsFiniteSet(Chats) /\ Nobody \notin Chats /\ HardLimit \in Nat
    /\ \A c \in Chats : UserOf[c] \in Users /\ Estimate[c] \in Nat /\ Estimate[c] > 0
    /\ \A k \in Users : RateLimit[k] \in Nat
    /\ \A m \in Months : m \in Nat /\ m > 0
    /\ 1 \in Months
    /\ \A u \in Usages : u \in Nat
BY QuotaAssumption DEF Months

\* A chat that ends frees what it had locked.
LEMMA EndTyped ==
    ASSUME QuotaTypeOK, NEW c \in Chats, NEW s \in Ended, End(c, s)
    PROVE  /\ holder' \in [Users -> Chats \cup {Nobody}]
           /\ pc' = [pc EXCEPT ![c] = s]
BY DEF End, Goto, QuotaTypeOK

LEMMA QuotaTyped == ASSUME QuotaTypeOK, ChatsOK, [Next]_vars PROVE QuotaTypeOK'
<1> USE QuotaConstants DEF redis, database, local
<1>1. ASSUME NEW c \in Chats, HitRate(c) PROVE QuotaTypeOK'
  <2>1. UserOf[c] \in Users /\ hits[UserOf[c]] + 1 \in Nat
    BY DEF QuotaTypeOK
  <2> QED  BY <1>1, <2>1 DEF HitRate, Goto, QuotaTypeOK
<1>2. ASSUME NEW c \in Chats, SetExpiry(c) PROVE QuotaTypeOK'
  BY <1>2 DEF SetExpiry, Goto, QuotaTypeOK
<1>3. ASSUME NEW c \in Chats, RateLimited(c) PROVE QuotaTypeOK'
  BY <1>3, EndTyped DEF RateLimited, QuotaTypeOK, Ended
<1>4. ASSUME NEW c \in Chats, Reserve(c) PROVE QuotaTypeOK'
  <2>1. used[month] \in Int /\ used[month] + Estimate[c] \in Int
    BY DEF QuotaTypeOK
  <2>2. used' \in [Months -> Int] /\ booked' \in [Chats -> {0} \cup Months]
    <3>1. \/ /\ used' = [used EXCEPT ![month] = @ + Estimate[c]]
             /\ booked' = [booked EXCEPT ![c] = month]
          \/ UNCHANGED <<used, booked>>
      BY <1>4 DEF Reserve, Count
    <3>2. CASE UNCHANGED <<used, booked>>
      BY <3>2 DEF QuotaTypeOK
    <3>3. CASE /\ used' = [used EXCEPT ![month] = @ + Estimate[c]]
               /\ booked' = [booked EXCEPT ![c] = month]
      <4>1. used' \in [Months -> Int]
        BY <2>1, <3>3 DEF QuotaTypeOK
      <4>2. booked' \in [Chats -> {0} \cup Months]
        BY <3>3 DEF QuotaTypeOK
      <4> QED  BY <4>1, <4>2
    <3> QED  BY <3>1, <3>2, <3>3
  <2>3. pc' = [pc EXCEPT ![c] = "load"] \/ pc' = [pc EXCEPT ![c] = "deny"]
    BY <1>4 DEF Reserve, Goto
  <2> QED  BY <1>4, <2>2, <2>3 DEF Reserve, QuotaTypeOK
<1>5. ASSUME NEW c \in Chats, Deny(c) PROVE QuotaTypeOK'
  <2>1. booked[c] \in Months /\ used[booked[c]] + (-Estimate[c]) \in Int
    BY <1>5 DEF Deny, ChatsOK, QuotaTypeOK
  <2>2. used' \in [Months -> Int] /\ settled' \in [Chats -> {0} \cup Months]
    BY <1>5, <2>1 DEF Deny, Count, QuotaTypeOK
  <2> QED  BY <1>5, <2>2, EndTyped DEF Deny, QuotaTypeOK, Ended
<1>6. ASSUME NEW c \in Chats, LoadConversation(c) PROVE QuotaTypeOK'
  <2>1. UserOf[c] \in Users
    OBVIOUS
  <2>2. CASE UserOf[c] \in created
    BY <1>6, <2>1, <2>2 DEF LoadConversation, Goto, QuotaTypeOK
  <2>3. CASE UserOf[c] \notin created
    BY <1>6, <2>3 DEF LoadConversation, Goto, QuotaTypeOK
  <2> QED  BY <2>2, <2>3
<1>7. ASSUME NEW c \in Chats, InsertConversation(c) PROVE QuotaTypeOK'
  <2>1. CASE UserOf[c] \in created
    BY <1>7, <2>1, EndTyped DEF InsertConversation, QuotaTypeOK, Ended
  <2>2. CASE UserOf[c] \notin created
    BY <1>7, <2>2 DEF InsertConversation, Goto, QuotaTypeOK
  <2> QED  BY <2>1, <2>2
<1>8. ASSUME NEW c \in Chats, Answer(c) PROVE QuotaTypeOK'
  BY <1>8 DEF Answer, Goto, QuotaTypeOK
<1>9. ASSUME NEW c \in Chats, ProviderFails(c) PROVE QuotaTypeOK'
  <2>1. month \in Months /\ used[month] + (-Estimate[c]) \in Int
    BY DEF QuotaTypeOK
  <2>2. used' \in [Months -> Int] /\ settled' \in [Chats -> {0} \cup Months]
    BY <1>9, <2>1 DEF ProviderFails, Count, QuotaTypeOK
  <2> QED  BY <1>9, <2>2, EndTyped DEF ProviderFails, QuotaTypeOK, Ended
<1>10. ASSUME NEW c \in Chats, Adjust(c) PROVE QuotaTypeOK'
  <2>1. month \in Months /\ used[month] + (tokens[c] - Estimate[c]) \in Int
    BY DEF QuotaTypeOK
  <2>2. used' \in [Months -> Int] /\ settled' \in [Chats -> {0} \cup Months]
    BY <1>10, <2>1 DEF Adjust, Count, QuotaTypeOK
  <2> QED  BY <1>10, <2>2 DEF Adjust, Goto, QuotaTypeOK
<1>11. ASSUME NEW c \in Chats, Save(c) PROVE QuotaTypeOK'
  BY <1>11 DEF Save, Goto, QuotaTypeOK
<1>12. ASSUME NEW c \in Chats, Commit(c) PROVE QuotaTypeOK'
  <2>1. UserOf[c] \in Users /\ Append(loaded[c], c) \in Seq(Chats) /\ Append(log, c) \in Seq(Chats)
    BY DEF QuotaTypeOK
  <2> QED  BY <1>12, <2>1, EndTyped DEF Commit, QuotaTypeOK, Ended
<1>13. ASSUME NEW c \in Chats, Crash(c) PROVE QuotaTypeOK'
  BY <1>13, EndTyped DEF Crash, QuotaTypeOK, Ended
<1>14. ASSUME NEW k \in Users, WindowEnds(k) PROVE QuotaTypeOK'
  BY <1>14 DEF WindowEnds, QuotaTypeOK
<1>15. ASSUME NextMonth PROVE QuotaTypeOK'
  BY <1>15, QuotaAssumption DEF NextMonth, QuotaTypeOK, Months
<1>16. CASE UNCHANGED vars
  BY <1>16 DEF vars, QuotaTypeOK
<1> QED
  BY <1>1, <1>2, <1>3, <1>4, <1>5, <1>6, <1>7, <1>8, <1>9, <1>10, <1>11, <1>12, <1>13, <1>14,
     <1>15, <1>16 DEF Next, Step, AllEnded

\* The other chats, and what they have written.
Others(c) == \A d \in Chats \ {c} :
    pc'[d] = pc[d] /\ tokens'[d] = tokens[d] /\ booked'[d] = booked[d] /\ settled'[d] = settled[d]

\* What a step of a chat may do to the counter and to what it has in it.
Moves(c) ==
    \/ /\ pc[c] = "reserve" /\ HardLimit > 0
       /\ used' = [used EXCEPT ![month] = @ + Estimate[c]]
       /\ booked'[c] = month /\ tokens'[c] = tokens[c] /\ settled'[c] = settled[c]
       /\ \/ pc'[c] = "load" /\ used'[month] <= HardLimit
          \/ pc'[c] = "deny"
    \/ /\ pc[c] \in {"deny", "call", "adjust"}
       /\ \E m \in Months :
             /\ pc[c] = "deny" => m = booked[c]
             /\ used' = [used EXCEPT ![m] = @ + (tokens[c] - Estimate[c])]
             /\ settled'[c] = m
       /\ tokens'[c] = tokens[c] /\ booked'[c] = booked[c] /\ pc'[c] \in Answered
    \/ /\ pc[c] = "call" /\ pc'[c] = "adjust"
       /\ tokens'[c] \in Nat
       /\ UNCHANGED used /\ booked'[c] = booked[c] /\ settled'[c] = settled[c]
    \/ /\ UNCHANGED used
       /\ tokens'[c] = tokens[c] /\ booked'[c] = booked[c] /\ settled'[c] = settled[c]
       /\ \/ pc[c] \in Early /\ pc'[c] \in Early \cup {"refused"}
          \/ pc[c] = "reserve" /\ pc'[c] = "load" /\ HardLimit = 0
          \/ pc[c] \in Admitted /\ pc'[c] \in Admitted
          \/ pc'[c] \in Answered

LEMMA StepMoves ==
    ASSUME QuotaTypeOK, ChatsOK, NEW c \in Chats, Step(c) \/ Crash(c)
    PROVE  Moves(c) /\ Others(c)
<1> USE QuotaConstants DEF redis, database, local, Others, Moves, Early, Admitted, Answered, Ended
<1>1. CASE HitRate(c)
  BY <1>1 DEF HitRate, Goto, QuotaTypeOK
<1>2. CASE SetExpiry(c)
  BY <1>2 DEF SetExpiry, Goto, QuotaTypeOK
<1>3. CASE RateLimited(c)
  BY <1>3 DEF RateLimited, End, Goto, QuotaTypeOK
<1>4. CASE Reserve(c)
  <2>1. CASE HardLimit > 0
    <3>1. \/ pc' = [pc EXCEPT ![c] = "load"] /\ used'[month] <= HardLimit
          \/ pc' = [pc EXCEPT ![c] = "deny"]
      <4>1. used'[month] \in Int
        BY <1>4, QuotaTyped DEF QuotaTypeOK, Next, Step
      <4> QED  BY <1>4, <2>1, <4>1 DEF Reserve, Goto
    <3> QED  BY <1>4, <2>1, <3>1 DEF Reserve, Count, QuotaTypeOK
  <2>2. CASE HardLimit = 0
    BY <1>4, <2>2 DEF Reserve, Goto, QuotaTypeOK
  <2> QED  BY <2>1, <2>2
<1>5. CASE Deny(c)
  <2>1. booked[c] \in Months /\ tokens[c] - Estimate[c] = -Estimate[c]
    <3>1. booked[c] \in Months /\ tokens[c] = 0
      BY <1>5 DEF Deny, ChatsOK, QuotaTypeOK
    <3> QED  BY <3>1
  <2>2. /\ used' = [used EXCEPT ![booked[c]] = @ + (tokens[c] - Estimate[c])]
        /\ settled'[c] = booked[c]
    BY <1>5, <2>1 DEF Deny, Count, QuotaTypeOK
  <2> QED  BY <1>5, <2>1, <2>2 DEF Deny, End, Goto, QuotaTypeOK
<1>6. CASE LoadConversation(c)
  BY <1>6 DEF LoadConversation, Goto, QuotaTypeOK
<1>7. CASE InsertConversation(c)
  BY <1>7 DEF InsertConversation, End, Goto, QuotaTypeOK
<1>8. CASE Answer(c)
  BY <1>8 DEF Answer, Goto, QuotaTypeOK
<1>9. CASE ProviderFails(c)
  <2>1. month \in Months /\ tokens[c] - Estimate[c] = -Estimate[c]
    <3>1. month \in Months /\ tokens[c] = 0
      BY <1>9 DEF ProviderFails, ChatsOK, QuotaTypeOK
    <3> QED  BY <3>1
  <2>2. /\ used' = [used EXCEPT ![month] = @ + (tokens[c] - Estimate[c])]
        /\ settled'[c] = month
    BY <1>9, <2>1 DEF ProviderFails, Count, QuotaTypeOK
  <2> QED  BY <1>9, <2>1, <2>2 DEF ProviderFails, End, Goto, QuotaTypeOK
<1>10. CASE Adjust(c)
  BY <1>10 DEF Adjust, Count, Goto, QuotaTypeOK
<1>11. CASE Save(c)
  BY <1>11 DEF Save, Goto, QuotaTypeOK
<1>12. CASE Commit(c)
  BY <1>12 DEF Commit, End, Goto, QuotaTypeOK
<1>13. CASE Crash(c)
  BY <1>13 DEF Crash, End, Goto, QuotaTypeOK
<1> QED
  BY <1>1, <1>2, <1>3, <1>4, <1>5, <1>6, <1>7, <1>8, <1>9, <1>10, <1>11, <1>12, <1>13 DEF Step

\* What the chats have is what they need after any of those moves.
LEMMA ChatsStay ==
    ASSUME QuotaTypeOK, QuotaTypeOK', ChatsOK, NEW c \in Chats, Moves(c), Others(c)
    PROVE  ChatsOK'
<1> USE DEF Early, Admitted, Answered, Ended
<1>1. \A d \in Chats \ {c} :
        /\ pc'[d] \in Early => booked'[d] = 0
        /\ pc'[d] \notin Answered => settled'[d] = 0
        /\ pc'[d] \notin Answered \cup {"adjust"} => tokens'[d] = 0
        /\ pc'[d] = "deny" => booked'[d] # 0
  BY DEF Others, ChatsOK
<1>2. /\ pc'[c] \in Early => booked'[c] = 0
      /\ pc'[c] \notin Answered => settled'[c] = 0
      /\ pc'[c] \notin Answered \cup {"adjust"} => tokens'[c] = 0
      /\ pc'[c] = "deny" => booked'[c] # 0
  <2>1. month \in Months /\ month # 0
    BY QuotaConstants DEF QuotaTypeOK
  <2>2. /\ pc[c] \in Early => booked[c] = 0
        /\ pc[c] \notin Answered => settled[c] = 0
        /\ pc[c] \notin Answered \cup {"adjust"} => tokens[c] = 0
    BY DEF ChatsOK
  <2> QED  BY <2>1, <2>2 DEF Moves
<1> QED  BY <1>1, <1>2 DEF ChatsOK

LEMMA CountedTyped ==
    ASSUME QuotaTypeOK, QuotaTypeOK', NEW m \in Months, NEW c \in Chats
    PROVE  /\ Counted(m)[c] \in Int /\ Counted(m)'[c] \in Int
           /\ Share(m)[c] \in Int /\ Share(m)'[c] \in Int
<1>1. Estimate[c] \in Int /\ tokens[c] \in Int /\ tokens'[c] \in Int
  <2>1. tokens[c] \in Nat /\ tokens'[c] \in Nat
    BY DEF QuotaTypeOK
  <2> QED  BY <2>1, QuotaConstants
<1>2. Excess[c] \in Int /\ Excess'[c] \in Int
  BY <1>1 DEF Excess
<1>3. /\ tokens[c] - Estimate[c] \in Int /\ tokens[c] - Excess[c] \in Int
      /\ tokens'[c] - Estimate[c] \in Int /\ tokens'[c] - Excess'[c] \in Int
  BY <1>1, <1>2
<1>4. Counted(m)[c] \in Int /\ Counted(m)'[c] \in Int
  BY <1>1, <1>3 DEF Counted
<1>5. Share(m)[c] \in Int /\ Share(m)'[c] \in Int
  BY <1>1, <1>3 DEF Share
<1> QED  BY <1>4, <1>5

\* The counter moves by what the chat that moves has in it.
LEMMA CountMoves ==
    ASSUME QuotaTypeOK, QuotaTypeOK', ChatsOK, UsedIsCounted,
           NEW c \in Chats, Moves(c), Others(c)
    PROVE  UsedIsCounted'
<1> USE QuotaConstants
<1> SUFFICES ASSUME NEW m \in Months PROVE used'[m] = Sum(Counted(m)', Chats)
  BY DEF UsedIsCounted
<1>1. Sum(Counted(m)', Chats) = Sum(Counted(m), Chats) + (Counted(m)'[c] - Counted(m)[c])
  <2>1. \A d \in Chats \ {c} : Counted(m)'[d] = Counted(m)[d]
    BY DEF Counted, Others
  <2>2. \A d \in Chats : Counted(m)[d] \in Int /\ Counted(m)'[d] \in Int
    BY CountedTyped
  <2> QED  BY <2>1, <2>2, SumChange
<1>2. used'[m] = used[m] + (Counted(m)'[c] - Counted(m)[c])
  <2>1. /\ Counted(m)[c] = (IF booked[c] = m THEN Estimate[c] ELSE 0)
                             + (IF settled[c] = m THEN tokens[c] - Estimate[c] ELSE 0)
        /\ Counted(m)'[c] = (IF booked'[c] = m THEN Estimate[c] ELSE 0)
                             + (IF settled'[c] = m THEN tokens'[c] - Estimate[c] ELSE 0)
    BY DEF Counted
  <2>2. /\ used[m] \in Int /\ tokens[c] \in Int /\ tokens'[c] \in Int /\ month \in Months
        /\ used \in [Months -> Int]
    BY DEF QuotaTypeOK
  <2>8. Estimate[c] \in Int /\ m # 0
    OBVIOUS
  <2>3. /\ pc[c] = "reserve" => booked[c] = 0 /\ settled[c] = 0
        /\ pc[c] \in {"deny", "call", "adjust"} => settled[c] = 0
    BY DEF ChatsOK, Early, Answered, Ended
  <2>4. CASE /\ pc[c] = "reserve"
             /\ used' = [used EXCEPT ![month] = @ + Estimate[c]]
             /\ booked'[c] = month /\ tokens'[c] = tokens[c] /\ settled'[c] = settled[c]
    <3>1. used'[m] = used[m] + (IF m = month THEN Estimate[c] ELSE 0)
      BY <2>2, <2>8, <2>4
    <3> QED  BY <2>1, <2>2, <2>8, <2>3, <2>4, <3>1
  <2>5. CASE /\ pc[c] \in {"deny", "call", "adjust"}
             /\ \E n \in Months :
                  /\ used' = [used EXCEPT ![n] = @ + (tokens[c] - Estimate[c])]
                  /\ settled'[c] = n
             /\ tokens'[c] = tokens[c] /\ booked'[c] = booked[c]
    <3>1. used'[m] = used[m] + (IF m = settled'[c] THEN tokens[c] - Estimate[c] ELSE 0)
      <4>1. tokens[c] - Estimate[c] \in Int
        BY <2>2, <2>8
      <4> QED  BY <2>2, <4>1, <2>5
    <3> QED  BY <2>1, <2>2, <2>8, <2>3, <2>5, <3>1
  <2>6. CASE pc[c] = "call" /\ UNCHANGED used /\ booked'[c] = booked[c] /\ settled'[c] = settled[c]
    BY <2>1, <2>2, <2>8, <2>3, <2>6
  <2>7. CASE /\ UNCHANGED used
             /\ tokens'[c] = tokens[c] /\ booked'[c] = booked[c] /\ settled'[c] = settled[c]
    BY <2>1, <2>2, <2>8, <2>7
  <2> QED  BY <2>4, <2>5, <2>6, <2>7 DEF Moves
<1>3. used[m] = Sum(Counted(m), Chats)
  BY DEF UsedIsCounted
<1> QED  BY <1>1, <1>2, <1>3

\* A chat takes no more of a month's quota than it has added to the counter.
LEMMA ShareCounted ==
    ASSUME QuotaTypeOK', ChatsOK', NEW m \in Months, NEW c \in Chats
    PROVE  Share(m)'[c] <= Counted(m)'[c]
<1> DEFINE t == tokens'[c]
           e == Estimate[c]
           x == Excess'[c]
<1>1. t \in Nat /\ e \in Nat
  BY QuotaConstants DEF QuotaTypeOK
<1>2. x = IF t > e THEN t - e ELSE 0
  BY DEF Excess
<1>3. pc'[c] \in Admitted => t = 0 /\ settled'[c] = 0
  BY DEF ChatsOK, Admitted, Answered, Ended
<1>4. m # 0
  BY QuotaConstants
<1>5. /\ Counted(m)'[c] = (IF booked'[c] = m THEN e ELSE 0)
                           + (IF settled'[c] = m THEN t - e ELSE 0)
      /\ Share(m)'[c] =
           (IF booked'[c] = m THEN (t - x) + (IF pc'[c] \in Admitted THEN e ELSE 0) ELSE 0)
             - (IF settled'[c] = m /\ booked'[c] # m THEN e ELSE 0)
  BY DEF Counted, Share
<1> HIDE DEF t, e, x
<1>6. CASE pc'[c] \in Admitted
  BY <1>1, <1>2, <1>3, <1>4, <1>5, <1>6
<1>7. CASE pc'[c] \notin Admitted
  BY <1>1, <1>2, <1>4, <1>5, <1>7
<1> QED  BY <1>6, <1>7

\* Past its admission a chat does not take more.
LEMMA ShareShrinks ==
    ASSUME QuotaTypeOK, QuotaTypeOK', ChatsOK, HardLimit > 0,
           NEW c \in Chats, Moves(c), NEW m \in Months,
           ~ (m = month /\ pc'[c] = "load" /\ pc[c] = "reserve" /\ used'[m] <= HardLimit)
    PROVE  Share(m)'[c] <= Share(m)[c]
<1> DEFINE t == tokens[c]
           u == tokens'[c]
           e == Estimate[c]
<1>1. t \in Nat /\ u \in Nat /\ e \in Nat
  <2>1. t \in Nat /\ u \in Nat
    BY DEF QuotaTypeOK
  <2> QED  BY <2>1, QuotaConstants
<1>2. /\ Excess[c] = IF t > e THEN t - e ELSE 0
      /\ Excess'[c] = IF u > e THEN u - e ELSE 0
  BY DEF Excess
<1>3. m # 0
  BY QuotaConstants
<1>4. /\ pc[c] \in Early => booked[c] = 0
      /\ pc[c] \notin Answered => settled[c] = 0
      /\ pc[c] \notin Answered \cup {"adjust"} => t = 0
  BY DEF ChatsOK
<1>5. /\ Share(m)[c] =
           (IF booked[c] = m
            THEN (t - Excess[c]) + (IF pc[c] \in Admitted THEN e ELSE 0) ELSE 0)
             - (IF settled[c] = m /\ booked[c] # m THEN e ELSE 0)
      /\ Share(m)'[c] =
           (IF booked'[c] = m
            THEN (u - Excess'[c]) + (IF pc'[c] \in Admitted THEN e ELSE 0) ELSE 0)
             - (IF settled'[c] = m /\ booked'[c] # m THEN e ELSE 0)
  BY DEF Share
<1> USE DEF Early, Admitted, Answered, Ended
<1>6. CASE /\ pc[c] = "reserve"
           /\ booked'[c] = month /\ u = t /\ settled'[c] = settled[c]
           /\ \/ pc'[c] = "load" /\ used'[month] <= HardLimit
              \/ pc'[c] = "deny"
  <2>1. booked[c] = 0 /\ settled[c] = 0 /\ t = 0 /\ Excess[c] = 0 /\ Excess'[c] = 0
    BY <1>1, <1>2, <1>4, <1>6
  <2>2. booked'[c] = m => pc'[c] = "deny"
    BY <1>6
  <2> HIDE DEF t, u, e
  <2>3. Share(m)[c] = 0 /\ Share(m)'[c] = 0
    BY <1>1, <1>3, <1>5, <1>6, <2>1, <2>2
  <2> QED  BY <2>3
<1>7. CASE /\ pc[c] \in {"deny", "call", "adjust"}
           /\ u = t /\ booked'[c] = booked[c] /\ pc'[c] \in Answered
  <2>1. settled[c] = 0 /\ pc'[c] \notin Admitted /\ Excess'[c] = Excess[c]
    BY <1>2, <1>4, <1>7
  <2>2. Excess[c] \in Nat
    BY <1>1, <1>2
  <2> HIDE DEF t, u, e
  <2> QED  BY <1>1, <1>3, <1>5, <1>7, <2>1, <2>2
<1>8. CASE /\ pc[c] = "call" /\ pc'[c] = "adjust"
           /\ booked'[c] = booked[c] /\ settled'[c] = settled[c]
  <2>1. settled[c] = 0 /\ t = 0 /\ pc[c] \in Admitted /\ pc'[c] \notin Admitted
    BY <1>4, <1>8
  <2> HIDE DEF t, u, e
  <2>2. Excess[c] = 0 /\ u - Excess'[c] <= e /\ u - Excess'[c] \in Int
    BY <1>1, <1>2, <2>1
  <2> QED  BY <1>1, <1>3, <1>5, <1>8, <2>1, <2>2
<1>9. CASE /\ u = t /\ booked'[c] = booked[c] /\ settled'[c] = settled[c]
           /\ \/ pc[c] \in Early /\ pc'[c] \in Early \cup {"refused"}
              \/ pc[c] \in Admitted /\ pc'[c] \in Admitted
              \/ pc'[c] \in Answered
  <2>1. pc[c] \in Admitted \/ pc'[c] \notin Admitted
    BY <1>9
  <2>2. Excess'[c] = Excess[c] /\ Excess[c] \in Nat
    BY <1>1, <1>2, <1>9
  <2> HIDE DEF t, u, e
  <2>3. CASE pc'[c] \in Admitted
    BY <1>1, <1>5, <1>9, <2>1, <2>2, <2>3
  <2>4. CASE pc'[c] \notin Admitted
    BY <1>1, <1>5, <1>9, <2>2, <2>4
  <2> QED  BY <2>3, <2>4
<1>10. CASE HardLimit = 0
  BY <1>10
<1> QED  BY <1>6, <1>7, <1>8, <1>9, <1>10 DEF Moves

\* The quota is not exceeded by the shares: a chat is admitted on a total that
\* has all of them in it, and no other step takes more.
LEMMA SharesMove ==
    ASSUME QuotaTypeOK, QuotaTypeOK', ChatsOK, ChatsOK', UsedIsCounted', SharesFit,
           NEW c \in Chats, Moves(c), Others(c)
    PROVE  SharesFit'
<1> USE QuotaConstants
<1> SUFFICES ASSUME HardLimit > 0, NEW m \in Months PROVE Sum(Share(m)', Chats) <= HardLimit
  BY DEF SharesFit
<1> DEFINE Admits == m = month /\ pc'[c] = "load" /\ pc[c] = "reserve" /\ used'[m] <= HardLimit
<1>1. CASE Admits
  <2>1. \A d \in Chats : /\ Share(m)'[d] \in Int /\ Counted(m)'[d] \in Int
                         /\ Share(m)'[d] <= Counted(m)'[d]
    BY CountedTyped, ShareCounted
  <2>2. Sum(Share(m)', Chats) <= Sum(Counted(m)', Chats)
    BY <2>1, SumMonotone
  <2>3. /\ Sum(Counted(m)', Chats) \in Int /\ Sum(Share(m)', Chats) \in Int
        /\ Sum(Counted(m)', Chats) = used'[m]
    BY <2>1, SumTyped DEF UsedIsCounted
  <2> QED  BY <1>1, <2>2, <2>3
<1>2. CASE ~ Admits
  <2>1. \A d \in Chats \ {c} : Share(m)'[d] = Share(m)[d]
    BY DEF Share, Others, Excess
  <2>2. Share(m)'[c] <= Share(m)[c]
    BY <1>2, ShareShrinks
  <2>3. \A d \in Chats : /\ Share(m)[d] \in Int /\ Share(m)'[d] \in Int
                         /\ Share(m)'[d] <= Share(m)[d]
    BY <2>1, <2>2, CountedTyped
  <2>4. Sum(Share(m)', Chats) <= Sum(Share(m), Chats)
    BY <2>3, SumMonotone
  <2>5. Sum(Share(m), Chats) \in Int /\ Sum(Share(m)', Chats) \in Int
    BY <2>3, SumTyped
  <2>6. Sum(Share(m), Chats) <= HardLimit
    BY DEF SharesFit
  <2> QED  BY <2>4, <2>5, <2>6
<1> QED  BY <1>1, <1>2

LEMMA QuotaInit == Init => QuotaInv
<1> SUFFICES ASSUME Init PROVE QuotaInv
  OBVIOUS
<1> USE QuotaConstants
<1>1. QuotaTypeOK
  <2>1. <<>> \in Seq(Chats)
    OBVIOUS
  <2> QED  BY <2>1 DEF Init, QuotaTypeOK
<1>2. ChatsOK
  BY DEF Init, ChatsOK
<1>3. ASSUME NEW m \in Months PROVE Sum(Counted(m), Chats) = 0 /\ Sum(Share(m), Chats) = 0
  <2>1. \A c \in Chats : booked[c] # m /\ settled[c] # m
    BY DEF Init
  <2>2. \A c \in Chats : Counted(m)[c] = 0 /\ Share(m)[c] = 0
    BY <2>1 DEF Counted, Share
  <2> QED  BY <2>2, SumZero
<1>4. UsedIsCounted
  BY <1>3 DEF Init, UsedIsCounted
<1>5. SharesFit
  BY <1>3 DEF SharesFit
<1> QED  BY <1>1, <1>2, <1>4, <1>5 DEF QuotaInv

LEMMA QuotaStep == QuotaInv /\ [Next]_vars => QuotaInv'
<1> SUFFICES ASSUME QuotaInv, [Next]_vars PROVE QuotaInv'
  OBVIOUS
<1> USE DEF QuotaInv
<1>1. QuotaTypeOK'
  BY QuotaTyped
<1>2. ASSUME NEW c \in Chats, Step(c) \/ Crash(c) PROVE QuotaInv'
  <2>1. Moves(c) /\ Others(c)
    BY <1>2, StepMoves
  <2>2. ChatsOK'
    BY <1>1, <2>1, ChatsStay
  <2>3. UsedIsCounted'
    BY <1>1, <2>1, CountMoves
  <2>4. SharesFit'
    BY <1>1, <2>1, <2>2, <2>3, SharesMove
  <2> QED  BY <1>1, <2>2, <2>3, <2>4
<1>3. CASE UNCHANGED <<used, pc, tokens, booked, settled>>
  <2>1. ChatsOK'
    BY <1>3 DEF ChatsOK
  <2>2. \A m \in Months : Counted(m)' = Counted(m) /\ Share(m)' = Share(m)
    BY <1>3 DEF Counted, Share, Excess
  <2> QED  BY <1>1, <1>3, <2>1, <2>2 DEF UsedIsCounted, SharesFit
<1> QED
  BY <1>2, <1>3 DEF Next, AllEnded, vars, WindowEnds, NextMonth, redis, database, local

LEMMA QuotaInvariance == Spec => []QuotaInv
BY QuotaInit, QuotaStep, PTL DEF Spec

\* A sum of the properties is one over all chats.
LEMMA TotalOf ==
    ASSUME NEW f, NEW S \in SUBSET Chats, \A c \in S : f[c] \in Int
    PROVE  Total(f, S) = Sum([c \in Chats |-> IF c \in S THEN f[c] ELSE 0], Chats)
<1> DEFINE g == [c \in Chats |-> IF c \in S THEN f[c] ELSE 0]
<1>1. \A c \in Chats : g[c] = IF c \in S THEN f[c] ELSE 0
  OBVIOUS
<1> HIDE DEF g
<1>2. Sum(f, S) = Sum(g, Chats)
  BY <1>1, QuotaConstants, SumOfPart
<1> QED  BY <1>2 DEF Total, Sum, g

\* Every chat keeps its reservation: the shares of a month, added up.
LEMMA QuotaKept == QuotaInv => HardLimitHolds
<1> SUFFICES ASSUME QuotaInv, HardLimit > 0, NEW m \in Months
      PROVE  LET of_m == {c \in Chats : booked[c] = m}
                 carried == {c \in Chats : settled[c] = m /\ booked[c] # m}
             IN  Total(tokens, of_m)
                   + Total(Estimate, {c \in of_m : pc[c] \in {"load", "insert", "call"}})
                 <= HardLimit + Total(Excess, of_m) + Total(Estimate, carried)
  BY DEF HardLimitHolds
<1> USE QuotaConstants
<1> DEFINE ofm == {c \in Chats : booked[c] = m}
           run == {c \in ofm : pc[c] \in {"load", "insert", "call"}}
           carried == {c \in Chats : settled[c] = m /\ booked[c] # m}
           spent == [c \in Chats |-> IF c \in ofm THEN tokens[c] ELSE 0]
           held == [c \in Chats |-> IF c \in run THEN Estimate[c] ELSE 0]
           over == [c \in Chats |-> IF c \in ofm THEN Excess[c] ELSE 0]
           back == [c \in Chats |-> IF c \in carried THEN Estimate[c] ELSE 0]
           gain == [c \in Chats |-> spent[c] + held[c]]
           loss == [c \in Chats |-> over[c] + back[c]]
<1>1. \A c \in Chats : tokens[c] \in Int /\ Estimate[c] \in Int /\ Excess[c] \in Int
  <2>1. \A c \in Chats : tokens[c] \in Int
    BY DEF QuotaInv, QuotaTypeOK
  <2> QED  BY <2>1 DEF Excess
<1>2. /\ ofm \in SUBSET Chats /\ run \in SUBSET Chats /\ carried \in SUBSET Chats
  OBVIOUS
<1>3. \A c \in Chats :
        /\ spent[c] \in Int /\ held[c] \in Int
        /\ over[c] \in Int /\ back[c] \in Int
  BY <1>1
<1>4. \A c \in Chats :
        /\ gain[c] = spent[c] + held[c]
        /\ loss[c] = over[c] + back[c]
        /\ gain[c] \in Int /\ loss[c] \in Int
  BY <1>3
<1>5. \A c \in Chats : Share(m)[c] \in Int /\ gain[c] = Share(m)[c] + loss[c]
  <2> TAKE c \in Chats
  <2>1. Share(m)[c] =
           (IF c \in ofm THEN (tokens[c] - Excess[c]) + (IF c \in run THEN Estimate[c] ELSE 0)
                         ELSE 0)
             - (IF c \in carried THEN Estimate[c] ELSE 0)
    BY DEF Share, Admitted
  <2>2. run \subseteq ofm
    OBVIOUS
  <2>3. /\ gain[c] = (IF c \in ofm THEN tokens[c] ELSE 0) + (IF c \in run THEN Estimate[c] ELSE 0)
        /\ loss[c] = (IF c \in ofm THEN Excess[c] ELSE 0)
                       + (IF c \in carried THEN Estimate[c] ELSE 0)
    OBVIOUS
  <2>4. /\ tokens[c] \in Int /\ Estimate[c] \in Int /\ Excess[c] \in Int
    BY <1>1
  <2> HIDE DEF ofm, run, carried, gain, loss
  <2>5. CASE c \in ofm
    BY <2>1, <2>3, <2>4, <2>5
  <2>6. CASE c \notin ofm
    BY <2>1, <2>2, <2>3, <2>4, <2>6
  <2> QED  BY <2>5, <2>6
<1> HIDE DEF gain, loss, spent, held, over, back
<1>6. /\ Sum(gain, Chats) = Sum(spent, Chats) + Sum(held, Chats)
      /\ Sum(loss, Chats) = Sum(over, Chats) + Sum(back, Chats)
  <2>1. /\ IsFiniteSet(Chats)
        /\ \A c \in Chats : /\ spent[c] \in Int /\ held[c] \in Int
                            /\ gain[c] = spent[c] + held[c]
    BY <1>3, <1>4
  <2>2. /\ IsFiniteSet(Chats)
        /\ \A c \in Chats : /\ over[c] \in Int /\ back[c] \in Int
                            /\ loss[c] = over[c] + back[c]
    BY <1>3, <1>4
  <2>3. Sum(gain, Chats) = Sum(spent, Chats) + Sum(held, Chats)
    BY ONLY <2>1, SumPlus
  <2>4. Sum(loss, Chats) = Sum(over, Chats) + Sum(back, Chats)
    BY ONLY <2>2, SumPlus
  <2> QED  BY <2>3, <2>4
<1>7. Sum(gain, Chats) = Sum(Share(m), Chats) + Sum(loss, Chats)
  <2>1. /\ IsFiniteSet(Chats)
        /\ \A c \in Chats : /\ Share(m)[c] \in Int /\ loss[c] \in Int
                            /\ gain[c] = Share(m)[c] + loss[c]
    BY <1>4, <1>5
  <2> QED  BY ONLY <2>1, SumPlus
<1>8. /\ Total(tokens, ofm) = Sum(spent, Chats)
      /\ Total(Estimate, run) = Sum(held, Chats)
      /\ Total(Excess, ofm) = Sum(over, Chats)
      /\ Total(Estimate, carried) = Sum(back, Chats)
  BY <1>1, <1>2, TotalOf DEF spent, held, over, back
<1>9. /\ Sum(Share(m), Chats) \in Int
      /\ Sum(over, Chats) \in Int /\ Sum(back, Chats) \in Int
  BY <1>3, <1>5, SumTyped
<1>10. Sum(Share(m), Chats) <= HardLimit
  BY DEF QuotaInv, SharesFit
<1> HIDE DEF ofm, run, carried
<1>11. Total(tokens, ofm) + Total(Estimate, run)
         <= HardLimit + Total(Excess, ofm) + Total(Estimate, carried)
  BY <1>6, <1>7, <1>8, <1>9, <1>10
<1> QED  BY <1>11 DEF ofm, run, carried

\* A month whose chats are all settled in it has counted what they used.
LEMMA CountedIsUsed == QuotaInv => FailedCallsFree
<1> SUFFICES ASSUME QuotaInv, NEW m \in Months,
                    \A c \in {c \in Chats : m \in {booked[c], settled[c]}} :
                       booked[c] = settled[c]
      PROVE  used[m] = Total(tokens, {c \in Chats : m \in {booked[c], settled[c]}})
  BY DEF FailedCallsFree
<1> USE QuotaConstants
<1> DEFINE touched == {c \in Chats : m \in {booked[c], settled[c]}}
           part == [c \in Chats |-> IF c \in touched THEN tokens[c] ELSE 0]
<1>1. \A c \in Chats : tokens[c] \in Int /\ Estimate[c] \in Int
  BY DEF QuotaInv, QuotaTypeOK
<1>2. \A c \in Chats : Counted(m)[c] = part[c]
  BY <1>1 DEF Counted
<1>3. Sum(Counted(m), Chats) = Sum(part, Chats)
  <2> HIDE DEF part
  <2> QED  BY <1>2, SumSame
<1>4. Total(tokens, touched) = Sum(part, Chats)
  <2>1. touched \in SUBSET Chats /\ \A c \in touched : tokens[c] \in Int
    BY <1>1
  <2> QED  BY <2>1, TotalOf
<1> QED  BY <1>3, <1>4 DEF QuotaInv, UsedIsCounted

\* The usage log knows the messages s, which are of user k, in their order.
Logged(s, k) == \A i \in DOMAIN s :
    /\ UserOf[s[i]] = k
    /\ \E n \in DOMAIN log :
          /\ log[n] = s[i]
          /\ \A j \in 1..(i - 1) : \E p \in 1..(n - 1) : log[p] = s[j]

\* What a chat has read is of its user; it is logged when it is done, once.
LoadsAreLogged == \A c \in Chats : Logged(loaded[c], UserOf[c])
LoggedOnce == \A n \in DOMAIN log :
    pc[log[n]] = "done" /\ \A p \in DOMAIN log : p # n => log[p] # log[n]

ChainInv == QuotaTypeOK /\ ConversationIsOwn /\ LoadsAreLogged /\ LoggedOnce

\* What is appended to the log leaves the order of the rest as it was.
LEMMA LoggedStays ==
    ASSUME QuotaTypeOK, NEW c \in Chats, log' = Append(log, c), NEW s, NEW k, Logged(s, k)
    PROVE  \A i \in DOMAIN s :
             /\ UserOf[s[i]] = k
             /\ \E n \in DOMAIN log' :
                   /\ log'[n] = s[i]
                   /\ \A j \in 1..(i - 1) : \E p \in 1..(n - 1) : log'[p] = s[j]
<1> SUFFICES ASSUME NEW i \in DOMAIN s
      PROVE  /\ UserOf[s[i]] = k
             /\ \E n \in DOMAIN log' :
                   /\ log'[n] = s[i]
                   /\ \A j \in 1..(i - 1) : \E p \in 1..(n - 1) : log'[p] = s[j]
  OBVIOUS
<1>1. PICK n \in DOMAIN log :
        /\ log[n] = s[i]
        /\ \A j \in 1..(i - 1) : \E p \in 1..(n - 1) : log[p] = s[j]
  BY DEF Logged
<1>2. log \in Seq(Chats) /\ DOMAIN log = 1..Len(log) /\ Len(log) \in Nat
  BY DEF QuotaTypeOK
<1>3. DOMAIN log' = 1..(Len(log) + 1) /\ \A p \in DOMAIN log : log'[p] = log[p]
  BY <1>2
<1>4. n \in DOMAIN log' /\ log'[n] = s[i]
  BY <1>1, <1>2, <1>3
<1>5. ASSUME NEW j \in 1..(i - 1) PROVE \E p \in 1..(n - 1) : log'[p] = s[j]
  <2>1. PICK p \in 1..(n - 1) : log[p] = s[j]
    BY <1>1
  <2>2. p \in DOMAIN log
    BY <1>1, <1>2
  <2> QED  BY <1>3, <2>1, <2>2
<1>6. UserOf[s[i]] = k
  BY DEF Logged
<1> QED  BY <1>4, <1>5, <1>6

\* Nothing has been said yet.
LEMMA ChainInit == Init => ChainInv
<1> SUFFICES ASSUME Init PROVE ChainInv
  OBVIOUS
<1>1. QuotaTypeOK
  BY QuotaInit DEF QuotaInv
<1>2. \A k \in Users : DOMAIN conv[k] = {}
  BY DEF Init
<1>3. \A c \in Chats : DOMAIN loaded[c] = {}
  BY DEF Init
<1>4. DOMAIN log = {}
  BY DEF Init
<1> QED
  BY <1>1, <1>2, <1>3, <1>4 DEF ChainInv, ConversationIsOwn, LoadsAreLogged, LoggedOnce, Logged

LEMMA ChainStep == ChainInv /\ ChatsOK /\ [Next]_vars => ChainInv'
<1> SUFFICES ASSUME ChainInv, ChatsOK, [Next]_vars PROVE ChainInv'
  OBVIOUS
<1> USE DEF ChainInv
<1>1. QuotaTypeOK'
  BY QuotaTyped
<1>2. \A k \in Users : Logged(conv[k], k)
  BY DEF ConversationIsOwn, Logged
<1>3. ASSUME NEW c \in Chats, Commit(c) PROVE ChainInv'
  <2> DEFINE s == Append(loaded[c], c)
             u == UserOf[c]
  <2>1. /\ log' = Append(log, c) /\ conv' = [conv EXCEPT ![u] = s]
        /\ pc[c] = "commit" /\ pc' = [pc EXCEPT ![c] = "done"] /\ UNCHANGED loaded
    BY <1>3 DEF Commit, End, Goto, local
  <2>2. /\ log \in Seq(Chats) /\ loaded[c] \in Seq(Chats) /\ u \in Users
        /\ conv \in [Users -> Seq(Chats)]
        /\ \A d \in Chats : pc'[d] = IF d = c THEN "done" ELSE pc[d]
    BY <2>1, QuotaConstants DEF QuotaTypeOK
  <2>3. /\ DOMAIN log = 1..Len(log) /\ Len(log) \in Nat
        /\ DOMAIN log' = 1..(Len(log) + 1)
        /\ \A p \in DOMAIN log : log'[p] = log[p] /\ log[p] \in Chats
        /\ log'[Len(log) + 1] = c
    BY <2>1, <2>2
  <2>4. LoadsAreLogged'
    BY <2>1, LoggedStays DEF LoadsAreLogged, Logged
  <2>5. \A k \in Users : Logged(conv[k], k)'
    <3>1. ASSUME NEW k \in Users \ {u} PROVE Logged(conv[k], k)'
      <4>1. conv'[k] = conv[k]
        BY <2>1, <2>2
      <4> QED  BY <1>2, <2>1, <4>1, LoggedStays DEF Logged
    <3>2. \A i \in DOMAIN s :
             /\ UserOf[s[i]] = u
             /\ \E n \in DOMAIN log' :
                   /\ log'[n] = s[i]
                   /\ \A j \in 1..(i - 1) : \E p \in 1..(n - 1) : log'[p] = s[j]
      <4>1. /\ DOMAIN loaded[c] = 1..Len(loaded[c]) /\ Len(loaded[c]) \in Nat
            /\ DOMAIN s = 1..(Len(loaded[c]) + 1)
            /\ \A i \in DOMAIN loaded[c] : s[i] = loaded[c][i]
            /\ s[Len(loaded[c]) + 1] = c
        BY <2>2
      <4>2. Logged(loaded[c], u)
        BY DEF LoadsAreLogged
      <4> HIDE DEF s
      <4>3. ASSUME NEW i \in DOMAIN s, i \in DOMAIN loaded[c]
            PROVE  /\ UserOf[s[i]] = u
                   /\ \E n \in DOMAIN log' :
                         /\ log'[n] = s[i]
                         /\ \A j \in 1..(i - 1) : \E p \in 1..(n - 1) : log'[p] = s[j]
        <5>1. \A j \in 1..(i - 1) : j \in DOMAIN loaded[c] /\ s[j] = loaded[c][j]
          BY <4>1, <4>3
        <5>2. /\ UserOf[loaded[c][i]] = u
              /\ \E n \in DOMAIN log' :
                    /\ log'[n] = loaded[c][i]
                    /\ \A j \in 1..(i - 1) : \E p \in 1..(n - 1) : log'[p] = loaded[c][j]
          BY <2>1, <4>2, <4>3, LoggedStays
        <5> QED  BY <4>1, <4>3, <5>1, <5>2
      <4>4. ASSUME NEW i \in DOMAIN s, i = Len(loaded[c]) + 1
            PROVE  /\ UserOf[s[i]] = u
                   /\ \E n \in DOMAIN log' :
                         /\ log'[n] = s[i]
                         /\ \A j \in 1..(i - 1) : \E p \in 1..(n - 1) : log'[p] = s[j]
        <5>1. \A j \in 1..(i - 1) : \E p \in 1..Len(log) : log'[p] = s[j]
          <6> TAKE j \in 1..(i - 1)
          <6>1. j \in DOMAIN loaded[c] /\ s[j] = loaded[c][j]
            BY <4>1, <4>4
          <6>2. \E p \in DOMAIN log : log[p] = loaded[c][j]
            BY <4>2, <6>1 DEF Logged
          <6> QED  BY <2>3, <6>1, <6>2
        <5>2. Len(log) + 1 \in DOMAIN log' /\ (Len(log) + 1) - 1 = Len(log)
          BY <2>3
        <5>3. s[i] = c /\ UserOf[c] = u /\ log'[Len(log) + 1] = c
          BY <2>3, <4>1, <4>4
        <5> DEFINE last == Len(log) + 1
        <5>4. /\ last \in DOMAIN log' /\ log'[last] = s[i] /\ UserOf[s[i]] = u
              /\ \A j \in 1..(i - 1) : \E p \in 1..(last - 1) : log'[p] = s[j]
          BY <5>1, <5>2, <5>3
        <5> HIDE DEF last
        <5> QED  BY <5>4
      <4>5. \A i \in DOMAIN s : i \in DOMAIN loaded[c] \/ i = Len(loaded[c]) + 1
        BY <4>1
      <4> QED  BY ONLY <4>3, <4>4, <4>5
    <3>3. conv'[u] = s
      BY <2>1, <2>2
    <3>4. Logged(conv[u], u)'
      <4> HIDE DEF s
      <4> QED  BY <3>2, <3>3 DEF Logged
    <3> QED  BY <3>1, <3>4
  <2>6. ConversationIsOwn'
    BY <2>5 DEF ConversationIsOwn, Logged
  <2>7. LoggedOnce'
    <3>1. \A p \in DOMAIN log : pc[log[p]] = "done" /\ log[p] # c /\ pc'[log[p]] = "done"
      BY <2>1, <2>2, <2>3 DEF LoggedOnce
    <3>2. pc'[c] = "done"
      BY <2>1, <2>2
    <3>3. \A p \in DOMAIN log' : p \in DOMAIN log \/ p = Len(log) + 1
      BY <2>3
    <3> QED  BY <2>3, <3>1, <3>2, <3>3 DEF LoggedOnce
  <2> QED  BY <1>1, <2>4, <2>6, <2>7
<1>4. ASSUME NEW c \in Chats, LoadConversation(c) PROVE ChainInv'
  <2>1. UNCHANGED <<log, conv>> /\ \A d \in Chats : pc[d] = "done" => pc'[d] = "done"
    BY <1>4 DEF LoadConversation, Goto, database, QuotaTypeOK
  <2>2. \A d \in Chats : loaded'[d] \in {loaded[d], conv[UserOf[d]]}
    <3>1. UNCHANGED loaded \/ loaded' = [loaded EXCEPT ![c] = conv[UserOf[c]]]
      BY <1>4 DEF LoadConversation
    <3>2. \A d \in Chats : d # c => loaded'[d] = loaded[d]
      BY <3>1 DEF QuotaTypeOK
    <3>3. loaded'[c] \in {loaded[c], conv[UserOf[c]]}
      BY <3>1 DEF QuotaTypeOK
    <3> QED  BY <3>2, <3>3
  <2>3. \A d \in Chats : Logged(loaded'[d], UserOf[d])
    BY <1>2, <2>2, QuotaConstants DEF LoadsAreLogged
  <2>4. LoadsAreLogged'
    BY <2>1, <2>3 DEF LoadsAreLogged, Logged
  <2>5. ConversationIsOwn'
    BY <2>1 DEF ConversationIsOwn
  <2>6. LoggedOnce'
    <3>1. \A n \in DOMAIN log : log[n] \in Chats
      BY DEF QuotaTypeOK
    <3> QED  BY <2>1, <3>1 DEF LoggedOnce
  <2> QED  BY <1>1, <2>4, <2>5, <2>6
<1>5. CASE UNCHANGED <<log, conv, loaded>> /\ \A d \in Chats : pc[d] = "done" => pc'[d] = "done"
  <2>1. LoadsAreLogged' /\ ConversationIsOwn'
    BY <1>5 DEF LoadsAreLogged, ConversationIsOwn, Logged
  <2>2. LoggedOnce'
    <3>1. \A n \in DOMAIN log : log[n] \in Chats
      BY DEF QuotaTypeOK
    <3> QED  BY <1>5, <3>1 DEF LoggedOnce
  <2> QED  BY <1>1, <2>1, <2>2
<1>6. ASSUME NEW c \in Chats, Step(c) \/ Crash(c), ~ Commit(c), ~ LoadConversation(c)
      PROVE  UNCHANGED <<log, conv, loaded>> /\ \A d \in Chats : pc[d] = "done" => pc'[d] = "done"
  <2>1. UNCHANGED <<log, conv, loaded>>
    BY <1>6 DEF Step, HitRate, SetExpiry, RateLimited, Reserve, Deny, InsertConversation, Answer,
       ProviderFails, Adjust, Save, Crash, database, local
  <2>2. pc[c] # "done" /\ \E s : pc' = [pc EXCEPT ![c] = s]
    BY <1>6 DEF Step, HitRate, SetExpiry, RateLimited, Reserve, Deny, InsertConversation, Answer,
       ProviderFails, Adjust, Save, Crash, End, Goto, Ended
  <2> QED  BY <2>1, <2>2 DEF QuotaTypeOK
<1>7. CASE UNCHANGED <<log, conv, loaded, pc>>
  BY <1>5, <1>7
<1> QED
  BY <1>3, <1>4, <1>5, <1>6, <1>7 DEF Next, AllEnded, vars, WindowEnds, NextMonth, database, local

LEMMA ChainInvariance == Spec => []ChainInv
<1>1. QuotaInv => ChatsOK
  BY DEF QuotaInv
<1> QED  BY <1>1, ChainInit, ChainStep, QuotaInvariance, PTL DEF Spec

\* However the chats race, fail and crash, and whenever a month ends, those the
\* gateways admit stay in the quota of their month (services/ai_quota.py,
\* reserve_tokens, which decides on the total that INCRBY returns).
THEOREM AdmittedFit == Spec => []HardLimitHolds
BY QuotaInvariance, QuotaKept, PTL

\* A month whose chats are settled in it has counted what the provider reported
\* and nothing else (services/ai_quota.py, adjust_tokens and rollback_tokens).
THEOREM UsageIsCounted == Spec => []FailedCallsFree
BY QuotaInvariance, CountedIsUsed, PTL

\* No interleaving of chats gets a message into a conversation of someone else,
\* or out of the order the usage log has (services/ai_gateway.py, handle_chat).
THEOREM ConversationsOwn == Spec => []ConversationIsOwn
<1>1. ChainInv => ConversationIsOwn
  BY DEF ChainInv
<1> QED  BY <1>1, ChainInvariance, PTL

\* A message is in its conversation once.
MessagesOnce == \A k \in Users : \A i \in DOMAIN conv[k] : \A j \in DOMAIN conv[k] :
    conv[k][i] = conv[k][j] => i = j

\* Nothing is saved twice, although every chat writes the whole list it has read
\* with its own message behind (services/ai_gateway.py, handle_chat).
THEOREM ConversationsOnce == Spec => []MessagesOnce
<1>1. ChainInv => MessagesOnce
  <2> SUFFICES ASSUME ChainInv, NEW k \in Users, NEW i, NEW j,
                      i \in DOMAIN conv[k], j \in DOMAIN conv[k], j < i,
                      conv[k][i] = conv[k][j]
        PROVE  FALSE
    <3>1. ChainInv => \A k \in Users : \A i \in DOMAIN conv[k] : i \in Nat
      <4>1. \A s \in Seq(Chats) : \A i \in DOMAIN s : i \in Nat
        OBVIOUS
      <4> QED  BY <4>1 DEF ChainInv, QuotaTypeOK
    <3> QED  BY <3>1, SMTT(40) DEF MessagesOnce
  <2>1. i \in Nat /\ j \in Nat /\ j \in 1..(i - 1)
    <3>1. conv[k] \in Seq(Chats)
      BY DEF ChainInv, QuotaTypeOK
    <3>2. DOMAIN conv[k] = 1..Len(conv[k]) /\ Len(conv[k]) \in Nat
      BY <3>1
    <3> QED  BY <3>2
  <2>2. PICK n \in DOMAIN log :
          log[n] = conv[k][i] /\ \A l \in 1..(i - 1) : \E p \in 1..(n - 1) : log[p] = conv[k][l]
    BY DEF ChainInv, ConversationIsOwn
  <2>3. PICK p \in 1..(n - 1) : log[p] = conv[k][j]
    BY <2>1, <2>2
  <2>4. p \in DOMAIN log /\ p # n
    <3>1. DOMAIN log = 1..Len(log) /\ Len(log) \in Nat
      BY DEF ChainInv, QuotaTypeOK
    <3> QED  BY <2>2, <2>3, <3>1
  <2> QED  BY <2>2, <2>3, <2>4 DEF ChainInv, LoggedOnce
<1> QED  BY <1>1, ChainInvariance, PTL
=============================================================================
