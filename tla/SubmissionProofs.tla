-------------------------- MODULE SubmissionProofs ---------------------------
(* Proofs about what visitors submit and what becomes of it, for every set   *)
(* of clients, workers, contacts, requests and bodies: Submissions, and      *)
(* OrderLifecycle for every set of racing requests, entities and inputs.     *)
EXTENDS Submissions, OrderLifecycle, TLAPS

-----------------------------------------------------------------------------
(* What visitors submit.                                                     *)

Visitors == {"order", "donation"}
Fault == [status |-> "error"]

\* What may be asked for, and a request that runs.
Asked(a) ==
    /\ a.op \in DOMAIN Does /\ a.customer \in Keys \cup {None}
    /\ a.email \in Emails \cup {None, Absent} /\ a.phone \in Phones \cup {None, Absent}
    /\ a.visit \in BOOLEAN /\ a.receipt \in BOOLEAN /\ a.body \in Settable
    /\ a.op \in {"update_customer", "delete_customer"} => a.customer \in Keys
    /\ a.op # "update_customer" => Absent \notin {a.email, a.phone}
    /\ a.body.telegram = TRUE => a.body.chat = "chat"

Req == [op : DOMAIN Does, customer : Keys \cup {None}, email : Emails \cup {None, Absent},
        phone : Phones \cup {None, Absent}, visit : BOOLEAN, receipt : BOOLEAN, body : Settable,
        n : Ids, pc : Nat, loaded : Customer \cup Prefs \cup {None}, link : Keys \cup {None},
        status : {"running"}, held : SUBSET (Emails \cup {None}), touched : BOOLEAN,
        stale : BOOLEAN]

\* A row is stored at the sixth step of an order or a donation, its customer there too.
Unsaved(q) == q.op \in Visitors => q.pc <= 6

\* Customer k is the one of q: of its email, or of its phone when no customer
\* had the email as q came.
Matches(q, k) ==
    /\ customers[k] # None
    /\ \/ q.email # None /\ customers[k].email = q.email
       \/ /\ q.phone # None /\ customers[k].phone = q.phone
          /\ q.email = None \/ q.email \notin q.held

Placed(q) ==
    /\ Asked(q) /\ q.pc \in DOMAIN Does[q.op] /\ q.n <= begun
    /\ q.op \in Visitors /\ q.pc <= 5 => q.link = None
    /\ q.op = "pledge" => q.link = None
    /\ q.op = "update_customer" /\ q.pc = 2 => q.loaded \in Customer

\* Nothing is stored under the number of q before q stores it, and no task of q
\* is queued before q enqueues it.
New(q) ==
    /\ Unsaved(q) => rows[q.n] = None /\ customers[q.n] = None
    /\ q.op \in Visitors /\ q.pc = 7 => fate[<<"notice", q.n>>] = "none"
    /\ q.op \in Visitors /\ q.pc \in {7, 8} => fate[<<"receipt", q.n>>] = "none"

\* While the staff changes no customer, customers are only added: what q has
\* found is there, and what it has not found was not there when it came.
Clean(q) == q.touched = FALSE =>
    /\ \A e \in q.held : \E k \in Keys : customers[k] # None /\ customers[k].email = e
    /\ q.op \in Visitors /\ q.pc \in 2..5 => q.email = None \/ q.email \notin q.held
    /\ q.op \in Visitors /\ q.pc = 4 =>
         Holding("email", q.email) \cup Holding("phone", q.phone) # {}
    /\ q.op \in Visitors /\ q.pc = 5 => Holding("phone", q.phone) # {}
    /\ q.op \in Visitors /\ q.pc = 6 /\ q.link = None => q.email = None /\ q.phone = None
    /\ q.op \in Visitors /\ q.pc = 6 /\ q.link # None => Matches(q, q.link)
    /\ q.op \in {"update_customer", "delete_customer"} /\ q.pc = 2 => customers[q.customer] # None

\* The settings a request has read are those of now while no other is written.
Read(q) == q.op \in {"get_preferences", "put_preferences"} /\ q.pc = 2 =>
    /\ q.loaded \in Prefs \cup {None}
    /\ q.loaded # None => prefs # None
    /\ q.stale = FALSE => prefs = q.loaded

Fits(q) == Placed(q) /\ New(q) /\ Clean(q) /\ Read(q)

StoreOK ==
    /\ customers \in [Keys -> Customer \cup {None}]
    /\ rows \in [Ids -> Row \cup {None}]
    /\ events \subseteq Ids
    /\ prefs \in Prefs \cup {None}
    /\ fate \in [Tasks -> Fate]
    /\ begun \in Keys
    /\ situation \in Situations
    /\ request \in [Clients -> Req \cup {None, Fault}]

RequestsFit == \A c \in Clients : Running(c) => Fits(request[c])
Apart == \A c, d \in Clients :
    Running(c) /\ Running(d) /\ c # d => request[c].n # request[d].n
NotYet == \A n \in Ids : n > begun => rows[n] = None /\ customers[n] = None

\* A row has its event, and a task its row.
Stored ==
    /\ events = {n \in Ids : rows[n] # None /\ rows[n].visit}
    /\ \A t \in Tasks : fate[t] # "none" => t \in Due(t[2])

RequestInv == StoreOK /\ RequestsFit /\ Apart /\ NotYet /\ Stored

\* What a request of number m may change under the others; touches and puts say
\* whether it changes a customer or the settings.
Steady(m, touches, puts) ==
    /\ begun' = begun
    /\ \A n \in Keys \ {m} : customers[n] = None => customers'[n] = None
    /\ \A n \in Ids \ {m} : rows[n] = None => rows'[n] = None
    /\ \A t \in Tasks : t[2] # m /\ fate[t] = "none" => fate'[t] = "none"
    /\ touches = FALSE => \A k \in Keys : customers[k] # None => customers'[k] = customers[k]
    /\ puts = FALSE => prefs' = prefs
    /\ prefs # None => prefs' # None

\* The same request, further on.
SameAsked(r, q) ==
    /\ r.op = q.op /\ r.customer = q.customer /\ r.email = q.email /\ r.phone = q.phone
    /\ r.visit = q.visit /\ r.receipt = q.receipt /\ r.body = q.body
    /\ r.n = q.n /\ r.held = q.held

\* r is q, but for its place, what it has read and what it has found.
Being(r, q, p, l, k, t, s) ==
    /\ r \in Req /\ SameAsked(r, q)
    /\ r.pc = p /\ r.loaded = l /\ r.link = k /\ r.touched = t /\ r.stale = s

\* Who else runs, ran, as it was but for what has been changed since it came.
Others(c, touches, puts) == \A d \in Clients \ {c} : Running(d)' =>
    LET q == request[d] IN
    Running(d) /\ Being(request'[d], q, q.pc, q.loaded, q.link, q.touched \/ touches,
                       q.stale \/ puts)

-----------------------------------------------------------------------------
LEMMA SubmissionConstants ==
    /\ MaxRequests \in Nat /\ Clients \subseteq Nat
    /\ None \notin Emails /\ None \notin Phones /\ None \notin Keys
    /\ None # "chat" /\ None \notin Customer
    /\ None \notin Prefs /\ None \notin Row /\ None # Fault
    /\ Absent \notin Emails /\ Absent \notin Phones /\ Absent # None /\ Absent # "chat"
    /\ \A s \in Situations :
          /\ s.customers \subseteq Customer \cup {None} /\ s.prefs \subseteq Prefs \cup {None}
          /\ s.broker \subseteq {"queued", "ended"} /\ \A a \in s.asked : Asked(a)
    /\ \A n \in Ids : n \in Keys /\ n # 0 /\ n \in Nat
    /\ 0 \in Keys
<1>1. MaxRequests \in Nat
  BY SubmissionsAssumption
<1>2. 0 \in Keys /\ \A n \in Ids : n \in Keys /\ n # 0 /\ n \in Nat
  BY <1>1 DEF Ids, Keys
<1> QED  BY <1>1, <1>2, SubmissionsAssumption DEF Asked, Fault

\* The scripts.
LEMMA Scripts ==
    /\ DOMAIN Does = {"order", "donation", "pledge", "create_customer", "update_customer",
                      "delete_customer", "get_preferences", "put_preferences"}
    /\ LET s == Does["order"] IN
       /\ DOMAIN s = 1..7 /\ Len(s) = 7 /\ s[1] = "find by email" /\ s[2] = "find by phone"
       /\ s[3] = "insert" /\ s[4] = "find by email" /\ s[5] = "find by phone"
       /\ s[6] = "save" /\ s[7] = "enqueue"
    /\ LET s == Does["donation"] IN
       /\ DOMAIN s = 1..8 /\ Len(s) = 8 /\ s[1] = "find by email" /\ s[2] = "find by phone"
       /\ s[3] = "insert" /\ s[4] = "find by email" /\ s[5] = "find by phone"
       /\ s[6] = "save" /\ s[7] = "enqueue" /\ s[8] = "enqueue receipt"
    /\ DOMAIN Does["pledge"] = 1..1 /\ Does["pledge"][1] = "save"
    /\ DOMAIN Does["create_customer"] = 1..1 /\ Does["create_customer"][1] = "insert"
    /\ LET s == Does["update_customer"] IN DOMAIN s = 1..2 /\ s[1] = "load" /\ s[2] = "update"
    /\ LET s == Does["delete_customer"] IN DOMAIN s = 1..2 /\ s[1] = "load" /\ s[2] = "delete"
    /\ LET s == Does["get_preferences"] IN
       DOMAIN s = 1..2 /\ s[1] = "load preferences" /\ s[2] = "create default"
    /\ LET s == Does["put_preferences"] IN
       DOMAIN s = 1..2 /\ s[1] = "load preferences" /\ s[2] = "check and save"
BY DEF Does

\* The place of each step.
LEMMA Places ==
    ASSUME NEW q \in Req, q.pc \in DOMAIN Does[q.op], NEW step, Does[q.op][q.pc] = step
    PROVE  /\ step = "find by email" => q.op \in Visitors /\ (q.pc = 1 \/ q.pc = 4)
           /\ step = "find by phone" => q.op \in Visitors /\ (q.pc = 2 \/ q.pc = 5)
           /\ step = "insert" => \/ q.op \in Visitors /\ q.pc = 3
                                 \/ q.op = "create_customer" /\ q.pc = 1
           /\ step = "save" => \/ q.op \in Visitors /\ q.pc = 6
                               \/ q.op = "pledge" /\ q.pc = 1
           /\ step = "enqueue" => q.op \in Visitors /\ q.pc = 7
           /\ step = "enqueue receipt" => q.op = "donation" /\ q.pc = 8
           /\ step = "load" => q.op \in {"update_customer", "delete_customer"} /\ q.pc = 1
           /\ step = "update" => q.op = "update_customer" /\ q.pc = 2
           /\ step = "delete" => q.op = "delete_customer" /\ q.pc = 2
           /\ step = "load preferences" =>
                q.op \in {"get_preferences", "put_preferences"} /\ q.pc = 1
           /\ step = "create default" => q.op = "get_preferences" /\ q.pc = 2
           /\ step = "check and save" => q.op = "put_preferences" /\ q.pc = 2
<1> USE DEF Visitors
<1>1. q.op \in {"order", "donation", "pledge", "create_customer", "update_customer",
                "delete_customer", "get_preferences", "put_preferences"}
  BY Scripts DEF Req
<1>2. CASE q.op = "order"
  <2>1. q.pc \in 1..7 /\ Does["order"][q.pc] = step
    BY <1>2, Scripts
  <2>2. q.pc = 1 \/ q.pc = 2 \/ q.pc = 3 \/ q.pc = 4 \/ q.pc = 5 \/ q.pc = 6 \/ q.pc = 7
    BY <2>1
  <2>3. CASE q.pc = 1
    <3>1. step = "find by email"
      BY <2>1, <2>3, Scripts
    <3> QED  BY <1>2, <2>3, <3>1
  <2>4. CASE q.pc = 2
    <3>1. step = "find by phone"
      BY <2>1, <2>4, Scripts
    <3> QED  BY <1>2, <2>4, <3>1
  <2>5. CASE q.pc = 3
    <3>1. step = "insert"
      BY <2>1, <2>5, Scripts
    <3> QED  BY <1>2, <2>5, <3>1
  <2>6. CASE q.pc = 4
    <3>1. step = "find by email"
      BY <2>1, <2>6, Scripts
    <3> QED  BY <1>2, <2>6, <3>1
  <2>7. CASE q.pc = 5
    <3>1. step = "find by phone"
      BY <2>1, <2>7, Scripts
    <3> QED  BY <1>2, <2>7, <3>1
  <2>8. CASE q.pc = 6
    <3>1. step = "save"
      BY <2>1, <2>8, Scripts
    <3> QED  BY <1>2, <2>8, <3>1
  <2>9. CASE q.pc = 7
    <3>1. step = "enqueue"
      BY <2>1, <2>9, Scripts
    <3> QED  BY <1>2, <2>9, <3>1
  <2> QED  BY <2>2, <2>3, <2>4, <2>5, <2>6, <2>7, <2>8, <2>9
<1>3. CASE q.op = "donation"
  <2>1. q.pc \in 1..8 /\ Does["donation"][q.pc] = step
    BY <1>3, Scripts
  <2>2. q.pc = 1 \/ q.pc = 2 \/ q.pc = 3 \/ q.pc = 4 \/ q.pc = 5 \/ q.pc = 6 \/ q.pc = 7 \/ q.pc = 8
    BY <2>1
  <2>3. CASE q.pc = 1
    <3>1. step = "find by email"
      BY <2>1, <2>3, Scripts
    <3> QED  BY <1>3, <2>3, <3>1
  <2>4. CASE q.pc = 2
    <3>1. step = "find by phone"
      BY <2>1, <2>4, Scripts
    <3> QED  BY <1>3, <2>4, <3>1
  <2>5. CASE q.pc = 3
    <3>1. step = "insert"
      BY <2>1, <2>5, Scripts
    <3> QED  BY <1>3, <2>5, <3>1
  <2>6. CASE q.pc = 4
    <3>1. step = "find by email"
      BY <2>1, <2>6, Scripts
    <3> QED  BY <1>3, <2>6, <3>1
  <2>7. CASE q.pc = 5
    <3>1. step = "find by phone"
      BY <2>1, <2>7, Scripts
    <3> QED  BY <1>3, <2>7, <3>1
  <2>8. CASE q.pc = 6
    <3>1. step = "save"
      BY <2>1, <2>8, Scripts
    <3> QED  BY <1>3, <2>8, <3>1
  <2>9. CASE q.pc = 7
    <3>1. step = "enqueue"
      BY <2>1, <2>9, Scripts
    <3> QED  BY <1>3, <2>9, <3>1
  <2>10. CASE q.pc = 8
    <3>1. step = "enqueue receipt"
      BY <2>1, <2>10, Scripts
    <3> QED  BY <1>3, <2>10, <3>1
  <2> QED  BY <2>2, <2>3, <2>4, <2>5, <2>6, <2>7, <2>8, <2>9, <2>10
<1>4. CASE q.op = "pledge"
  <2>1. q.pc \in 1..1 /\ Does["pledge"][q.pc] = step
    BY <1>4, Scripts
  <2>2. q.pc = 1
    BY <2>1
  <2>3. Does["pledge"][1] = "save"
    BY Scripts
  <2>4. q.pc = 1 /\ step = "save"
    BY <2>1, <2>2, <2>3
  <2> QED  BY <1>4, <2>4
<1>5. CASE q.op = "create_customer"
  <2>1. q.pc \in 1..1 /\ Does["create_customer"][q.pc] = step
    BY <1>5, Scripts
  <2>2. q.pc = 1
    BY <2>1
  <2>3. Does["create_customer"][1] = "insert"
    BY Scripts
  <2>4. q.pc = 1 /\ step = "insert"
    BY <2>1, <2>2, <2>3
  <2> QED  BY <1>5, <2>4
<1>6. CASE q.op = "update_customer"
  <2>1. q.pc \in 1..2 /\ Does["update_customer"][q.pc] = step
    BY <1>6, Scripts
  <2>2. q.pc = 1 \/ q.pc = 2
    BY <2>1
  <2>3. Does["update_customer"][1] = "load" /\ Does["update_customer"][2] = "update"
    BY Scripts
  <2>4. \/ q.pc = 1 /\ step = "load"
        \/ q.pc = 2 /\ step = "update"
    BY <2>1, <2>2, <2>3
  <2> QED  BY <1>6, <2>4
<1>7. CASE q.op = "delete_customer"
  <2>1. q.pc \in 1..2 /\ Does["delete_customer"][q.pc] = step
    BY <1>7, Scripts
  <2>2. q.pc = 1 \/ q.pc = 2
    BY <2>1
  <2>3. Does["delete_customer"][1] = "load" /\ Does["delete_customer"][2] = "delete"
    BY Scripts
  <2>4. \/ q.pc = 1 /\ step = "load"
        \/ q.pc = 2 /\ step = "delete"
    BY <2>1, <2>2, <2>3
  <2> QED  BY <1>7, <2>4
<1>8. CASE q.op = "get_preferences"
  <2>1. q.pc \in 1..2 /\ Does["get_preferences"][q.pc] = step
    BY <1>8, Scripts
  <2>2. q.pc = 1 \/ q.pc = 2
    BY <2>1
  <2>3. /\ Does["get_preferences"][1] = "load preferences"
        /\ Does["get_preferences"][2] = "create default"
    BY Scripts
  <2>4. \/ q.pc = 1 /\ step = "load preferences"
        \/ q.pc = 2 /\ step = "create default"
    BY <2>1, <2>2, <2>3
  <2> QED  BY <1>8, <2>4
<1>9. CASE q.op = "put_preferences"
  <2>1. q.pc \in 1..2 /\ Does["put_preferences"][q.pc] = step
    BY <1>9, Scripts
  <2>2. q.pc = 1 \/ q.pc = 2
    BY <2>1
  <2>3. /\ Does["put_preferences"][1] = "load preferences"
        /\ Does["put_preferences"][2] = "check and save"
    BY Scripts
  <2>4. \/ q.pc = 1 /\ step = "load preferences"
        \/ q.pc = 2 /\ step = "check and save"
    BY <2>1, <2>2, <2>3
  <2> QED  BY <1>9, <2>4
<1> QED  BY <1>1, <1>2, <1>3, <1>4, <1>5, <1>6, <1>7, <1>8, <1>9

LEMMA Edited ==
    ASSUME NEW q \in Req, NEW p \in Nat, NEW k \in Keys \cup {None},
           NEW l \in Customer \cup Prefs \cup {None}, NEW t \in BOOLEAN, NEW s \in BOOLEAN
    PROVE  /\ Being([q EXCEPT !.pc = p], q, p, q.loaded, q.link, q.touched, q.stale)
           /\ Being([q EXCEPT !.link = k, !.pc = p], q, p, q.loaded, k, q.touched, q.stale)
           /\ Being([[q EXCEPT !.link = k] EXCEPT !.pc = p],
                    q, p, q.loaded, k, q.touched, q.stale)
           /\ Being([[q EXCEPT !.loaded = l] EXCEPT !.pc = p],
                    q, p, l, q.link, q.touched, q.stale)
           /\ Being([q EXCEPT !.touched = t, !.stale = s], q, q.pc, q.loaded, q.link, t, s)
<1>1. Being([q EXCEPT !.pc = p], q, p, q.loaded, q.link, q.touched, q.stale)
  BY DEF Req, SameAsked, Being
<1>2. Being([q EXCEPT !.link = k, !.pc = p], q, p, q.loaded, k, q.touched, q.stale)
  BY DEF Req, SameAsked, Being
<1>3. Being([[q EXCEPT !.link = k] EXCEPT !.pc = p], q, p, q.loaded, k, q.touched, q.stale)
  BY DEF Req, SameAsked, Being
<1>4. Being([[q EXCEPT !.loaded = l] EXCEPT !.pc = p], q, p, l, q.link, q.touched, q.stale)
  BY DEF Req, SameAsked, Being
<1>5. Being([q EXCEPT !.touched = t, !.stale = s], q, q.pc, q.loaded, q.link, t, s)
  <2> DEFINE r == [q EXCEPT !.touched = t, !.stale = s]
  <2>1. r \in Req
    BY DEF Req
  <2>2. SameAsked(r, q) /\ r.pc = q.pc /\ r.loaded = q.loaded /\ r.link = q.link
    BY DEF Req, SameAsked
  <2>3. r.touched = t /\ r.stale = s
    BY DEF Req
  <2> QED  BY <2>1, <2>2, <2>3 DEF Being
<1> QED  BY <1>1, <1>2, <1>3, <1>4, <1>5

\* What another request of the store does leaves q as it should be.
LEMMA OthersFit ==
    ASSUME StoreOK, StoreOK', NEW m, NEW touches \in BOOLEAN, NEW puts \in BOOLEAN,
           Steady(m, touches, puts),
           NEW q \in Req, q.n # m, Fits(q), NEW r,
           Being(r, q, q.pc, q.loaded, q.link, q.touched \/ touches, q.stale \/ puts)
    PROVE  Fits(r)'
<1> USE DEF Being, SameAsked, Steady
<1>1. Placed(r)'
  BY DEF Fits, Placed, Asked
<1>2. New(r)'
  <2>1. q.n \in Ids /\ q.n \in Keys
    BY SubmissionConstants DEF Req
  <2>2. /\ rows[q.n] = None => rows'[q.n] = None
        /\ customers[q.n] = None => customers'[q.n] = None
    BY <2>1
  <2>3. \A x \in {"notice", "receipt"} : fate[<<x, q.n>>] = "none" => fate'[<<x, q.n>>] = "none"
    <3> TAKE x \in {"notice", "receipt"}
    <3>1. <<x, q.n>> \in Tasks /\ <<x, q.n>>[2] = q.n
      BY <2>1 DEF Tasks
    <3> QED  BY <3>1
  <2> QED  BY <2>2, <2>3 DEF Fits, New, Unsaved
<1>3. Clean(r)'
  <2> SUFFICES ASSUME r.touched = FALSE PROVE Clean(r)'
    BY DEF Clean
  <2>1. q.touched = FALSE /\ touches = FALSE
    BY DEF Req
  <2>2. \A k \in Keys : customers[k] # None => customers'[k] = customers[k]
    BY <2>1
  <2>3. /\ \A e \in q.held : \E k \in Keys : customers[k] # None /\ customers[k].email = e
        /\ q.op \in Visitors /\ q.pc \in 2..5 => q.email = None \/ q.email \notin q.held
        /\ q.op \in Visitors /\ q.pc = 4 =>
             Holding("email", q.email) \cup Holding("phone", q.phone) # {}
        /\ q.op \in Visitors /\ q.pc = 5 => Holding("phone", q.phone) # {}
        /\ q.op \in Visitors /\ q.pc = 6 /\ q.link = None => q.email = None /\ q.phone = None
        /\ q.op \in Visitors /\ q.pc = 6 /\ q.link # None => Matches(q, q.link)
        /\ q.op \in {"update_customer", "delete_customer"} /\ q.pc = 2 =>
             customers[q.customer] # None
    BY <2>1 DEF Fits, Clean
  <2>4. \A k \in Keys : customers[k] # None => customers'[k] # None /\ customers'[k] = customers[k]
    BY <2>2
  <2>5. DOMAIN customers = Keys /\ DOMAIN customers' = Keys
    BY DEF StoreOK
  <2>6. /\ Holding("email", q.email) \subseteq Holding("email", q.email)'
        /\ Holding("phone", q.phone) \subseteq Holding("phone", q.phone)'
    BY <2>4, <2>5 DEF Holding, HasKey
  <2>7. \A e \in r.held : \E k \in Keys : customers'[k] # None /\ customers'[k].email = e
    BY <2>3, <2>4
  <2>8. q.link \in Keys /\ Matches(q, q.link) => Matches(r, r.link)'
    BY <2>4 DEF Matches
  <2>9. q.link \in Keys \cup {None}
    BY DEF Req
  <2>10. q.op \in {"update_customer", "delete_customer"} => q.customer \in Keys
    BY DEF Fits, Placed, Asked
  <2>11. /\ r.op \in Visitors /\ r.pc \in 2..5 => r.email = None \/ r.email \notin r.held
         /\ r.op \in Visitors /\ r.pc = 6 /\ r.link = None => r.email = None /\ r.phone = None
    BY <2>3
  <2>12. /\ r.op \in Visitors /\ r.pc = 4 =>
             Holding("email", r.email)' \cup Holding("phone", r.phone)' # {}
         /\ r.op \in Visitors /\ r.pc = 5 => Holding("phone", r.phone)' # {}
    BY <2>3, <2>6
  <2>13. r.op \in Visitors /\ r.pc = 6 /\ r.link # None => Matches(r, r.link)'
    BY <2>3, <2>8, <2>9
  <2>14. r.op \in {"update_customer", "delete_customer"} /\ r.pc = 2 =>
            customers'[r.customer] # None
    BY <2>3, <2>4, <2>10
  <2> QED  BY <2>7, <2>11, <2>12, <2>13, <2>14 DEF Clean
<1>4. Read(r)'
  <2>1. r.stale = FALSE => q.stale = FALSE /\ puts = FALSE
    BY DEF Req
  <2>2. r.stale = FALSE => q.stale = FALSE /\ prefs' = prefs
    BY <2>1
  <2> QED  BY <2>2 DEF Fits, Read
<1> QED  BY <1>1, <1>2, <1>3, <1>4 DEF Fits

\* What runs is a request.
LEMMA RunningIsReq ==
    ASSUME StoreOK, NEW c \in Clients, Running(c)
    PROVE  request[c] \in Req
BY DEF StoreOK, Running, Fault

LEMMA OneChanges ==
    ASSUME StoreOK, NEW c \in Clients, NEW x, request' = [request EXCEPT ![c] = x]
    PROVE  Others(c, FALSE, FALSE)
<1> SUFFICES ASSUME NEW d \in Clients \ {c}, Running(d)'
      PROVE  LET q == request[d] IN
             Running(d) /\ Being(request'[d], q, q.pc, q.loaded, q.link, q.touched \/ FALSE,
                                q.stale \/ FALSE)
  BY DEF Others
<1>1. request'[d] = request[d] /\ Running(d)
  BY DEF StoreOK, Running
<1>2. request[d] \in Req
  BY <1>1, RunningIsReq
<1>3. /\ (request[d].touched \/ FALSE) = request[d].touched
      /\ (request[d].stale \/ FALSE) = request[d].stale
  BY <1>2 DEF Req
<1> QED  BY <1>1, <1>2, <1>3 DEF Being, SameAsked

LEMMA AllChange ==
    ASSUME StoreOK, NEW c \in Clients, NEW touches \in BOOLEAN, NEW puts \in BOOLEAN, NEW answer,
           Committed(c, answer, touches, puts)
    PROVE  /\ Others(c, touches, puts) /\ request'[c] = Answered(answer)
           /\ request' \in [Clients -> Req \cup {None, Fault}]
<1> DEFINE Changed(d) == [request[d] EXCEPT !.touched = @ \/ touches, !.stale = @ \/ puts]
<1>1. /\ request'[c] = Answered(answer)
      /\ DOMAIN request' = Clients /\ request' = [d \in Clients |-> request'[d]]
      /\ \A d \in Clients \ {c} :
           /\ Running(d) => request'[d] = Changed(d)
           /\ ~ Running(d) => request'[d] = request[d]
  BY DEF Committed
<1>2. ASSUME NEW d \in Clients \ {c}, Running(d)
      PROVE  LET q == request[d] IN
             Being(Changed(d), q, q.pc, q.loaded, q.link, q.touched \/ touches, q.stale \/ puts)
  <2> DEFINE q == request[d]
  <2>1. q \in Req
    BY <1>2, RunningIsReq
  <2>2. (q.touched \/ touches) \in BOOLEAN /\ (q.stale \/ puts) \in BOOLEAN
    OBVIOUS
  <2>3. Changed(d) = [q EXCEPT !.touched = q.touched \/ touches, !.stale = q.stale \/ puts]
    OBVIOUS
  <2> HIDE DEF q
  <2>4. q.link \in Keys \cup {None} /\ q.loaded \in Customer \cup Prefs \cup {None} /\ q.pc \in Nat
    BY <2>1 DEF Req
  <2>5. Being([q EXCEPT !.touched = q.touched \/ touches, !.stale = q.stale \/ puts],
              q, q.pc, q.loaded, q.link, q.touched \/ touches, q.stale \/ puts)
    BY <2>1, <2>2, <2>4, Edited
  <2> QED  BY <2>3, <2>5 DEF q
<1> HIDE DEF Changed
<1>3. Others(c, touches, puts)
  <2> SUFFICES ASSUME NEW d \in Clients \ {c}, Running(d)'
        PROVE  LET q == request[d] IN
               Running(d) /\ Being(request'[d], q, q.pc, q.loaded, q.link, q.touched \/ touches,
                                  q.stale \/ puts)
    BY DEF Others
  <2>1. Running(d)
    BY <1>1 DEF Running
  <2> QED  BY <1>1, <1>2, <2>1
<1>4. \A d \in Clients \ {c} : request'[d] \in Req \cup {None, Fault}
  BY <1>1, <1>2 DEF Being, StoreOK
<1>5. Answered(answer) \in {None, Fault}
  BY DEF Answered, Fault
<1> QED  BY <1>1, <1>3, <1>4, <1>5

\* A request of the next state, by its value.
LEMMA FitsNext ==
    ASSUME NEW d, NEW r, r = request'[d], Fits(r)'
    PROVE  Fits(request[d])'
<1>1. Placed(request[d])'
  BY DEF Fits, Placed, Asked
<1>2. New(request[d])'
  BY DEF Fits, New, Unsaved
<1>3. Clean(request[d])'
  BY DEF Fits, Clean, Matches
<1>4. Read(request[d])'
  BY DEF Fits, Read
<1> QED  BY <1>1, <1>2, <1>3, <1>4 DEF Fits

\* The requests after a step of c.
LEMMA ClientStep ==
    ASSUME RequestInv, StoreOK', NEW c \in Clients, Running(c),
           NEW touches \in BOOLEAN, NEW puts \in BOOLEAN,
           Steady(request[c].n, touches, puts), Others(c, touches, puts),
           Running(c)' => request'[c].n = request[c].n /\ Fits(request[c])'
    PROVE  RequestsFit' /\ Apart' /\ NotYet'
<1> USE DEF RequestInv
<1>1. request[c] \in Req /\ request[c].n \in Ids /\ request[c].n <= begun
  <2>1. request[c] \in Req /\ Fits(request[c])
    BY RunningIsReq DEF RequestsFit
  <2> QED  BY <2>1 DEF Fits, Placed, Req
<1>2. ASSUME NEW d \in Clients \ {c}, Running(d)'
      PROVE  Running(d) /\ request'[d].n = request[d].n /\ Fits(request[d])'
  <2>1. Running(d) /\ request[d] \in Req /\ Fits(request[d]) /\ request[d].n # request[c].n
    BY <1>2, RunningIsReq DEF Others, RequestsFit, Apart
  <2>2. PICK q, r : q = request[d] /\ r = request'[d]
    OBVIOUS
  <2>3. Being(r, q, q.pc, q.loaded, q.link, q.touched \/ touches, q.stale \/ puts)
    BY <1>2, <2>2 DEF Others
  <2>4. r.n = q.n
    BY <2>3 DEF Being, SameAsked
  <2>5. q \in Req /\ Fits(q) /\ q.n # request[c].n
    BY <2>1, <2>2
  <2>6. Fits(r)'
    BY <2>3, <2>5, OthersFit
  <2>7. Fits(request[d])'
    BY <2>2, <2>6, FitsNext
  <2> QED  BY <2>1, <2>2, <2>4, <2>7
<1>3. RequestsFit'
  BY <1>2 DEF RequestsFit
<1>4. Apart'
  BY <1>2 DEF Apart
<1>5. NotYet'
  BY <1>1, SubmissionConstants DEF NotYet, Steady, StoreOK, Keys
<1> QED  BY <1>3, <1>4, <1>5

LEMMA Scope ==
    ASSUME NEW q \in Req, q.pc \in DOMAIN Does[q.op]
    PROVE  /\ q.op \in Visitors => q.pc >= 1 /\ q.pc <= 8
           /\ q.op = "order" => q.pc <= 7
           /\ \A p \in 1..7 : q.op \in Visitors => p \in DOMAIN Does[q.op]
           /\ q.op = "donation" => DOMAIN Does[q.op] = 1..8
           /\ q.op \notin Visitors => q.pc = 1 \/ q.pc = 2
<1>1. q.op \in {"order", "donation", "pledge", "create_customer", "update_customer",
                "delete_customer", "get_preferences", "put_preferences"}
  BY Scripts DEF Req
<1> DEFINE D == DOMAIN Does[q.op]
<1>2. q.op = "order" => D = 1..7
  BY Scripts
<1>3. q.op = "donation" => D = 1..8
  BY Scripts
<1>4. q.op \in {"pledge", "create_customer"} => D = 1..1
  BY Scripts
<1>5. q.op \in {"update_customer", "delete_customer", "get_preferences", "put_preferences"} =>
        D = 1..2
  BY Scripts
<1>6. q.pc \in D
  OBVIOUS
<1> HIDE DEF D
<1>7. D = 1..7 => q.pc >= 1 /\ q.pc <= 7 /\ \A p \in 1..7 : p \in D
  BY <1>6
<1>8. D = 1..8 => q.pc >= 1 /\ q.pc <= 8 /\ \A p \in 1..7 : p \in D
  BY <1>6
<1>9. D = 1..1 \/ D = 1..2 => q.pc = 1 \/ q.pc = 2
  BY <1>6
<1>10. q.op \in Visitors <=> q.op = "order" \/ q.op = "donation"
  BY DEF Visitors
<1>11. /\ q.op = "order" => q.pc >= 1 /\ q.pc <= 7 /\ \A p \in 1..7 : p \in D
       /\ q.op = "donation" => q.pc >= 1 /\ q.pc <= 8 /\ \A p \in 1..7 : p \in D
       /\ q.op \notin Visitors => q.pc = 1 \/ q.pc = 2
  <2>1. q.op \notin Visitors => D = 1..1 \/ D = 1..2
    BY <1>1, <1>4, <1>5, <1>10
  <2> QED  BY <1>2, <1>3, <1>7, <1>8, <1>9, <2>1
<1>12. q.pc <= 7 => q.pc <= 8
  BY DEF Req
<1>13. q.op \in Visitors => q.pc >= 1 /\ q.pc <= 8 /\ \A p \in 1..7 : p \in D
  BY <1>10, <1>11, <1>12
<1> QED  BY <1>3, <1>11, <1>13 DEF D

\* A running request by its value.
LEMMA RunningFits ==
    ASSUME RequestInv, NEW c \in Clients, Running(c), NEW q, q = request[c]
    PROVE  /\ q \in Req /\ Fits(q) /\ q.pc \in DOMAIN Does[q.op] /\ Asked(q)
           /\ q.n \in Ids /\ q.n \in Keys /\ q.n # 0
<1>1. q \in Req /\ Fits(q)
  BY RunningIsReq DEF RequestInv, RequestsFit
<1>2. q.n \in Ids
  BY <1>1 DEF Req
<1> QED  BY <1>1, <1>2, SubmissionConstants DEF Fits, Placed

\* A step that only leads a request on.
LEMMA GoesOn ==
    ASSUME RequestInv, NEW c \in Clients, Running(c), NEW x \in Req,
           request' = [request EXCEPT ![c] = x],
           UNCHANGED <<customers, rows, events, prefs, fate, begun, situation>>,
           x.n = request[c].n, Fits(x)
    PROVE  RequestInv'
<1> USE DEF RequestInv
<1>1. StoreOK'
  BY DEF StoreOK
<1>2. Fits(x)'
  BY DEF Fits, Placed, New, Clean, Read, Matches, Holding, HasKey
<1>3. request'[c] = x
  BY DEF StoreOK
<1>4. Fits(request[c])'
  BY <1>2, <1>3, FitsNext
<1>5. Others(c, FALSE, FALSE)
  BY OneChanges
<1>6. Steady(request[c].n, FALSE, FALSE)
  BY DEF Steady
<1>7. RequestsFit' /\ Apart' /\ NotYet'
  BY <1>1, <1>3, <1>4, <1>5, <1>6, ClientStep
<1>8. Stored'
  BY DEF Stored, Due
<1> QED  BY <1>1, <1>7, <1>8

\* An answer that changes nothing else.
LEMMA Answers ==
    ASSUME RequestInv, NEW c \in Clients, Running(c), NEW answer, Answer(c, answer)
    PROVE  RequestInv'
<1> USE DEF RequestInv
<1>1. /\ request' = [request EXCEPT ![c] = Answered(answer)]
      /\ UNCHANGED <<customers, rows, events, prefs, fate, begun, situation>>
  BY DEF Answer
<1>2. Answered(answer) \in {None, Fault}
  BY DEF Answered, Fault
<1>3. StoreOK' /\ request'[c] \in {None, Fault}
  BY <1>1, <1>2 DEF StoreOK
<1>4. ~ Running(c)'
  BY <1>3 DEF Running, Fault
<1>5. Others(c, FALSE, FALSE)
  BY <1>1, OneChanges
<1>6. Steady(request[c].n, FALSE, FALSE)
  BY <1>1 DEF Steady
<1>7. RequestsFit' /\ Apart' /\ NotYet'
  BY <1>3, <1>4, <1>5, <1>6, ClientStep
<1>8. Stored'
  BY <1>1 DEF Stored, Due
<1> QED  BY <1>3, <1>7, <1>8

\* A request at a step of its script.
LEMMA AtStep ==
    ASSUME RequestInv, NEW c \in Clients, NEW step, At(c, step), NEW q, q = request[c]
    PROVE  /\ Running(c) /\ q \in Req /\ Fits(q) /\ Asked(q)
           /\ q.pc \in DOMAIN Does[q.op] /\ Does[q.op][q.pc] = step
           /\ q.n \in Ids /\ q.n \in Keys /\ q.n # 0
BY RunningFits DEF At

\* What is found is a customer.
LEMMA Holds ==
    ASSUME StoreOK, NEW field, NEW value
    PROVE  \A k : k \in Holding(field, value) <=>
             k \in Keys /\ customers[k] # None /\ value # None /\ customers[k][field] = value
BY DEF StoreOK, Holding, HasKey

\* What a visitor's request knows at step p, customer k found.
Found(q, p, k) ==
    /\ p <= 5 => q.email = None \/ q.email \notin q.held
    /\ p = 4 => Holding("email", q.email) \cup Holding("phone", q.phone) # {}
    /\ p = 5 => Holding("phone", q.phone) # {}
    /\ p = 6 /\ k = None => q.email = None /\ q.phone = None
    /\ p = 6 /\ k # None => Matches(q, k)

\* A visitor's request before its row is stored, with what it has found.
LEMMA VisitorGoesOn ==
    ASSUME StoreOK, NEW q \in Req, q.pc \in DOMAIN Does[q.op], Fits(q),
           q.op \in Visitors, q.pc <= 5,
           NEW p \in 2..6, NEW k \in Keys \cup {None}, p <= 5 => k = None,
           NEW x, Being(x, q, p, q.loaded, k, q.touched, q.stale),
           q.touched = FALSE => Found(q, p, k)
    PROVE  x \in Req /\ x.n = q.n /\ Fits(x)
<1> USE DEF Being, SameAsked
<1>1. x \in Req /\ x.n = q.n /\ x.op = q.op /\ x.pc = p /\ p \in 1..7
  OBVIOUS
<1>2. x.pc \in DOMAIN Does[x.op]
  BY <1>1, Scope
<1>3. q.op # "pledge" /\ q.op # "update_customer" /\ q.op # "delete_customer"
      /\ q.op # "get_preferences" /\ q.op # "put_preferences"
  BY DEF Visitors
<1>4. Placed(x)
  BY <1>2, <1>3 DEF Fits, Placed, Asked
<1>5. New(x)
  BY <1>1 DEF Fits, New, Unsaved, Req
<1>6. Clean(x)
  <2> SUFFICES ASSUME x.touched = FALSE PROVE Clean(x)
    BY DEF Clean
  <2>1. q.touched = FALSE /\ x.held = q.held /\ x.email = q.email /\ x.phone = q.phone
        /\ x.pc = p /\ x.link = k
    OBVIOUS
  <2>2. \A e \in q.held : \E n \in Keys : customers[n] # None /\ customers[n].email = e
    BY <2>1 DEF Fits, Clean
  <2>3. p = 6 /\ k # None => Matches(x, k)
    BY <2>1 DEF Matches, Found
  <2>4. x.pc \in 2..5 => p <= 5
    OBVIOUS
  <2>5. Found(q, p, k)
    BY <2>1
  <2> QED  BY <2>1, <2>2, <2>3, <2>4, <2>5, <1>3 DEF Clean, Found
<1>7. Read(x)
  BY <1>3 DEF Read
<1> QED  BY <1>1, <1>4, <1>5, <1>6, <1>7 DEF Fits

LEMMA FindByEmailFits ==
    ASSUME RequestInv, NEW c \in Clients, FindByEmail(c)
    PROVE  RequestInv'
<1> USE DEF RequestInv
<1>1. PICK q : q = request[c]
  OBVIOUS
<1>2. /\ Running(c) /\ q \in Req /\ Fits(q) /\ q.pc \in DOMAIN Does[q.op]
      /\ Does[q.op][q.pc] = "find by email"
  BY <1>1, AtStep DEF FindByEmail, FindBy
<1>3. q.op \in Visitors /\ (q.pc = 1 \/ q.pc = 4)
  BY <1>2, Places
<1>4. q.link = None /\ q.pc <= 5 /\ q.pc # 5 /\ None \in Keys \cup {None} /\ 6 \in 2..6
  <2>1. q.pc <= 5 /\ q.pc # 5
    BY <1>3
  <2>2. q.link = None
    BY <1>2, <1>3, <2>1 DEF Fits, Placed
  <2> QED  BY <2>1, <2>2
<1>5. CASE Holding("email", q.email) # {}
  <2>1. PICK k \in Holding("email", q.email) : k = CHOOSE j \in Holding("email", q.email) : TRUE
    BY <1>5
  <2>2. k \in Keys /\ customers[k] # None /\ q.email # None /\ customers[k].email = q.email
    BY <2>1, Holds
  <2>3. PICK x : x = [[q EXCEPT !.link = k] EXCEPT !.pc = 6]
    OBVIOUS
  <2>4. /\ request' = [request EXCEPT ![c] = x]
        /\ UNCHANGED <<customers, rows, events, prefs, fate, begun, situation>>
    BY <1>1, <1>5, <2>1, <2>3 DEF FindByEmail, FindBy, GoTo
  <2>5. Being(x, q, 6, q.loaded, k, q.touched, q.stale)
    BY <1>2, <2>2, <2>3, Edited
  <2>6. Found(q, 6, k)
    <3>1. Matches(q, k) /\ k # None
      BY <2>2, SubmissionConstants DEF Matches
    <3> QED  BY <3>1 DEF Found
  <2>7. x \in Req /\ x.n = q.n /\ Fits(x)
    <3>1. k \in Keys \cup {None} /\ ~ (6 <= 5) /\ 6 \in 2..6
      BY <2>2
    <3> QED  BY ONLY RequestInv, <1>2, <1>3, <1>4, <2>5, <2>6, <3>1, VisitorGoesOn DEF RequestInv
  <2> QED  BY <1>1, <1>2, <2>4, <2>7, GoesOn
<1>6. CASE Holding("email", q.email) = {}
  <2>1. PICK x : x = [q EXCEPT !.pc = q.pc + 1]
    OBVIOUS
  <2>2. /\ request' = [request EXCEPT ![c] = x]
        /\ UNCHANGED <<customers, rows, events, prefs, fate, begun, situation>>
    BY <1>1, <1>4, <1>6, <2>1 DEF FindByEmail, FindBy, GoTo
  <2>3. Being(x, q, q.pc + 1, q.loaded, q.link, q.touched, q.stale)
    <3>1. q.pc + 1 \in Nat
      BY <1>3
    <3> QED  BY <1>2, <2>1, <3>1, Edited DEF Req
  <2>4. ASSUME q.touched = FALSE PROVE Found(q, q.pc + 1, q.link)
    <3>1. /\ \A e \in q.held : \E k \in Keys : customers[k] # None /\ customers[k].email = e
          /\ q.pc = 4 => Holding("email", q.email) \cup Holding("phone", q.phone) # {}
      BY <1>2, <1>3, <2>4 DEF Fits, Clean
    <3>2. /\ q.email = None \/ q.email \notin q.held
          /\ q.pc = 4 => Holding("phone", q.phone) # {}
      BY <1>6, <3>1, Holds
    <3>3. q.pc + 1 # 6 /\ q.pc + 1 # 4 /\ (q.pc + 1 = 5 => q.pc = 4)
      BY <1>3
    <3> QED  BY <3>2, <3>3 DEF Found
  <2>5. x \in Req /\ x.n = q.n /\ Fits(x)
    <3>1. q.pc + 1 \in 2..6 /\ None \in Keys \cup {None}
      BY <1>3
    <3> QED  BY <1>2, <1>3, <1>4, <2>3, <2>4, <3>1, VisitorGoesOn
  <2> QED  BY <1>1, <1>2, <2>2, <2>5, GoesOn
<1> QED  BY <1>5, <1>6

LEMMA FindByPhoneFits ==
    ASSUME RequestInv, NEW c \in Clients, FindByPhone(c)
    PROVE  RequestInv'
<1> USE DEF RequestInv
<1>1. PICK q : q = request[c]
  OBVIOUS
<1>2. /\ Running(c) /\ q \in Req /\ Fits(q) /\ q.pc \in DOMAIN Does[q.op]
      /\ Does[q.op][q.pc] = "find by phone"
  BY <1>1, AtStep DEF FindByPhone, FindBy
<1>3. q.op \in Visitors /\ (q.pc = 2 \/ q.pc = 5)
  BY <1>2, Places
<1>4. /\ q.link = None /\ q.pc <= 5 /\ q.pc \in 2..5 /\ None \in Keys \cup {None}
      /\ 6 \in 2..6 /\ 3 \in 2..6
  <2>1. q.pc <= 5 /\ q.pc \in 2..5
    BY <1>3
  <2>2. q.link = None
    BY <1>2, <1>3, <2>1 DEF Fits, Placed
  <2> QED  BY <2>1, <2>2
<1>5. q.touched = FALSE => q.email = None \/ q.email \notin q.held
  BY <1>2, <1>3, <1>4 DEF Fits, Clean
<1>6. CASE Holding("phone", q.phone) # {}
  <2>1. PICK k \in Holding("phone", q.phone) : k = CHOOSE j \in Holding("phone", q.phone) : TRUE
    BY <1>6
  <2>2. k \in Keys /\ customers[k] # None /\ q.phone # None /\ customers[k].phone = q.phone
    BY <2>1, Holds
  <2>3. PICK x : x = [[q EXCEPT !.link = k] EXCEPT !.pc = 6]
    OBVIOUS
  <2>4. /\ request' = [request EXCEPT ![c] = x]
        /\ UNCHANGED <<customers, rows, events, prefs, fate, begun, situation>>
    BY <1>1, <1>6, <2>1, <2>3 DEF FindByPhone, FindBy, GoTo
  <2>5. Being(x, q, 6, q.loaded, k, q.touched, q.stale)
    BY <1>2, <2>2, <2>3, Edited
  <2>6. q.touched = FALSE => Found(q, 6, k)
    <3>1. k # None /\ (q.touched = FALSE => Matches(q, k))
      BY <1>5, <2>2, SubmissionConstants DEF Matches
    <3> QED  BY <3>1 DEF Found
  <2>7. x \in Req /\ x.n = q.n /\ Fits(x)
    <3>1. k \in Keys \cup {None} /\ ~ (6 <= 5) /\ 6 \in 2..6
      BY <2>2
    <3> QED  BY ONLY RequestInv, <1>2, <1>3, <1>4, <2>5, <2>6, <3>1, VisitorGoesOn DEF RequestInv
  <2> QED  BY <1>1, <1>2, <2>4, <2>7, GoesOn
<1>7. CASE Holding("phone", q.phone) = {} /\ q.pc = 2
  <2>1. PICK x : x = [q EXCEPT !.pc = 3]
    OBVIOUS
  <2>2. request[c].pc + 1 = 3 /\ request[c].pc # 5
    BY <1>1, <1>7
  <2>3. GoTo(c, request[c], 3)
    BY <1>1, <1>7, <2>2 DEF FindByPhone, FindBy
  <2>4. /\ request' = [request EXCEPT ![c] = x]
        /\ UNCHANGED <<customers, rows, events, prefs, fate, begun, situation>>
    BY <1>1, <2>1, <2>3 DEF GoTo
  <2>5. Being(x, q, 3, q.loaded, q.link, q.touched, q.stale)
    BY <1>2, <2>1, Edited DEF Req
  <2>6. q.touched = FALSE => Found(q, 3, q.link)
    BY <1>5 DEF Found
  <2>7. x \in Req /\ x.n = q.n /\ Fits(x)
    BY <1>2, <1>3, <1>4, <2>5, <2>6, VisitorGoesOn
  <2> QED  BY <1>1, <1>2, <2>4, <2>7, GoesOn
<1>8. CASE Holding("phone", q.phone) = {} /\ q.pc = 5
  <2>1. Answer(c, "error")
    BY <1>1, <1>8 DEF FindByPhone, FindBy
  <2> QED  BY <1>2, <2>1, Answers
<1> QED  BY <1>3, <1>6, <1>7, <1>8

\* A row is stored, perhaps with its customer.
LEMMA SavedFits ==
    ASSUME RequestInv, NEW c \in Clients, Running(c), NEW q, q = request[c],
           q.op \in Submitted, Unsaved(q), NEW link \in Keys \cup {None}, Saved(c, q, link),
           \/ customers' = customers
           \/ customers' = [customers EXCEPT ![q.n] = [email |-> q.email, phone |-> q.phone]]
    PROVE  RequestInv'
<1> USE DEF RequestInv
<1>1. /\ q \in Req /\ Fits(q) /\ q.pc \in DOMAIN Does[q.op] /\ Asked(q)
      /\ q.n \in Ids /\ q.n \in Keys /\ q.n # 0
  BY RunningFits
<1>2. rows[q.n] = None /\ customers[q.n] = None
  BY <1>1 DEF Fits, New
<1>3. PICK row : row = [kind |-> q.op, email |-> q.email, link |-> link,
                        visit |-> q.visit, receipt |-> q.receipt]
  OBVIOUS
<1>4. /\ rows' = [rows EXCEPT ![q.n] = row]
      /\ events' = IF q.visit THEN events \cup {q.n} ELSE events
      /\ UNCHANGED <<prefs, fate, begun, situation>>
  BY <1>3 DEF Saved
<1>5. q.email \in Emails \cup {None} /\ q.phone \in Phones \cup {None}
  BY <1>1 DEF Asked, Submitted
<1>6. row \in Row /\ row # None /\ row.visit = q.visit
  BY <1>1, <1>3, <1>5, SubmissionConstants DEF Row, Asked
<1>7. customers' \in [Keys -> Customer \cup {None}]
  <2>1. [email |-> q.email, phone |-> q.phone] \in Customer
    BY <1>5 DEF Customer
  <2> QED  BY <2>1 DEF StoreOK
<1>8. /\ rows' \in [Ids -> Row \cup {None}] /\ rows'[q.n] = row
      /\ \A n \in Ids \ {q.n} : rows'[n] = rows[n]
  BY <1>1, <1>4, <1>6 DEF StoreOK
<1>9. \A n \in Keys \ {q.n} : customers'[n] = customers[n]
  BY DEF StoreOK
<1>10. PICK x : x = IF q.op = "pledge" THEN None ELSE [q EXCEPT !.link = link, !.pc = 7]
  OBVIOUS
<1>11. request' = [request EXCEPT ![c] = x]
  BY <1>10 DEF Saved, Answered
<1>12. q.op # "pledge" => q.op \in Visitors
  BY DEF Submitted, Visitors
<1>13. q.op # "pledge" => Being(x, q, 7, q.loaded, link, q.touched, q.stale)
  BY <1>1, <1>10, Edited
<1>14. StoreOK'
  <2>1. x \in Req \cup {None, Fault}
    BY <1>10, <1>13 DEF Being
  <2>2. events' \subseteq Ids
    BY <1>1, <1>4 DEF StoreOK
  <2> QED  BY <1>4, <1>7, <1>8, <1>11, <2>1, <2>2 DEF StoreOK
<1>15. Steady(q.n, FALSE, FALSE)
  BY <1>2, <1>4, <1>8, <1>9 DEF Steady
<1>16. ASSUME Running(c)' PROVE request'[c].n = q.n /\ Fits(request[c])'
  <2>1. request'[c] = x
    BY <1>11 DEF StoreOK
  <2>2. q.op # "pledge"
    BY <1>10, <1>16, <2>1 DEF Running
  <2>3. q.op \in Visitors /\ Being(x, q, 7, q.loaded, link, q.touched, q.stale)
    BY <1>12, <1>13, <2>2
  <2>4. x.op = q.op /\ x.pc = 7 /\ x.n = q.n /\ x.link = link /\ x.held = q.held
        /\ x.touched = q.touched
    BY <2>3 DEF Being, SameAsked
  <2>5. q.op # "pledge" /\ q.op # "update_customer" /\ q.op # "delete_customer"
      /\ q.op # "get_preferences" /\ q.op # "put_preferences"
    BY <2>3 DEF Visitors
  <2>6. Placed(x)'
    <3>1. 7 \in DOMAIN Does[q.op]
      BY <1>1, <2>3, Scope
    <3>2. Asked(x)
      BY <1>1, <2>3 DEF Asked, Being, SameAsked
    <3>3. q.n <= begun'
      BY <1>1, <1>4 DEF Fits, Placed
    <3> QED  BY <2>4, <2>5, <3>1, <3>2, <3>3 DEF Placed, Asked
  <2>7. New(x)'
    <3>1. fate' = fate /\ \A t \in Tasks : fate[t] # "none" => rows[t[2]] # None
      BY <1>4 DEF Stored, Due
    <3>2. \A y \in {"notice", "receipt"} : fate[<<y, q.n>>] = "none"
      <4> TAKE y \in {"notice", "receipt"}
      <4>1. <<y, q.n>> \in Tasks /\ <<y, q.n>>[2] = q.n
        BY <1>1 DEF Tasks
      <4> QED  BY <1>2, <3>1, <4>1
    <3> QED  BY <2>3, <2>4, <3>1, <3>2 DEF New, Unsaved
  <2>8. Clean(x)'
    <3> SUFFICES ASSUME x.touched = FALSE PROVE Clean(x)'
      BY DEF Clean
    <3>1. \A e \in q.held : \E k \in Keys : customers[k] # None /\ customers[k].email = e
      BY <1>1, <2>4 DEF Fits, Clean
    <3>2. \A k \in Keys : customers[k] # None => customers'[k] = customers[k]
      BY <1>2, <1>9
    <3>3. \A e \in q.held : \E k \in Keys : customers'[k] # None /\ customers'[k].email = e
      BY <3>1, <3>2
    <3> QED  BY <2>4, <2>5, <3>3 DEF Clean
  <2>9. Read(x)'
    BY <2>4, <2>5 DEF Read
  <2>10. Fits(x)'
    BY <2>6, <2>7, <2>8, <2>9 DEF Fits
  <2> QED  BY <2>1, <2>4, <2>10, FitsNext
<1>17. RequestsFit' /\ Apart' /\ NotYet'
  <2>1. Others(c, FALSE, FALSE)
    BY <1>11, OneChanges
  <2> QED  BY <1>14, <1>15, <1>16, <2>1, ClientStep
<1>18. Stored'
  <2>1. events' = {n \in Ids : rows'[n] # None /\ rows'[n].visit}
    BY <1>1, <1>4, <1>6, <1>8, <1>2 DEF Stored, Req
  <2>2. ASSUME NEW t \in Tasks, fate'[t] # "none" PROVE t \in Due(t[2])'
    <3>1. t \in Due(t[2]) /\ t[2] \in Ids /\ rows[t[2]] # None
      BY <1>4, <2>2 DEF Stored, Due, Tasks
    <3>2. rows'[t[2]] = rows[t[2]]
      BY <1>2, <1>8, <3>1
    <3> QED  BY <3>1, <3>2 DEF Due
  <2> QED  BY <2>1, <2>2 DEF Stored
<1> QED  BY <1>14, <1>17, <1>18

LEMMA InsertFits ==
    ASSUME RequestInv, NEW c \in Clients, Insert(c)
    PROVE  RequestInv'
<1> USE DEF RequestInv
<1>1. PICK q : q = request[c]
  OBVIOUS
<1>2. /\ Running(c) /\ q \in Req /\ Fits(q) /\ q.pc \in DOMAIN Does[q.op]
      /\ Does[q.op][q.pc] = "insert" /\ q.n \in Keys
  BY <1>1, AtStep DEF Insert
<1>3. q.op \in Visitors /\ q.pc = 3
  <2>1. q.op \in Submitted
    BY <1>1 DEF Insert
  <2>2. q.op # "create_customer"
    BY <2>1 DEF Submitted
  <2> QED  BY <1>2, <2>2, Places
<1>4. /\ q.link = None /\ q.pc <= 5 /\ None \in Keys \cup {None}
      /\ 6 \in 2..6 /\ 4 \in 2..6 /\ q.pc \in 2..5
  <2>1. q.pc <= 5 /\ q.pc \in 2..5
    BY <1>3
  <2>2. q.link = None
    BY <1>2, <1>3, <2>1 DEF Fits, Placed
  <2> QED  BY <2>1, <2>2
<1>5. CASE q.email = None /\ q.phone = None
  <2>1. PICK x : x = [q EXCEPT !.pc = 6]
    OBVIOUS
  <2>2. /\ request' = [request EXCEPT ![c] = x]
        /\ UNCHANGED <<customers, rows, events, prefs, fate, begun, situation>>
    <3>1. Taken(q.email, q.phone, None) = {}
      BY <1>5, Holds DEF Taken
    <3> QED  BY <1>1, <1>5, <2>1, <3>1 DEF Insert, GoTo
  <2>3. Being(x, q, 6, q.loaded, q.link, q.touched, q.stale)
    BY <1>2, <2>1, Edited DEF Req
  <2>4. Found(q, 6, q.link)
    BY <1>4, <1>5 DEF Found
  <2>5. x \in Req /\ x.n = q.n /\ Fits(x)
    BY <1>2, <1>3, <1>4, <2>3, <2>4, VisitorGoesOn
  <2> QED  BY <1>1, <1>2, <2>2, <2>5, GoesOn
<1>6. CASE ~ (q.email = None /\ q.phone = None) /\ Taken(q.email, q.phone, None) # {}
  <2>1. PICK x : x = [q EXCEPT !.pc = 4]
    OBVIOUS
  <2>2. /\ request' = [request EXCEPT ![c] = x]
        /\ UNCHANGED <<customers, rows, events, prefs, fate, begun, situation>>
    BY <1>1, <1>6, <2>1 DEF Insert, GoTo
  <2>3. Being(x, q, 4, q.loaded, q.link, q.touched, q.stale)
    BY <1>2, <2>1, Edited DEF Req
  <2>4. ASSUME q.touched = FALSE PROVE Found(q, 4, q.link)
    <3>1. q.email = None \/ q.email \notin q.held
      BY <1>2, <1>3, <1>4, <2>4 DEF Fits, Clean
    <3>2. Holding("email", q.email) \cup Holding("phone", q.phone) # {}
      BY <1>6 DEF Taken
    <3> QED  BY <3>1, <3>2 DEF Found
  <2>5. x \in Req /\ x.n = q.n /\ Fits(x)
    BY <1>2, <1>3, <1>4, <2>3, <2>4, VisitorGoesOn
  <2> QED  BY <1>1, <1>2, <2>2, <2>5, GoesOn
<1>7. CASE ~ (q.email = None /\ q.phone = None) /\ Taken(q.email, q.phone, None) = {}
  <2>1. /\ customers' = [customers EXCEPT ![q.n] = [email |-> q.email, phone |-> q.phone]]
        /\ Saved(c, q, q.n)
    BY <1>1, <1>7 DEF Insert
  <2>2. Unsaved(q) /\ q.op \in Submitted
    <3>1. q.pc <= 6
      BY <1>3
    <3> QED  BY <1>3, <3>1 DEF Unsaved, Submitted, Visitors
  <2> QED  BY <1>1, <1>2, <2>1, <2>2, SavedFits
<1> QED  BY <1>5, <1>6, <1>7

LEMMA SaveFits ==
    ASSUME RequestInv, NEW c \in Clients, Save(c)
    PROVE  RequestInv'
<1>1. PICK q : q = request[c]
  OBVIOUS
<1>2. /\ Running(c) /\ q \in Req /\ Fits(q) /\ q.pc \in DOMAIN Does[q.op]
      /\ Does[q.op][q.pc] = "save"
  BY <1>1, AtStep DEF Save
<1>3. \/ q.op \in Visitors /\ q.pc = 6
      \/ q.op = "pledge" /\ q.pc = 1
  BY <1>2, Places
<1>4. Unsaved(q) /\ q.op \in Submitted
  <2>1. q.pc <= 6
    BY <1>3
  <2> QED  BY <1>3, <2>1 DEF Unsaved, Submitted, Visitors
<1>5. q.link \in Keys \cup {None}
  BY <1>2 DEF Req
<1>6. CASE Answer(c, "error")
  BY <1>2, <1>6, Answers
<1>7. CASE Saved(c, q, q.link) /\ UNCHANGED customers
  BY <1>1, <1>2, <1>4, <1>5, <1>7, SavedFits
<1> QED  BY <1>1, <1>6, <1>7 DEF Save

LEMMA DelayFits ==
    ASSUME RequestInv, NEW c \in Clients, Running(c), NEW step, NEW name \in {"notice", "receipt"},
           Delay(c, step, name), NEW q, q = request[c], q.op \in Visitors,
           \/ name = "notice" /\ q.pc = 7
           \/ name = "receipt" /\ q.pc = 8 /\ q.op = "donation"
    PROVE  RequestInv'
<1> USE DEF RequestInv
<1>1. q \in Req /\ Fits(q) /\ q.pc \in DOMAIN Does[q.op] /\ q.n \in Ids
  BY RunningFits
<1>2. PICK t : t = <<name, q.n>>
  OBVIOUS
<1>3. t \in Tasks /\ t[1] = name /\ t[2] = q.n
  BY <1>1, <1>2 DEF Tasks
<1>4. /\ fate' \in [Tasks -> Fate] /\ \A u \in Tasks : u # t => fate'[u] = fate[u]
      /\ fate'[t] # fate[t] => t \in Due(q.n)
      /\ UNCHANGED <<customers, rows, events, prefs, begun, situation>>
  <2>1. UNCHANGED <<customers, rows, events, prefs, begun, situation>>
    BY DEF Delay
  <2>2. CASE t \in Due(q.n)
    <3>1. PICK end \in situation.broker : fate' = [fate EXCEPT ![t] = end]
      BY <1>2, <2>2 DEF Delay
    <3>2. end \in Fate
      BY SubmissionConstants DEF StoreOK, Fate
    <3> QED  BY <1>3, <2>1, <2>2, <3>1, <3>2 DEF StoreOK
  <2>3. CASE t \notin Due(q.n)
    BY <1>2, <2>1, <2>3 DEF Delay, StoreOK
  <2> QED  BY <2>2, <2>3
<1>5. PICK x : /\ x = IF q.pc = Len(Does[q.op]) THEN None ELSE [q EXCEPT !.pc = q.pc + 1]
               /\ request' = [request EXCEPT ![c] = x]
  BY DEF Delay, Answered
<1>6. \/ x = None
      \/ x = [q EXCEPT !.pc = 8] /\ q.op = "donation" /\ name = "notice" /\ q.pc = 7
  <2>1. /\ q.op = "order" => Len(Does[q.op]) = 7
        /\ q.op = "donation" => Len(Does[q.op]) = 8
    <3>1. Len(Does["order"]) = 7 /\ Len(Does["donation"]) = 8
      BY Scripts
    <3> QED  BY <3>1
  <2>2. q.op = "order" \/ q.op = "donation"
    BY DEF Visitors
  <2>3. q.op = "order" => q.pc <= 7
    BY <1>1, Scope
  <2>4. q.op = "order" => q.pc = 7
    BY <2>3
  <2>5. q.pc = 7 => q.pc + 1 = 8
    OBVIOUS
  <2>6. q.pc = 7 \/ q.pc = 8
    OBVIOUS
  <2>7. q.pc = 8 => name = "receipt" /\ q.op = "donation"
    OBVIOUS
  <2> HIDE DEF Does
  <2>8. CASE q.op = "order"
    BY <1>5, <2>1, <2>4, <2>8
  <2>9. CASE q.op = "donation" /\ q.pc = 8
    BY <1>5, <2>1, <2>9
  <2>10. CASE q.op = "donation" /\ q.pc = 7
    BY <1>5, <2>5, <2>10
  <2> QED  BY <2>2, <2>6, <2>8, <2>9, <2>10
<1>7. x # None => Being(x, q, 8, q.loaded, q.link, q.touched, q.stale)
  <2>1. 8 \in Nat
    OBVIOUS
  <2>2. Being([q EXCEPT !.pc = 8], q, 8, q.loaded, q.link, q.touched, q.stale)
    BY <1>1, <2>1, Edited DEF Req
  <2> QED  BY <1>6, <2>2
<1>8. StoreOK'
  <2>1. x \in Req \cup {None, Fault}
    BY <1>7 DEF Being
  <2> QED  BY <1>4, <1>5, <2>1 DEF StoreOK
<1>9. Steady(q.n, FALSE, FALSE)
  BY <1>3, <1>4 DEF Steady
<1>10. ASSUME Running(c)' PROVE request'[c].n = q.n /\ Fits(request[c])'
  <2>1. request'[c] = x /\ x # None
    BY <1>5, <1>10 DEF StoreOK, Running
  <2>2. /\ Being(x, q, 8, q.loaded, q.link, q.touched, q.stale)
        /\ q.op = "donation" /\ name = "notice" /\ q.pc = 7
    BY <1>6, <1>7, <2>1
  <2>3. x.op = "donation" /\ x.pc = 8 /\ x.n = q.n /\ x.held = q.held /\ x.touched = q.touched
    BY <2>2 DEF Being, SameAsked
  <2>4. Placed(x)'
    <3>1. 8 \in DOMAIN Does[q.op]
      BY <1>1, <2>2, Scope
    <3>2. Asked(x)
      BY <1>1, <2>2 DEF Fits, Placed, Asked, Being, SameAsked
    <3>3. q.n <= begun'
      BY <1>1, <1>4 DEF Fits, Placed
    <3>4. x.op = q.op
      BY <2>2, <2>3
    <3> QED  BY <2>3, <3>1, <3>2, <3>3, <3>4 DEF Placed, Asked
  <2>5. New(x)'
    <3>1. <<"receipt", q.n>> \in Tasks /\ <<"receipt", q.n>> # t
      BY <1>1, <1>3, <2>2 DEF Tasks
    <3>2. fate[<<"receipt", q.n>>] = "none"
      BY <1>1, <2>2 DEF Fits, New, Visitors
    <3> QED  BY <1>4, <2>3, <3>1, <3>2 DEF New, Unsaved, Visitors
  <2>6. Clean(x)'
    <3>1. x.touched = FALSE =>
            \A e \in q.held : \E k \in Keys : customers[k] # None /\ customers[k].email = e
      BY <1>1, <2>3 DEF Fits, Clean
    <3> QED  BY <1>4, <2>3, <3>1 DEF Clean
  <2>7. Read(x)'
    BY <2>3 DEF Read
  <2>8. Fits(x)'
    BY <2>4, <2>5, <2>6, <2>7 DEF Fits
  <2> QED  BY <2>1, <2>3, <2>8, FitsNext
<1>11. RequestsFit' /\ Apart' /\ NotYet'
  <2>1. Others(c, FALSE, FALSE)
    BY <1>5, OneChanges
  <2> QED  BY <1>8, <1>9, <1>10, <2>1, ClientStep
<1>12. Stored'
  <2>1. \A u \in Tasks : fate'[u] # "none" => u \in Due(u[2])
    BY <1>3, <1>4 DEF Stored
  <2> QED  BY <1>4, <2>1 DEF Stored, Due
<1> QED  BY <1>8, <1>11, <1>12

LEMMA EnqueueFits ==
    ASSUME RequestInv, NEW c \in Clients, Enqueue(c) \/ EnqueueReceipt(c)
    PROVE  RequestInv'
<1>1. PICK q : q = request[c]
  OBVIOUS
<1>2. CASE Enqueue(c)
  <2>1. Delay(c, "enqueue", "notice") /\ At(c, "enqueue")
    BY <1>2 DEF Enqueue, Delay
  <2>2. /\ Running(c) /\ q \in Req /\ q.pc \in DOMAIN Does[q.op]
        /\ Does[q.op][q.pc] = "enqueue"
    BY <1>1, <2>1, AtStep
  <2>3. q.op \in Visitors /\ q.pc = 7
    BY <2>2, Places
  <2> QED  BY <1>1, <2>1, <2>2, <2>3, DelayFits
<1>3. CASE EnqueueReceipt(c)
  <2>1. Delay(c, "enqueue receipt", "receipt") /\ At(c, "enqueue receipt")
    BY <1>3 DEF EnqueueReceipt, Delay
  <2>2. /\ Running(c) /\ q \in Req /\ q.pc \in DOMAIN Does[q.op]
        /\ Does[q.op][q.pc] = "enqueue receipt"
    BY <1>1, <2>1, AtStep
  <2>3. q.op \in Visitors /\ q.pc = 8 /\ q.op = "donation"
    BY <2>2, Places DEF Visitors
  <2> QED  BY <1>1, <2>1, <2>2, <2>3, DelayFits
<1> QED  BY <1>2, <1>3

LEMMA CrashFits ==
    ASSUME RequestInv, NEW c \in Clients, Crash(c)
    PROVE  RequestInv'
<1> USE DEF RequestInv
<1>1. PICK n : n = request[c].n
  OBVIOUS
<1>2. Running(c) /\ n \in Ids
  BY <1>1, RunningFits DEF Crash
<1>3. /\ request' = [request EXCEPT ![c] = None]
      /\ fate' = [t \in Tasks |-> IF t \in Due(n) /\ fate[t] = "none" THEN "ended" ELSE fate[t]]
      /\ UNCHANGED <<customers, rows, events, prefs, begun, situation>>
  BY <1>1 DEF Crash
<1>4. StoreOK'
  <2>1. fate' \in [Tasks -> Fate]
    BY <1>3 DEF StoreOK, Fate
  <2> QED  BY <1>3, <2>1 DEF StoreOK
<1>5. \A t \in Tasks : fate'[t] = IF t \in Due(n) /\ fate[t] = "none" THEN "ended" ELSE fate[t]
  BY <1>3
<1>6. \A t \in Due(n) : t[2] = n
  BY DEF Due
<1>7. Steady(n, FALSE, FALSE)
  BY <1>3, <1>5, <1>6 DEF Steady
<1>8. ~ Running(c)'
  BY <1>3 DEF StoreOK, Running
<1>9. RequestsFit' /\ Apart' /\ NotYet'
  <2>1. Others(c, FALSE, FALSE)
    BY <1>3, OneChanges
  <2> QED  BY <1>1, <1>2, <1>4, <1>7, <1>8, <2>1, ClientStep
<1>10. Stored'
  <2>1. \A t \in Tasks : fate'[t] # "none" => t \in Due(t[2])
    BY <1>5, <1>6 DEF Stored
  <2> QED  BY <1>3, <2>1 DEF Stored, Due
<1> QED  BY <1>4, <1>9, <1>10

\* A commit of the staff.
LEMMA CommittedFits ==
    ASSUME RequestInv, NEW c \in Clients, Running(c), NEW touches \in BOOLEAN, NEW puts \in BOOLEAN,
           Committed(c, "ok", touches, puts), Steady(request[c].n, touches, puts), Stored',
           customers' \in [Keys -> Customer \cup {None}], rows' \in [Ids -> Row \cup {None}],
           prefs' \in Prefs \cup {None}, UNCHANGED <<events, fate, begun, situation>>
    PROVE  RequestInv'
<1> USE DEF RequestInv
<1>1. /\ Others(c, touches, puts) /\ request'[c] = None
      /\ request' \in [Clients -> Req \cup {None, Fault}]
  BY AllChange DEF Answered
<1>2. StoreOK'
  BY <1>1 DEF StoreOK
<1>3. ~ Running(c)'
  BY <1>1 DEF Running
<1>4. RequestsFit' /\ Apart' /\ NotYet'
  BY <1>1, <1>2, <1>3, ClientStep
<1> QED  BY <1>2, <1>4

LEMMA CreateCustomerFits ==
    ASSUME RequestInv, NEW c \in Clients, CreateCustomer(c)
    PROVE  RequestInv'
<1> USE DEF RequestInv
<1>1. PICK q : q = request[c]
  OBVIOUS
<1>2. /\ Running(c) /\ q \in Req /\ Fits(q) /\ q.pc \in DOMAIN Does[q.op] /\ Asked(q)
      /\ q.n \in Ids /\ q.n \in Keys
  BY <1>1, AtStep DEF CreateCustomer
<1>3. q.op = "create_customer"
  BY <1>1 DEF CreateCustomer
<1>4. CASE Taken(q.email, q.phone, None) # {}
  BY <1>1, <1>2, <1>4, Answers DEF CreateCustomer
<1>5. CASE Taken(q.email, q.phone, None) = {}
  <2>1. PICK x : x = [email |-> q.email, phone |-> q.phone]
    OBVIOUS
  <2>2. /\ customers' = [customers EXCEPT ![q.n] = x] /\ Committed(c, "ok", FALSE, FALSE)
        /\ UNCHANGED <<rows, events, prefs, fate, begun, situation>>
    BY <1>1, <1>5, <2>1 DEF CreateCustomer
  <2>3. x \in Customer
    BY <1>2, <1>3, <2>1 DEF Asked, Customer
  <2>4. customers[q.n] = None
    BY <1>2, <1>3 DEF Fits, New, Unsaved, Visitors
  <2>5. customers' \in [Keys -> Customer \cup {None}]
    BY <2>2, <2>3 DEF StoreOK
  <2>6. Steady(q.n, FALSE, FALSE)
    BY <1>2, <2>2, <2>4 DEF Steady, StoreOK
  <2>7. Stored'
    BY <2>2 DEF Stored, Due
  <2> QED  BY <1>1, <1>2, <2>2, <2>5, <2>6, <2>7, CommittedFits DEF StoreOK
<1> QED  BY <1>4, <1>5

\* A request of the staff that has read what it asks for.
LEMMA StaffGoesOn ==
    ASSUME StoreOK, NEW q \in Req, Fits(q), q.op \notin Visitors, q.op # "pledge",
           2 \in DOMAIN Does[q.op],
           NEW l \in Customer \cup Prefs \cup {None},
           NEW x, Being(x, q, 2, l, q.link, q.touched, q.stale),
           q.op \in {"update_customer", "delete_customer"} =>
             l \in Customer /\ customers[q.customer] # None,
           q.op \in {"get_preferences", "put_preferences"} => l = prefs
    PROVE  x \in Req /\ x.n = q.n /\ Fits(x)
<1> USE DEF Being, SameAsked
<1>1. x \in Req /\ x.n = q.n /\ x.op = q.op /\ x.pc = 2
  OBVIOUS
<1>2. Placed(x)
  BY DEF Fits, Placed, Asked
<1>3. New(x)
  BY DEF Fits, New, Unsaved
<1>4. Clean(x)
  BY DEF Fits, Clean
<1>5. Read(x)
  BY DEF Read, StoreOK
<1> QED  BY <1>1, <1>2, <1>3, <1>4, <1>5 DEF Fits

LEMMA LoadCustomerFits ==
    ASSUME RequestInv, NEW c \in Clients, LoadCustomer(c)
    PROVE  RequestInv'
<1> USE DEF RequestInv
<1>1. PICK q : q = request[c]
  OBVIOUS
<1>2. /\ Running(c) /\ q \in Req /\ Fits(q) /\ q.pc \in DOMAIN Does[q.op] /\ Asked(q)
      /\ Does[q.op][q.pc] = "load"
  BY <1>1, AtStep DEF LoadCustomer
<1>3. q.op \in {"update_customer", "delete_customer"} /\ q.pc = 1 /\ q.customer \in Keys
  BY <1>2, Places DEF Asked
<1>4. CASE customers[q.customer] = None
  BY <1>1, <1>2, <1>4, Answers DEF LoadCustomer
<1>5. CASE customers[q.customer] # None
  <2>1. PICK l : l = customers[q.customer]
    OBVIOUS
  <2>2. l \in Customer
    BY <1>3, <1>5, <2>1 DEF StoreOK
  <2>3. PICK x : x = [[q EXCEPT !.loaded = l] EXCEPT !.pc = 2]
    OBVIOUS
  <2>4. /\ request' = [request EXCEPT ![c] = x]
        /\ UNCHANGED <<customers, rows, events, prefs, fate, begun, situation>>
    BY <1>1, <1>5, <2>1, <2>3 DEF LoadCustomer, GoTo
  <2>5. Being(x, q, 2, l, q.link, q.touched, q.stale)
    <3>1. 2 \in Nat /\ q.link \in Keys \cup {None} /\ l \in Customer \cup Prefs \cup {None}
      BY <1>2, <2>2 DEF Req
    <3> QED  BY <1>2, <2>3, <3>1, Edited
  <2>6. /\ q.op \notin Visitors /\ q.op # "pledge" /\ q.op # "get_preferences"
        /\ q.op # "put_preferences" /\ 2 \in DOMAIN Does[q.op]
    <3>1. 2 \in 1..2
      OBVIOUS
    <3>2. DOMAIN Does[q.op] = 1..2
      BY <1>3, Scripts
    <3> QED  BY <1>3, <3>1, <3>2 DEF Visitors
  <2>7. x \in Req /\ x.n = q.n /\ Fits(x)
    BY <1>2, <1>5, <2>2, <2>5, <2>6, StaffGoesOn
  <2> QED  BY <1>1, <1>2, <2>4, <2>7, GoesOn
<1> QED  BY <1>4, <1>5

LEMMA LoadPreferencesFits ==
    ASSUME RequestInv, NEW c \in Clients, LoadPreferences(c)
    PROVE  RequestInv'
<1> USE DEF RequestInv
<1>1. PICK q : q = request[c]
  OBVIOUS
<1>2. /\ Running(c) /\ q \in Req /\ Fits(q) /\ q.pc \in DOMAIN Does[q.op]
      /\ Does[q.op][q.pc] = "load preferences"
  BY <1>1, AtStep DEF LoadPreferences
<1>3. q.op \in {"get_preferences", "put_preferences"} /\ q.pc = 1
  BY <1>2, Places
<1>4. PICK l : l = prefs
  OBVIOUS
<1>5. l \in Customer \cup Prefs \cup {None}
  BY <1>4 DEF StoreOK
<1>6. PICK x : x = [[q EXCEPT !.loaded = l] EXCEPT !.pc = 2]
  OBVIOUS
<1>7. /\ request' = [request EXCEPT ![c] = x]
      /\ UNCHANGED <<customers, rows, events, prefs, fate, begun, situation>>
  BY <1>1, <1>4, <1>6 DEF LoadPreferences, GoTo
<1>8. Being(x, q, 2, l, q.link, q.touched, q.stale)
  <2>1. 2 \in Nat /\ q.link \in Keys \cup {None}
    BY <1>2 DEF Req
  <2> QED  BY <1>2, <1>5, <1>6, <2>1, Edited
<1>9. /\ q.op \notin Visitors /\ q.op # "pledge" /\ q.op # "update_customer"
      /\ q.op # "delete_customer" /\ 2 \in DOMAIN Does[q.op]
  <2>1. 2 \in 1..2
    OBVIOUS
  <2>2. DOMAIN Does[q.op] = 1..2
    BY <1>3, Scripts
  <2> QED  BY <1>3, <2>1, <2>2 DEF Visitors
<1>10. x \in Req /\ x.n = q.n /\ Fits(x)
  BY <1>2, <1>4, <1>5, <1>8, <1>9, StaffGoesOn
<1> QED  BY <1>1, <1>2, <1>7, <1>10, GoesOn

LEMMA UpdateCustomerFits ==
    ASSUME RequestInv, NEW c \in Clients, UpdateCustomer(c)
    PROVE  RequestInv'
<1> USE DEF RequestInv
<1>1. PICK q : q = request[c]
  OBVIOUS
<1>2. /\ Running(c) /\ q \in Req /\ Fits(q) /\ q.pc \in DOMAIN Does[q.op] /\ Asked(q)
      /\ Does[q.op][q.pc] = "update" /\ q.n \in Keys
  BY <1>1, AtStep DEF UpdateCustomer
<1>3. q.op = "update_customer" /\ q.pc = 2
  BY <1>2, Places
<1>4. q.customer \in Keys /\ q.loaded \in Customer
  BY <1>2, <1>3 DEF Asked, Fits, Placed
<1>5. CASE \E answer : Answer(c, answer)
  BY <1>2, <1>5, Answers
<1>6. CASE ~ \E answer : Answer(c, answer)
  <2>1. PICK row : row = customers[q.customer]
    OBVIOUS
  <2> DEFINE Field(f) == IF Put(q[f], q.loaded[f]) = q.loaded[f] THEN row[f] ELSE q[f]
  <2>2. /\ row # None
        /\ customers' = [customers EXCEPT ![q.customer] =
                           [email |-> Field("email"), phone |-> Field("phone")]]
        /\ Committed(c, "ok", TRUE, FALSE)
        /\ UNCHANGED <<rows, events, prefs, fate, begun, situation>>
    BY <1>1, <1>6, <2>1 DEF UpdateCustomer
  <2>3. row \in Customer
    BY <1>4, <2>1, <2>2 DEF StoreOK
  <2>4. Field("email") \in Emails \cup {None} /\ Field("phone") \in Phones \cup {None}
    BY <1>2, <1>4, <2>3 DEF Put, Asked, Customer
  <2>5. PICK e, p : e = Field("email") /\ p = Field("phone")
    OBVIOUS
  <2> HIDE DEF Field
  <2>6. [email |-> e, phone |-> p] \in Customer
    BY <2>4, <2>5 DEF Customer
  <2>7. customers' = [customers EXCEPT ![q.customer] = [email |-> e, phone |-> p]]
    BY <2>2, <2>5
  <2>8. customers' \in [Keys -> Customer \cup {None}]
    BY <2>6, <2>7 DEF StoreOK
  <2>9. Steady(q.n, TRUE, FALSE)
    BY <1>4, <2>1, <2>2, <2>7 DEF Steady, StoreOK
  <2>10. Stored'
    BY <2>2 DEF Stored, Due
  <2> QED  BY <1>1, <1>2, <2>2, <2>8, <2>9, <2>10, CommittedFits DEF StoreOK
<1> QED  BY <1>5, <1>6

LEMMA DeleteCustomerFits ==
    ASSUME RequestInv, NEW c \in Clients, DeleteCustomer(c)
    PROVE  RequestInv'
<1> USE DEF RequestInv
<1>1. PICK q : q = request[c]
  OBVIOUS
<1>2. /\ Running(c) /\ q \in Req /\ Fits(q) /\ q.pc \in DOMAIN Does[q.op] /\ Asked(q)
      /\ Does[q.op][q.pc] = "delete"
  BY <1>1, AtStep DEF DeleteCustomer
<1>3. PICK k : k = q.customer
  OBVIOUS
<1>4. k \in Keys
  BY <1>2, <1>3, Places DEF Asked
<1>5. CASE customers[k] = None
  BY <1>1, <1>2, <1>3, <1>5, Answers DEF DeleteCustomer
<1>6. CASE customers[k] # None
  <2>1. /\ customers' = [customers EXCEPT ![k] = None] /\ Committed(c, "ok", TRUE, FALSE)
        /\ rows' = [n \in Ids |-> IF rows[n] # None /\ rows[n].link = k
                                  THEN [rows[n] EXCEPT !.link = None] ELSE rows[n]]
        /\ UNCHANGED <<events, prefs, fate, begun, situation>>
    BY <1>1, <1>3, <1>6 DEF DeleteCustomer
  <2>2. customers' \in [Keys -> Customer \cup {None}]
    BY <2>1 DEF StoreOK
  <2>3. ASSUME NEW n \in Ids
        PROVE  /\ rows'[n] \in Row \cup {None} /\ (rows'[n] = None <=> rows[n] = None)
               /\ rows[n] # None => /\ rows'[n].kind = rows[n].kind
                                    /\ rows'[n].email = rows[n].email
                                    /\ rows'[n].visit = rows[n].visit
                                    /\ rows'[n].receipt = rows[n].receipt
    <3>1. PICK r : r = rows[n]
      OBVIOUS
    <3>2. r \in Row \cup {None}
      BY <3>1 DEF StoreOK
    <3>3. rows'[n] = r \/ (r # None /\ rows'[n] = [r EXCEPT !.link = None])
      BY <2>1, <3>1
    <3>4. r # None => [r EXCEPT !.link = None] \in Row
      BY <3>2 DEF Row
    <3>5. r # None => [r EXCEPT !.link = None] # None
      BY <3>4, SubmissionConstants
    <3>6. r # None => LET s == [r EXCEPT !.link = None] IN
                      /\ s.kind = r.kind /\ s.email = r.email
                      /\ s.visit = r.visit /\ s.receipt = r.receipt
      BY <3>2 DEF Row
    <3> QED  BY <3>1, <3>2, <3>3, <3>4, <3>5, <3>6
  <2>4. rows' \in [Ids -> Row \cup {None}]
    BY <2>1, <2>3
  <2>5. Steady(q.n, TRUE, FALSE)
    BY <1>4, <1>6, <2>1, <2>3 DEF Steady, StoreOK
  <2>6. Stored'
    <3>1. {n \in Ids : rows'[n] # None /\ rows'[n].visit}
            = {n \in Ids : rows[n] # None /\ rows[n].visit}
      BY <2>3
    <3>2. ASSUME NEW t \in Tasks, t \in Due(t[2]) PROVE t \in Due(t[2])'
      <4>1. t[2] \in Ids
        BY DEF Tasks
      <4> QED  BY <2>3, <3>2, <4>1 DEF Due
    <3> QED  BY <2>1, <3>1, <3>2 DEF Stored
  <2> QED  BY <1>1, <1>2, <2>1, <2>2, <2>4, <2>5, <2>6, CommittedFits DEF StoreOK
<1> QED  BY <1>5, <1>6

LEMMA StoreFits ==
    ASSUME RequestInv, NEW c \in Clients, Running(c), NEW row \in Prefs, Store(c, row)
    PROVE  RequestInv'
<1> USE DEF RequestInv
<1>1. /\ prefs' = row /\ Committed(c, "ok", FALSE, TRUE)
      /\ UNCHANGED <<customers, rows, events, fate, begun, situation>>
  BY DEF Store
<1>2. row # None
  BY SubmissionConstants
<1>3. Steady(request[c].n, FALSE, TRUE)
  BY <1>1, <1>2 DEF Steady
<1>4. Stored'
  BY <1>1 DEF Stored, Due
<1> QED  BY <1>1, <1>3, <1>4, CommittedFits DEF StoreOK

LEMMA CreateDefaultFits ==
    ASSUME RequestInv, NEW c \in Clients, CreateDefault(c)
    PROVE  RequestInv'
<1>1. Running(c)
  BY DEF CreateDefault, At
<1>2. Default \in Prefs
  BY DEF Default, Prefs
<1>3. Store(c, Default) \/ \E answer : Answer(c, answer)
  BY DEF CreateDefault, InsertPreferences
<1> QED  BY <1>1, <1>2, <1>3, StoreFits, Answers

\* What a body leaves the settings at.
LEMMA PutIn ==
    ASSUME NEW body \in Settable, NEW old \in Prefs, NEW row \in Prefs
    PROVE  Puts(body, old, row) \in Prefs
BY DEF Puts, Put, Settable, Prefs

LEMMA CheckAndSaveFits ==
    ASSUME RequestInv, NEW c \in Clients, CheckAndSave(c)
    PROVE  RequestInv'
<1> USE DEF RequestInv
<1>1. PICK q : q = request[c]
  OBVIOUS
<1>2. /\ Running(c) /\ q \in Req /\ Fits(q) /\ q.pc \in DOMAIN Does[q.op]
      /\ Does[q.op][q.pc] = "check and save" /\ q.body \in Settable
  <2>1. At(c, "check and save")
    BY DEF CheckAndSave
  <2>2. /\ Running(c) /\ q \in Req /\ Fits(q) /\ Asked(q)
        /\ q.pc \in DOMAIN Does[q.op] /\ Does[q.op][q.pc] = "check and save"
    BY <1>1, <2>1, AtStep
  <2> QED  BY <2>2 DEF Asked
<1>3. q.op = "put_preferences" /\ q.pc = 2
  BY <1>2, Places
<1>4. /\ q.loaded \in Prefs \cup {None}
      /\ q.loaded # None => prefs # None
  BY <1>2, <1>3 DEF Fits, Read
<1>5. CASE \E answer : Answer(c, answer)
  BY <1>2, <1>5, Answers
<1>6. CASE ~ (\E answer : Answer(c, answer)) /\ q.loaded = None
  <2>1. PICK row : row = [f \in DOMAIN Default |-> Put(q.body[f], Default[f])]
    OBVIOUS
  <2>2. Store(c, row)
    BY <1>1, <1>6, <2>1 DEF CheckAndSave, InsertPreferences, NeedsTheChat
  <2>3. row = [email |-> Put(q.body.email, FALSE), telegram |-> Put(q.body.telegram, FALSE),
               chat |-> Put(q.body.chat, None)]
    BY <2>1 DEF Default
  <2>4. row \in Prefs
    BY <1>2, <2>3 DEF Put, Settable, Prefs
  <2> QED  BY <1>2, <2>2, <2>4, StoreFits
<1>7. CASE ~ (\E answer : Answer(c, answer)) /\ q.loaded # None
  <2>1. Store(c, Puts(q.body, q.loaded, prefs))
    BY <1>1, <1>7 DEF CheckAndSave
  <2>2. Puts(q.body, q.loaded, prefs) \in Prefs
    BY <1>2, <1>4, <1>7, PutIn DEF StoreOK
  <2> QED  BY <1>2, <2>1, <2>2, StoreFits
<1> QED  BY <1>5, <1>6, <1>7

-----------------------------------------------------------------------------
(* The workers.                                                              *)

Heard == {<<>>, <<"email">>, <<"chat">>, Append(<<"email">>, "chat")}
Job == [task : Tasks, prefs : Prefs \cup {None}, pc : {"preferences", "email", "telegram"}]

\* A worker's task was taken off the queue, and no message went out that is
\* still to be sent.
JobFits(x) ==
    /\ x \in Job /\ fate[x.task] = "taken"
    /\ x.pc # "telegram" => sent[x.task] = <<>>
    /\ x.pc = "telegram" => sent[x.task] \in {<<>>, <<"email">>} /\ x.prefs # None
    /\ x.pc = "email" /\ x.task[1] = "notice" => x.prefs # None

WorkInv ==
    /\ DOMAIN worker = Workers /\ sent \in [Tasks -> Heard]
    /\ \A w \in Workers : worker[w] # None => JobFits(worker[w])
    /\ \A v, w \in Workers : worker[v] # None /\ worker[w] # None /\ v # w =>
         worker[v].task # worker[w].task
    /\ \A t \in Tasks : fate[t] \in {"none", "queued"} => sent[t] = <<>>

\* Steps of the workers leave what requests rely on: whether a task was enqueued.
LEMMA RequestsIgnoreWork ==
    ASSUME RequestInv, UNCHANGED <<customers, rows, events, prefs, request, begun, situation>>,
           fate' \in [Tasks -> Fate], \A t \in Tasks : fate'[t] = "none" <=> fate[t] = "none"
    PROVE  RequestInv'
<1> USE DEF RequestInv
<1>1. StoreOK' /\ Stored'
  BY DEF StoreOK, Stored, Due
<1>2. Apart' /\ NotYet'
  BY DEF Apart, NotYet, Running
<1>3. ASSUME NEW c \in Clients, Running(c)' PROVE Fits(request[c])'
  <2>1. PICK q : q = request[c]
    OBVIOUS
  <2>2. Running(c) /\ q \in Req /\ Fits(q) /\ q.n \in Ids /\ q = request'[c]
    BY <1>3, <2>1, RunningFits DEF Running
  <2>3. Placed(q)' /\ Clean(q)' /\ Read(q)'
    BY <2>2 DEF Fits, Placed, Asked, Clean, Read, Matches, Holding, HasKey
  <2>4. New(q)'
    <3>1. \A x \in {"notice", "receipt"} : <<x, q.n>> \in Tasks
      BY <2>2 DEF Tasks
    <3> QED  BY <2>2, <3>1 DEF Fits, New, Unsaved
  <2>5. Fits(q)'
    BY <2>3, <2>4 DEF Fits
  <2> QED  BY <2>2, <2>5, FitsNext
<1> QED  BY <1>1, <1>2, <1>3 DEF RequestsFit

\* Steps of the requests change the fate of a task that was not enqueued yet.
LEMMA WorkIgnoresRequests ==
    ASSUME WorkInv, UNCHANGED <<worker, sent>>,
           \A t \in Tasks : fate'[t] # fate[t] => fate[t] = "none"
    PROVE  WorkInv'
<1>1. \A t \in Tasks : fate'[t] \in {"none", "queued"} => sent[t] = <<>>
  BY DEF WorkInv
<1>2. ASSUME NEW w \in Workers, worker[w] # None PROVE JobFits(worker[w])'
  <2>1. JobFits(worker[w]) /\ worker[w].task \in Tasks
    BY <1>2 DEF WorkInv, JobFits, Job
  <2> QED  BY <2>1 DEF JobFits
<1> QED  BY <1>1, <1>2 DEF WorkInv

\* A worker ends its task.
LEMMA EndsFits ==
    ASSUME RequestInv, WorkInv, NEW w \in Workers, worker[w] # None, Ends(w),
           UNCHANGED <<customers, rows, events, prefs, request, begun, situation>>,
           sent' \in [Tasks -> Heard], \A t \in Tasks \ {worker[w].task} : sent'[t] = sent[t]
    PROVE  RequestInv' /\ WorkInv'
<1>1. PICK t : t = worker[w].task
  OBVIOUS
<1>2. t \in Tasks /\ fate[t] = "taken"
  BY <1>1 DEF WorkInv, JobFits, Job
<1>3. fate' = [fate EXCEPT ![t] = "ended"] /\ worker' = [worker EXCEPT ![w] = None]
  BY <1>1 DEF Ends
<1>4. fate \in [Tasks -> Fate]
  BY DEF RequestInv, StoreOK
<1>5. /\ fate' \in [Tasks -> Fate] /\ fate'[t] = "ended"
      /\ \A u \in Tasks \ {t} : fate'[u] = fate[u]
  BY <1>2, <1>3, <1>4 DEF Fate
<1>6. RequestInv'
  BY <1>2, <1>5, RequestsIgnoreWork
<1>7. ASSUME NEW v \in Workers, worker'[v] # None
      PROVE  v # w /\ worker'[v] = worker[v] /\ JobFits(worker[v])'
  <2>1. v # w /\ worker'[v] = worker[v]
    BY <1>3, <1>7 DEF WorkInv
  <2>2. JobFits(worker[v]) /\ worker[v].task # t /\ worker[v].task \in Tasks
    BY <1>1, <1>7, <2>1 DEF WorkInv, JobFits, Job
  <2> QED  BY <1>1, <1>5, <2>1, <2>2 DEF JobFits
<1>8. WorkInv'
  BY <1>1, <1>3, <1>5, <1>7 DEF WorkInv
<1> QED  BY <1>6, <1>8

\* A worker goes on with its task.
LEMMA WorksOn ==
    ASSUME RequestInv, WorkInv, NEW w \in Workers, worker[w] # None, NEW x,
           worker' = [worker EXCEPT ![w] = x], x \in Job, x.task = worker[w].task,
           UNCHANGED <<customers, rows, events, prefs, fate, request, begun, situation>>,
           sent' \in [Tasks -> Heard], \A t \in Tasks \ {x.task} : sent'[t] = sent[t],
           JobFits(x)'
    PROVE  RequestInv' /\ WorkInv'
<1>1. x.task \in Tasks /\ fate[x.task] = "taken"
  BY DEF WorkInv, JobFits, Job
<1>2. RequestInv'
  <2>1. fate' \in [Tasks -> Fate]
    BY DEF RequestInv, StoreOK
  <2> QED  BY <2>1, RequestsIgnoreWork
<1>3. /\ worker'[w] = x /\ DOMAIN worker' = Workers
      /\ \A v \in Workers \ {w} : worker'[v] = worker[v]
  BY DEF WorkInv
<1>4. ASSUME NEW v \in Workers \ {w}, worker[v] # None
      PROVE  JobFits(worker[v])' /\ worker[v].task # x.task
  <2>1. JobFits(worker[v]) /\ worker[v].task # x.task /\ worker[v].task \in Tasks
    BY <1>4 DEF WorkInv, JobFits, Job
  <2>2. worker'[v] = worker[v]
    BY <1>3
  <2> QED  BY <2>1, <2>2 DEF JobFits
<1>5. ASSUME NEW v \in Workers, worker'[v] # None PROVE JobFits(worker[v])'
  <2>1. CASE v = w
    BY <1>3, <2>1 DEF JobFits
  <2>2. CASE v # w
    BY <1>3, <1>4, <1>5, <2>2
  <2> QED  BY <2>1, <2>2
<1>6. ASSUME NEW u \in Workers, NEW v \in Workers, worker'[u] # None, worker'[v] # None, u # v
      PROVE  worker'[u].task # worker'[v].task
  BY <1>3, <1>4, <1>6 DEF WorkInv
<1>7. \A t \in Tasks : fate'[t] \in {"none", "queued"} => sent'[t] = <<>>
  BY <1>1 DEF WorkInv
<1> QED  BY <1>2, <1>3, <1>5, <1>6, <1>7 DEF WorkInv

LEMMA TakeFits ==
    ASSUME RequestInv, WorkInv, NEW w \in Workers, Take(w)
    PROVE  RequestInv' /\ WorkInv'
<1>1. PICK t \in Tasks :
        /\ fate[t] = "queued" /\ fate' = [fate EXCEPT ![t] = "taken"]
        /\ worker' = [worker EXCEPT ![w] =
             [task |-> t, prefs |-> None,
              pc |-> IF t[1] = "notice" THEN "preferences" ELSE "email"]]
  BY DEF Take
<1>2. UNCHANGED <<customers, rows, events, prefs, sent, request, begun, situation>>
  BY DEF Take
<1>3. PICK x : x = [task |-> t, prefs |-> None,
                    pc |-> IF t[1] = "notice" THEN "preferences" ELSE "email"]
  OBVIOUS
<1>4. fate \in [Tasks -> Fate]
  BY DEF RequestInv, StoreOK
<1>5. /\ fate' \in [Tasks -> Fate] /\ fate'[t] = "taken"
      /\ \A u \in Tasks \ {t} : fate'[u] = fate[u]
  BY <1>1, <1>4 DEF Fate
<1>6. RequestInv'
  BY <1>1, <1>2, <1>5, RequestsIgnoreWork
<1>7. x \in Job /\ x.task = t /\ x.pc # "telegram" /\ (x.pc = "email" => t[1] # "notice")
  BY <1>3 DEF Job
<1>8. /\ worker'[w] = x /\ DOMAIN worker' = Workers
      /\ \A v \in Workers \ {w} : worker'[v] = worker[v]
  BY <1>1, <1>3 DEF WorkInv
<1>9. JobFits(x)'
  <2>1. sent'[t] = <<>>
    BY <1>1, <1>2 DEF WorkInv
  <2> QED  BY <1>5, <1>7, <2>1 DEF JobFits
<1>10. ASSUME NEW v \in Workers \ {w}, worker[v] # None
       PROVE  JobFits(worker[v])' /\ worker[v].task # t
  <2>1. JobFits(worker[v]) /\ worker[v].task # t /\ worker[v].task \in Tasks
    BY <1>1, <1>10 DEF WorkInv, JobFits, Job
  <2>2. worker'[v] = worker[v]
    BY <1>8
  <2> QED  BY <1>2, <1>5, <2>1, <2>2 DEF JobFits
<1>11. ASSUME NEW v \in Workers, worker'[v] # None PROVE JobFits(worker[v])'
  <2>1. CASE v = w
    BY <1>8, <1>9, <2>1 DEF JobFits
  <2>2. CASE v # w
    BY <1>8, <1>10, <1>11, <2>2
  <2> QED  BY <2>1, <2>2
<1>12. ASSUME NEW u \in Workers, NEW v \in Workers, worker'[u] # None, worker'[v] # None, u # v
       PROVE  worker'[u].task # worker'[v].task
  BY <1>7, <1>8, <1>10, <1>12 DEF WorkInv
<1>13. \A u \in Tasks : fate'[u] \in {"none", "queued"} => sent'[u] = <<>>
  BY <1>2, <1>5 DEF WorkInv
<1> QED  BY <1>2, <1>6, <1>8, <1>11, <1>12, <1>13 DEF WorkInv

LEMMA ReadPreferencesFits ==
    ASSUME RequestInv, WorkInv, NEW w \in Workers, ReadPreferences(w)
    PROVE  RequestInv' /\ WorkInv'
<1>1. /\ worker[w] # None /\ worker[w].pc = "preferences"
      /\ UNCHANGED <<customers, rows, events, prefs, sent, request, begun, situation>>
  BY DEF ReadPreferences, Busy
<1>2. sent' \in [Tasks -> Heard] /\ \A t \in Tasks : sent'[t] = sent[t]
  BY <1>1 DEF WorkInv
<1>3. CASE Ends(w)
  BY <1>1, <1>2, <1>3, EndsFits
<1>4. CASE ~ Ends(w)
  <2>1. PICK x : x = [worker[w] EXCEPT !.prefs = prefs, !.pc = "email"]
    OBVIOUS
  <2>2. worker' = [worker EXCEPT ![w] = x] /\ prefs # None /\ UNCHANGED fate
    BY <1>4, <2>1 DEF ReadPreferences
  <2>3. JobFits(worker[w]) /\ prefs \in Prefs \cup {None}
    BY <1>1 DEF WorkInv, RequestInv, StoreOK
  <2>4. x \in Job /\ x.task = worker[w].task /\ x.pc = "email" /\ x.prefs = prefs
    BY <2>1, <2>3 DEF JobFits, Job
  <2>5. JobFits(x)'
    BY <1>1, <2>2, <2>3, <2>4 DEF JobFits
  <2> QED  BY <1>1, <1>2, <2>2, <2>4, <2>5, WorksOn
<1> QED  BY <1>3, <1>4

LEMMA SendEmailFits ==
    ASSUME RequestInv, WorkInv, NEW w \in Workers, SendEmail(w)
    PROVE  RequestInv' /\ WorkInv'
<1>1. PICK x : x = worker[w]
  OBVIOUS
<1>2. /\ x # None /\ x.pc = "email"
      /\ UNCHANGED <<customers, rows, events, prefs, request, begun, situation>>
  BY <1>1 DEF SendEmail, Busy
<1>3. JobFits(x) /\ x \in Job /\ x.task \in Tasks /\ sent[x.task] = <<>>
  BY <1>1, <1>2 DEF WorkInv, JobFits, Job
<1>4. sent' = sent \/ sent' = [sent EXCEPT ![x.task] = Append(@, "email")]
  BY <1>1 DEF SendEmail
<1>5. /\ sent' \in [Tasks -> Heard] /\ sent'[x.task] \in {<<>>, <<"email">>}
      /\ \A t \in Tasks \ {x.task} : sent'[t] = sent[t]
  <2>1. Append(<<>>, "email") = <<"email">>
    OBVIOUS
  <2>2. sent' = sent \/ sent' = [sent EXCEPT ![x.task] = <<"email">>]
    BY <1>3, <1>4, <2>1
  <2>3. sent \in [Tasks -> Heard]
    BY DEF WorkInv
  <2> QED  BY <1>3, <2>2, <2>3 DEF Heard
<1>6. Ends(w) \/ (x.task[1] # "receipt" /\ Continues(w, "telegram"))
  BY <1>1 DEF SendEmail
<1>7. CASE Ends(w)
  BY <1>1, <1>2, <1>5, <1>7, EndsFits
<1>8. CASE x.task[1] # "receipt" /\ Continues(w, "telegram")
  <2>1. PICK y : y = [x EXCEPT !.pc = "telegram"]
    OBVIOUS
  <2>2. worker' = [worker EXCEPT ![w] = y] /\ UNCHANGED fate
    BY <1>1, <1>8, <2>1 DEF Continues
  <2>3. y \in Job /\ y.task = x.task /\ y.pc = "telegram" /\ y.prefs = x.prefs
    BY <1>3, <2>1 DEF Job
  <2>4. x.task[1] = "notice"
    BY <1>3, <1>8 DEF Tasks
  <2>5. JobFits(y)'
    BY <1>2, <1>3, <1>5, <2>2, <2>3, <2>4 DEF JobFits
  <2> QED  BY <1>1, <1>2, <1>5, <2>2, <2>3, <2>5, WorksOn
<1> QED  BY <1>6, <1>7, <1>8

LEMMA SendTelegramFits ==
    ASSUME RequestInv, WorkInv, NEW w \in Workers, SendTelegram(w)
    PROVE  RequestInv' /\ WorkInv'
<1>1. PICK x : x = worker[w]
  OBVIOUS
<1>2. /\ x # None /\ x.pc = "telegram" /\ Ends(w)
      /\ UNCHANGED <<customers, rows, events, prefs, request, begun, situation>>
  BY <1>1 DEF SendTelegram, Busy
<1>3. /\ x.task \in Tasks /\ sent[x.task] \in {<<>>, <<"email">>} /\ x.prefs \in Prefs
  BY <1>1, <1>2 DEF WorkInv, JobFits, Job
<1>4. \/ sent' = sent
      \/ x.prefs.chat # None /\ sent' = [sent EXCEPT ![x.task] = Append(@, x.prefs.chat)]
  BY <1>1 DEF SendTelegram
<1>5. /\ sent' \in [Tasks -> Heard] /\ \A t \in Tasks \ {x.task} : sent'[t] = sent[t]
  <2>1. Append(<<>>, "chat") = <<"chat">>
    OBVIOUS
  <2>2. x.prefs.chat # None => x.prefs.chat = "chat"
    BY <1>3 DEF Prefs
  <2>3. sent \in [Tasks -> Heard]
    BY DEF WorkInv
  <2>4. PICK m : m = Append(sent[x.task], "chat")
    OBVIOUS
  <2>5. m \in Heard
    BY <1>3, <2>1, <2>4 DEF Heard
  <2>6. sent' = sent \/ sent' = [sent EXCEPT ![x.task] = m]
    BY <1>4, <2>2, <2>4
  <2> QED  BY <1>3, <2>3, <2>5, <2>6
<1> QED  BY <1>1, <1>2, <1>5, EndsFits

LEMMA WorkerStopsFits ==
    ASSUME RequestInv, WorkInv, NEW w \in Workers, WorkerStops(w)
    PROVE  RequestInv' /\ WorkInv'
<1>1. /\ worker[w] # None /\ Ends(w) /\ sent' = sent
      /\ UNCHANGED <<customers, rows, events, prefs, request, begun, situation>>
  BY DEF WorkerStops
<1>2. sent' \in [Tasks -> Heard] /\ \A t \in Tasks : sent'[t] = sent[t]
  BY <1>1 DEF WorkInv
<1> QED  BY <1>1, <1>2, EndsFits

-----------------------------------------------------------------------------
(* The invariant.                                                            *)

SubmissionsInv == RequestInv /\ WorkInv

LEMMA BeginFits ==
    ASSUME RequestInv, NEW c \in Clients, Begin(c)
    PROVE  RequestInv'
<1> USE DEF RequestInv
<1>1. /\ ~ Running(c) /\ begun < MaxRequests /\ begun' = begun + 1
      /\ UNCHANGED <<customers, rows, events, prefs, fate, situation>>
  BY DEF Begin
<1>2. PICK held : held = {customers[k].email : k \in {k \in DOMAIN customers : customers[k] # None}}
  OBVIOUS
<1>3. PICK a \in situation.asked :
        request' = [request EXCEPT ![c] =
            [op |-> a.op, customer |-> a.customer, email |-> a.email, phone |-> a.phone,
             visit |-> a.visit, receipt |-> a.receipt, body |-> a.body, n |-> begun + 1,
             pc |-> 1, loaded |-> None, link |-> None, status |-> "running",
             held |-> held, touched |-> FALSE, stale |-> FALSE]]
  BY <1>2 DEF Begin
<1>4. PICK x : x = [op |-> a.op, customer |-> a.customer, email |-> a.email, phone |-> a.phone,
                    visit |-> a.visit, receipt |-> a.receipt, body |-> a.body, n |-> begun + 1,
                    pc |-> 1, loaded |-> None, link |-> None, status |-> "running",
                    held |-> held, touched |-> FALSE, stale |-> FALSE]
  OBVIOUS
<1>5. request' = [request EXCEPT ![c] = x]
  BY <1>3, <1>4
<1>6. Asked(a)
  BY SubmissionConstants DEF StoreOK
<1>7. begun \in Nat /\ begun + 1 \in Ids /\ begun + 1 > begun /\ begun' \in Keys
  BY <1>1, SubmissionConstants DEF StoreOK, Keys, Ids
<1>8. held \in SUBSET (Emails \cup {None})
      /\ \A e \in held : \E k \in Keys : customers[k] # None /\ customers[k].email = e
  BY <1>2 DEF StoreOK, Customer
<1>9. /\ x \in Req /\ x.n = begun + 1 /\ x.pc = 1 /\ x.link = None /\ x.loaded = None
      /\ x.op = a.op /\ x.held = held
  <2>1. x \in Req
    BY <1>4, <1>6, <1>7, <1>8 DEF Asked, Req
  <2> QED  BY <1>4, <2>1
<1>10. Asked(x)
  BY <1>4, <1>6 DEF Asked
<1>11. rows[x.n] = None /\ customers[x.n] = None
  BY <1>7, <1>9 DEF NotYet
<1>12. Fits(x)'
  <2>1. Placed(x)'
    <3>1. 1 \in DOMAIN Does[a.op]
      <4>1. 1 \in 1..1 /\ 1 \in 1..2 /\ 1 \in 1..7 /\ 1 \in 1..8
        OBVIOUS
      <4>2. \/ DOMAIN Does[a.op] = 1..1
            \/ DOMAIN Does[a.op] = 1..2
            \/ DOMAIN Does[a.op] = 1..7
            \/ DOMAIN Does[a.op] = 1..8
        <5>1. a.op \in {"order", "donation", "pledge", "create_customer", "update_customer",
                       "delete_customer", "get_preferences", "put_preferences"}
          BY <1>6, Scripts DEF Asked
        <5>2. DOMAIN Does["order"] = 1..7 /\ DOMAIN Does["donation"] = 1..8
          BY Scripts
        <5>3. DOMAIN Does["pledge"] = 1..1 /\ DOMAIN Does["create_customer"] = 1..1
          BY Scripts
        <5>4. DOMAIN Does["update_customer"] = 1..2 /\ DOMAIN Does["delete_customer"] = 1..2
          BY Scripts
        <5>5. DOMAIN Does["get_preferences"] = 1..2 /\ DOMAIN Does["put_preferences"] = 1..2
          BY Scripts
        <5> QED  BY <5>1, <5>2, <5>3, <5>4, <5>5
      <4> QED  BY <4>1, <4>2
    <3>2. x.n <= begun' /\ x.pc # 2
      BY <1>1, <1>7, <1>9
    <3> QED  BY <1>9, <1>10, <3>1, <3>2 DEF Placed, Asked
  <2>2. New(x)'
    <3>1. x.pc # 7 /\ x.pc # 8
      BY <1>9
    <3> QED  BY <1>1, <1>11, <3>1 DEF New, Unsaved
  <2>3. Clean(x)'
    <3>1. x.pc # 2 /\ x.pc \notin 2..5 /\ x.pc # 4 /\ x.pc # 5 /\ x.pc # 6
      BY <1>9
    <3> QED  BY <1>1, <1>8, <1>9, <3>1 DEF Clean
  <2>4. Read(x)'
    <3>1. x.pc # 2
      BY <1>9
    <3> QED  BY <3>1 DEF Read
  <2> QED  BY <2>1, <2>2, <2>3, <2>4 DEF Fits
<1>13. StoreOK'
  BY <1>1, <1>5, <1>7, <1>9 DEF StoreOK
<1>14. /\ request'[c] = x
       /\ \A d \in Clients \ {c} : request'[d] = request[d] /\ (Running(d)' <=> Running(d))
  BY <1>5 DEF StoreOK, Running
<1>15. ASSUME NEW d \in Clients, Running(d)' PROVE Fits(request[d])'
  <2>1. CASE d = c
    BY <1>12, <1>14, <2>1, FitsNext
  <2>2. CASE d # c
    <3>1. PICK q : q = request[d]
      OBVIOUS
    <3>2. Running(d) /\ q \in Req /\ Fits(q) /\ q = request'[d]
      BY <1>14, <1>15, <2>2, <3>1, RunningFits
    <3>3. Placed(q)'
      <4>1. q.n <= begun'
        BY <1>1, <1>7, <3>2, SubmissionConstants DEF Fits, Placed, Req, Ids
      <4> QED  BY <3>2, <4>1 DEF Fits, Placed, Asked
    <3>4. New(q)' /\ Clean(q)' /\ Read(q)'
      BY <1>1, <3>2 DEF Fits, New, Unsaved, Clean, Read, Matches, Holding, HasKey
    <3>5. Fits(q)'
      BY <3>3, <3>4 DEF Fits
    <3> QED  BY <3>2, <3>5, FitsNext
  <2> QED  BY <2>1, <2>2
<1>16. Apart'
  <2>1. ASSUME NEW d \in Clients \ {c}, Running(d) PROVE request[d].n # x.n
    <3>1. PICK q : q = request[d]
      OBVIOUS
    <3>2. q \in Req /\ q.n <= begun /\ q.n \in Ids
      BY <2>1, <3>1, RunningFits DEF Fits, Placed
    <3>3. q.n \in Nat
      BY <3>2, SubmissionConstants
    <3> QED  BY <1>7, <1>9, <3>1, <3>2, <3>3
  <2> QED  BY <1>14, <2>1 DEF Apart
<1>17. NotYet'
  <2>1. ASSUME NEW n \in Ids, n > begun' PROVE n > begun
    BY <1>1, <1>7, <2>1, SubmissionConstants
  <2> QED  BY <1>1, <2>1 DEF NotYet
<1>18. Stored'
  BY <1>1 DEF Stored, Due
<1> QED  BY <1>13, <1>15, <1>16, <1>17, <1>18 DEF RequestsFit

\* Requests enqueue a task once.
LEMMA RequestsLeaveWork ==
    ASSUME RequestInv, NEW c \in Clients, Begin(c) \/ Serve(c) \/ Crash(c)
    PROVE  /\ UNCHANGED <<worker, sent>>
           /\ \A t \in Tasks : fate'[t] # fate[t] => fate[t] = "none"
<1>1. CASE fate' = fate /\ UNCHANGED <<worker, sent>>
  BY <1>1
<1>2. ASSUME NEW name, NEW step, Delay(c, step, name), NEW q, q = request[c],
             <<name, q.n>> \in Tasks => fate[<<name, q.n>>] = "none"
      PROVE  /\ UNCHANGED <<worker, sent>>
             /\ \A t \in Tasks : fate'[t] # fate[t] => fate[t] = "none"
  <2>1. PICK t : t = <<name, q.n>>
    OBVIOUS
  <2>2. fate' = fate \/ \E end : fate' = [fate EXCEPT ![t] = end]
    BY <1>2, <2>1 DEF Delay
  <2>3. fate \in [Tasks -> Fate]
    BY DEF RequestInv, StoreOK
  <2>4. UNCHANGED <<worker, sent>>
    BY <1>2 DEF Delay
  <2> QED  BY <1>2, <2>1, <2>2, <2>3, <2>4
<1>3. CASE Enqueue(c)
  <2>1. PICK q : q = request[c]
    OBVIOUS
  <2>2. Delay(c, "enqueue", "notice") /\ At(c, "enqueue")
    BY <1>3 DEF Enqueue, Delay
  <2>3. q \in Req /\ Fits(q) /\ q.pc \in DOMAIN Does[q.op] /\ Does[q.op][q.pc] = "enqueue"
    BY <2>1, <2>2, AtStep
  <2>4. q.op \in Visitors /\ q.pc = 7
    BY <2>3, Places
  <2>5. fate[<<"notice", q.n>>] = "none"
    BY <2>3, <2>4 DEF Fits, New
  <2> QED  BY <1>2, <2>1, <2>2, <2>5
<1>4. CASE EnqueueReceipt(c)
  <2>1. PICK q : q = request[c]
    OBVIOUS
  <2>2. Delay(c, "enqueue receipt", "receipt") /\ At(c, "enqueue receipt")
    BY <1>4 DEF EnqueueReceipt, Delay
  <2>3. /\ q \in Req /\ Fits(q) /\ q.pc \in DOMAIN Does[q.op]
        /\ Does[q.op][q.pc] = "enqueue receipt"
    BY <2>1, <2>2, AtStep
  <2>4. q.op \in Visitors /\ q.pc = 8
    BY <2>3, Places DEF Visitors
  <2>5. fate[<<"receipt", q.n>>] = "none"
    BY <2>3, <2>4 DEF Fits, New
  <2> QED  BY <1>2, <2>1, <2>2, <2>5
<1>5. CASE Crash(c)
  <2>1. fate \in [Tasks -> Fate]
    BY DEF RequestInv, StoreOK
  <2> QED  BY <1>5, <2>1 DEF Crash
<1>6. CASE Begin(c)
  BY <1>6 DEF Begin
<1>7. CASE FindByEmail(c) \/ FindByPhone(c)
  BY <1>7 DEF FindByEmail, FindByPhone, FindBy, GoTo, Answer
<1>8. CASE Insert(c) \/ Save(c)
  <2>1. CASE Insert(c)
    <3>1. GoTo(c, request[c], 6) \/ GoTo(c, request[c], 4) \/ Saved(c, request[c], request[c].n)
      <4>1. \/ request[c].email = None /\ request[c].phone = None
            \/ Taken(request[c].email, request[c].phone, None) # {}
            \/ ~ (\/ request[c].email = None /\ request[c].phone = None
                  \/ Taken(request[c].email, request[c].phone, None) # {})
        OBVIOUS
      <4> QED  BY <2>1, <4>1 DEF Insert
    <3> QED  BY <3>1 DEF GoTo, Saved
  <2>2. CASE Save(c)
    BY <2>2 DEF Save, Answer, Saved
  <2> QED  BY <1>8, <2>1, <2>2
<1>9. CASE CreateCustomer(c) \/ LoadCustomer(c) \/ UpdateCustomer(c) \/ DeleteCustomer(c)
  BY <1>9 DEF CreateCustomer, LoadCustomer, UpdateCustomer, DeleteCustomer, GoTo, Answer
<1>10. CASE LoadPreferences(c) \/ CreateDefault(c) \/ CheckAndSave(c)
  BY <1>10 DEF LoadPreferences, CreateDefault, CheckAndSave, InsertPreferences, Store, GoTo, Answer
<1> QED  BY <1>3, <1>4, <1>5, <1>6, <1>7, <1>8, <1>9, <1>10 DEF Serve

LEMMA SubmissionsStart == SubmissionsInit => SubmissionsInv
<1> SUFFICES ASSUME SubmissionsInit PROVE SubmissionsInv
  OBVIOUS
<1>1. /\ situation \in Situations /\ rows = [n \in Ids |-> None] /\ events = {}
      /\ prefs \in situation.prefs /\ fate = [t \in Tasks |-> "none"]
      /\ worker = [w \in Workers |-> None] /\ sent = [t \in Tasks |-> <<>>]
      /\ request = [c \in Clients |-> None] /\ begun = 0
  BY DEF SubmissionsInit
<1>2. PICK k \in situation.customers : customers = [n \in Keys |-> IF n = 0 THEN k ELSE None]
  BY DEF SubmissionsInit
<1>3. StoreOK
  <2>1. k \in Customer \cup {None} /\ prefs \in Prefs \cup {None} /\ begun \in Keys
    BY <1>1, SubmissionConstants
  <2>2. customers \in [Keys -> Customer \cup {None}]
    BY <1>2, <2>1
  <2>3. fate \in [Tasks -> Fate]
    BY <1>1 DEF Fate
  <2> QED  BY <1>1, <2>1, <2>2, <2>3 DEF StoreOK
<1>4. RequestsFit /\ Apart
  BY <1>1 DEF RequestsFit, Apart, Running
<1>5. NotYet
  <2>1. \A n \in Ids : n \in Keys /\ n # 0
    BY SubmissionConstants
  <2> QED  BY <1>1, <1>2, <2>1 DEF NotYet
<1>6. Stored
  BY <1>1 DEF Stored
<1>7. WorkInv
  BY <1>1 DEF WorkInv, Heard
<1> QED  BY <1>3, <1>4, <1>5, <1>6, <1>7 DEF SubmissionsInv, RequestInv

LEMMA SubmissionsStep == SubmissionsInv /\ [SubmissionsNext]_submissions => SubmissionsInv'
<1> SUFFICES ASSUME SubmissionsInv, [SubmissionsNext]_submissions PROVE SubmissionsInv'
  OBVIOUS
<1>1. RequestInv /\ WorkInv
  BY DEF SubmissionsInv
<1>2. ASSUME NEW c \in Clients, Begin(c) \/ Serve(c) \/ Crash(c) PROVE SubmissionsInv'
  <2>1. RequestInv'
    <3>1. CASE Begin(c) \/ Crash(c)
      BY <1>1, <3>1, BeginFits, CrashFits
    <3>2. CASE Serve(c)
      BY <1>1, <3>2, FindByEmailFits, FindByPhoneFits, InsertFits, SaveFits, EnqueueFits,
         CreateCustomerFits, LoadCustomerFits, UpdateCustomerFits, DeleteCustomerFits,
         LoadPreferencesFits, CreateDefaultFits, CheckAndSaveFits DEF Serve
    <3> QED  BY <1>2, <3>1, <3>2
  <2>2. WorkInv'
    BY <1>1, <1>2, RequestsLeaveWork, WorkIgnoresRequests
  <2> QED  BY <2>1, <2>2 DEF SubmissionsInv
<1>3. ASSUME NEW w \in Workers, Work(w) \/ WorkerStops(w) PROVE SubmissionsInv'
  BY <1>1, <1>3, TakeFits, ReadPreferencesFits, SendEmailFits, SendTelegramFits, WorkerStopsFits
     DEF Work, SubmissionsInv
<1>4. CASE UNCHANGED submissions
  <2>1. /\ UNCHANGED <<customers, rows, events, prefs, fate, request, begun, situation>>
        /\ UNCHANGED <<worker, sent>>
    BY <1>4 DEF submissions
  <2>2. RequestInv'
    <3>1. fate' \in [Tasks -> Fate]
      BY <1>1, <2>1 DEF RequestInv, StoreOK
    <3> QED  BY <1>1, <2>1, <3>1, RequestsIgnoreWork
  <2>3. WorkInv'
    BY <1>1, <2>1, WorkIgnoresRequests
  <2> QED  BY <2>2, <2>3 DEF SubmissionsInv
<1> QED  BY <1>2, <1>3, <1>4 DEF SubmissionsNext

LEMMA SubmissionsInvariance == SubmissionsSpec => []SubmissionsInv
BY SubmissionsStart, SubmissionsStep, PTL DEF SubmissionsSpec

\* The tables and the settings keep their shape, and a row its link to a customer,
\* or none (models of customer, order, donation, pledge and the preferences).
THEOREM SubmissionsTyped == SubmissionsSpec => []SubmissionsTypeOK
<1>1. SubmissionsInv => SubmissionsTypeOK
  <2> SUFFICES ASSUME RequestInv PROVE SubmissionsTypeOK
    BY DEF SubmissionsInv
  <2>1. \A n \in Ids : rows[n] # None => rows[n].link \in DOMAIN customers \cup {None}
    BY DEF RequestInv, StoreOK, Row
  <2> QED  BY <2>1 DEF RequestInv, StoreOK, SubmissionsTypeOK, Keys
<1> QED  BY <1>1, SubmissionsInvariance, PTL

\* A row is stored with its attribution event, a task is only of a stored row that
\* asked for it, and no channel carries a message twice (public_storefront.py;
\* workers/tasks/notifications.py).
THEOREM RowsAreToldOnce == SubmissionsSpec => []ToldOnceOfARow
<1>1. SubmissionsInv => ToldOnceOfARow
  <2> SUFFICES ASSUME RequestInv, WorkInv PROVE ToldOnceOfARow
    BY DEF SubmissionsInv
  <2>1. ASSUME NEW m \in Heard PROVE \A i, j \in DOMAIN m : m[i] = m[j] => i = j
    <3>1. CASE m = <<>>
      BY <3>1
    <3>2. CASE m = <<"email">>
      BY <3>2
    <3>3. CASE m = <<"chat">>
      BY <3>3
    <3>4. CASE m = Append(<<"email">>, "chat")
      <4>1. DOMAIN m = 1..2 /\ m[1] = "email" /\ m[2] = "chat"
        BY <3>4
      <4> QED  BY <4>1
    <3> QED  BY <2>1, <3>1, <3>2, <3>3, <3>4 DEF Heard
  <2>2. \A t \in Tasks : sent[t] \in Heard
    BY DEF WorkInv
  <2> QED  BY <2>1, <2>2 DEF ToldOnceOfARow, RequestInv, Stored
<1> QED  BY <1>1, SubmissionsInvariance, PTL

-----------------------------------------------------------------------------
(* What a step may not do.                                                   *)

\* A client changes its own request, or what the others know of its commit.
LEMMA ClientChanges ==
    ASSUME NEW d \in Clients, Begin(d) \/ Serve(d) \/ Crash(d)
    PROVE  \/ \E x : request' = [request EXCEPT ![d] = x]
           \/ \E answer : \E touches, puts \in BOOLEAN : Committed(d, answer, touches, puts)
<1> DEFINE One == \E x : request' = [request EXCEPT ![d] = x]
           All == \E answer : \E touches, puts \in BOOLEAN : Committed(d, answer, touches, puts)
<1>1. ASSUME NEW r, NEW p, GoTo(d, r, p) PROVE One
  BY <1>1 DEF GoTo
<1>2. ASSUME NEW answer, Answer(d, answer) PROVE One
  BY <1>2 DEF Answer
<1>3. ASSUME NEW r, NEW link, Saved(d, r, link) PROVE One
  BY <1>3 DEF Saved
<1>4. ASSUME NEW step, NEW name, Delay(d, step, name) PROVE One
  BY <1>4 DEF Delay
<1>5. ASSUME NEW row, Store(d, row) PROVE All
  BY <1>5 DEF Store
<1>6. Begin(d) \/ Crash(d) => One
  BY DEF Begin, Crash
<1> HIDE DEF One, All
<1>7. Enqueue(d) \/ EnqueueReceipt(d) => One
  BY <1>4 DEF Enqueue, EnqueueReceipt
<1>8. FindByEmail(d) \/ FindByPhone(d) \/ LoadCustomer(d) \/ LoadPreferences(d) => One
  BY <1>1, <1>2 DEF FindByEmail, FindByPhone, FindBy, LoadCustomer, LoadPreferences
<1>9. Insert(d) => One
  <2>1. \/ request[d].email = None /\ request[d].phone = None
        \/ Taken(request[d].email, request[d].phone, None) # {}
        \/ ~ (\/ request[d].email = None /\ request[d].phone = None
              \/ Taken(request[d].email, request[d].phone, None) # {})
    OBVIOUS
  <2> QED  BY <1>1, <1>3, <2>1 DEF Insert
<1>10. Save(d) => One
  BY <1>2, <1>3 DEF Save
<1>11. CreateCustomer(d) \/ UpdateCustomer(d) \/ DeleteCustomer(d) => One \/ All
  <2>1. ASSUME NEW touches \in BOOLEAN, Committed(d, "ok", touches, FALSE) PROVE All
    BY <2>1 DEF All
  <2>2. CreateCustomer(d) => One \/ All
    BY <1>2, <2>1 DEF CreateCustomer
  <2>3. UpdateCustomer(d) => One \/ All
    BY <1>2, <2>1 DEF UpdateCustomer
  <2>4. DeleteCustomer(d) => One \/ All
    BY <1>2, <2>1 DEF DeleteCustomer
  <2> QED  BY <2>2, <2>3, <2>4
<1>12. CreateDefault(d) \/ CheckAndSave(d) => One \/ All
  BY <1>2, <1>5 DEF CreateDefault, CheckAndSave, InsertPreferences
<1>13. One \/ All
  BY <1>6, <1>7, <1>8, <1>9, <1>10, <1>11, <1>12 DEF Serve
<1> QED  BY <1>13 DEF One, All

\* A request goes on running while another client takes a step.
LEMMA OthersRun ==
    ASSUME RequestInv, NEW c \in Clients, NEW d \in Clients, c # d, Running(c),
           Begin(d) \/ Serve(d) \/ Crash(d)
    PROVE  request'[c] \in Req
<1>1. StoreOK /\ request[c] \in Req
  BY RunningIsReq DEF RequestInv
<1>2. CASE \E x : request' = [request EXCEPT ![d] = x]
  BY <1>1, <1>2 DEF StoreOK
<1>3. CASE \E answer : \E touches, puts \in BOOLEAN : Committed(d, answer, touches, puts)
  <2>1. PICK answer : \E touches, puts \in BOOLEAN : Committed(d, answer, touches, puts)
    BY <1>3
  <2>2. PICK touches \in BOOLEAN, puts \in BOOLEAN : Committed(d, answer, touches, puts)
    BY <2>1
  <2>3. PICK q, t, s : /\ q = request[c] /\ t = (q.touched \/ touches) /\ s = (q.stale \/ puts)
                       /\ request'[c] = [q EXCEPT !.touched = t, !.stale = s]
    BY <2>2 DEF Committed
  <2>4. q \in Req /\ t \in BOOLEAN /\ s \in BOOLEAN
    BY <1>1, <2>3
  <2> QED  BY <2>3, <2>4 DEF Req
<1> QED  BY <1>2, <1>3, ClientChanges

LEMMA FaultIsNoRequest == Fault \notin Req /\ Fault # None
BY SubmissionConstants DEF Req, Fault

\* A request that fails has been overtaken by the staff.
LEMMA FailsOvertaken ==
    ASSUME RequestInv, NEW c \in Clients, Begin(c) \/ Serve(c) \/ Crash(c), Running(c),
           request'[c] = Fault
    PROVE  request[c].touched \/ request[c].stale
<1>1. PICK q : q = request[c]
  OBVIOUS
<1>2. /\ q \in Req /\ Fits(q) /\ q.pc \in DOMAIN Does[q.op]
      /\ (q.touched = FALSE \/ q.touched) /\ (q.stale = FALSE \/ q.stale)
  <2>1. q \in Req /\ Fits(q) /\ q.pc \in DOMAIN Does[q.op]
    BY <1>1, RunningFits
  <2> QED  BY <2>1 DEF Req
<1>3. request \in [Clients -> Req \cup {None, Fault}] /\ StoreOK
  BY DEF RequestInv, StoreOK
<1>4. \A x : request' = [request EXCEPT ![c] = x] => x = Fault
  BY <1>3
<1>5. ASSUME NEW x, x \in Req \cup {None} PROVE request' # [request EXCEPT ![c] = x]
  BY <1>4, <1>5, FaultIsNoRequest
<1>6. /\ \A touches, puts : ~ Committed(c, "ok", touches, puts)
      /\ ~ Answer(c, "409") /\ ~ Answer(c, "404") /\ ~ Answer(c, "ok") /\ ~ Answer(c, "422")
  <2>1. \A touches, puts : ~ Committed(c, "ok", touches, puts)
    BY FaultIsNoRequest DEF Committed, Answered
  <2>2. /\ Answered("409") = None /\ Answered("404") = None /\ Answered("ok") = None
        /\ Answered("422") = None
    BY DEF Answered
  <2> QED  BY <1>5, <2>1, <2>2 DEF Answer
<1>7. ASSUME NEW k \in Keys \cup {None}, NEW p \in Nat,
             NEW l \in Customer \cup Prefs \cup {None}
      PROVE  /\ ~ GoTo(c, q, p) /\ ~ GoTo(c, [q EXCEPT !.link = k], p)
             /\ ~ GoTo(c, [q EXCEPT !.loaded = l], p)
  <2>1. /\ [q EXCEPT !.pc = p] \in Req /\ [[q EXCEPT !.link = k] EXCEPT !.pc = p] \in Req
        /\ [[q EXCEPT !.loaded = l] EXCEPT !.pc = p] \in Req
    <3>1. q.link \in Keys \cup {None}
      BY <1>2 DEF Req
    <3> QED  BY <1>2, <3>1, Edited DEF Being
  <2> QED  BY <1>5, <2>1 DEF GoTo
<1>8. ASSUME NEW link \in Keys \cup {None} PROVE ~ Saved(c, q, link)
  <2>1. [q EXCEPT !.link = link, !.pc = 7] \in Req
    BY <1>2 DEF Req
  <2> QED  BY <1>5, <2>1 DEF Saved, Answered
<1>9. ASSUME NEW step, NEW name PROVE ~ Delay(c, step, name)
  <2>1. [q EXCEPT !.pc = q.pc + 1] \in Req
    BY <1>2 DEF Req
  <2> QED  BY <1>1, <1>5, <2>1 DEF Delay, Answered
<1>10. ~ Begin(c) /\ ~ Crash(c) /\ ~ Enqueue(c) /\ ~ EnqueueReceipt(c)
  BY <1>5, <1>9 DEF Begin, Crash, Enqueue, EnqueueReceipt
<1>11. /\ q.pc \in Nat /\ q.pc + 1 \in Nat /\ 2 \in Nat /\ 4 \in Nat /\ 6 \in Nat /\ q.n \in Keys
       /\ q.link \in Keys \cup {None} /\ None \in Keys \cup {None}
       /\ None \in Customer \cup Prefs \cup {None}
  BY <1>2, SubmissionConstants DEF Req
<1>12. CASE FindByEmail(c)
  <2>1. At(c, "find by email")
    BY <1>12 DEF FindByEmail, FindBy
  <2>2. Does[q.op][q.pc] = "find by email"
    BY <1>1, <2>1, AtStep
  <2>3. q.pc # 5
    <3>1. q.pc = 1 \/ q.pc = 4
      BY <1>2, <2>2, Places
    <3> QED  BY <3>1
  <2>4. ASSUME Holding("email", q.email) # {}
        PROVE  (CHOOSE k \in Holding("email", q.email) : TRUE) \in Keys
    <3>1. (CHOOSE k \in Holding("email", q.email) : TRUE) \in Holding("email", q.email)
      BY <2>4
    <3> QED  BY <1>3, <3>1, Holds
  <2>5. PICK k : k = CHOOSE j \in Holding("email", q.email) : TRUE
    OBVIOUS
  <2>6. \/ k \in Keys /\ GoTo(c, [q EXCEPT !.link = k], 6)
        \/ GoTo(c, q, q.pc + 1)
    BY <1>1, <1>12, <2>3, <2>4, <2>5 DEF FindByEmail, FindBy
  <2> QED  BY <1>7, <1>11, <2>6
<1>13. CASE FindByPhone(c)
  <2>1. At(c, "find by phone")
    BY <1>13 DEF FindByPhone, FindBy
  <2>2. Does[q.op][q.pc] = "find by phone"
    BY <1>1, <2>1, AtStep
  <2>3. q.op \in Visitors
    BY <1>2, <2>2, Places
  <2>4. ASSUME Holding("phone", q.phone) # {}
        PROVE  (CHOOSE k \in Holding("phone", q.phone) : TRUE) \in Keys
    <3>1. (CHOOSE k \in Holding("phone", q.phone) : TRUE) \in Holding("phone", q.phone)
      BY <2>4
    <3> QED  BY <1>3, <3>1, Holds
  <2>5. q.pc = 5 /\ Holding("phone", q.phone) = {}
    <3>1. PICK k : k = CHOOSE j \in Holding("phone", q.phone) : TRUE
      OBVIOUS
    <3>2. \/ k \in Keys /\ GoTo(c, [q EXCEPT !.link = k], 6)
          \/ GoTo(c, q, q.pc + 1)
          \/ q.pc = 5 /\ Holding("phone", q.phone) = {}
      BY <1>1, <1>13, <2>4, <3>1 DEF FindByPhone, FindBy
    <3> QED  BY <1>7, <1>11, <3>2
  <2> QED  BY <1>1, <1>2, <2>3, <2>5 DEF Fits, Clean
<1>14. CASE Insert(c)
  <2>1. \/ q.email = None /\ q.phone = None
        \/ Taken(q.email, q.phone, None) # {}
        \/ ~ (q.email = None /\ q.phone = None) /\ Taken(q.email, q.phone, None) = {}
    OBVIOUS
  <2>2. GoTo(c, q, 6) \/ GoTo(c, q, 4) \/ Saved(c, q, q.n)
    BY <1>1, <1>14, <2>1 DEF Insert
  <2> QED  BY <1>7, <1>8, <1>11, <2>2
<1>15. CASE Save(c)
  <2>1. q.link # None /\ customers[q.link] = None
    BY <1>1, <1>8, <1>11, <1>15 DEF Save
  <2>2. Does[q.op][q.pc] = "save"
    BY <1>1, <1>15, AtStep DEF Save
  <2>3. \/ q.op \in Visitors /\ q.pc = 6
        \/ q.op = "pledge" /\ q.pc = 1
    BY <1>2, <2>2, Places
  <2>4. q.op \in Visitors /\ q.pc = 6
    BY <1>2, <2>1, <2>3 DEF Fits, Placed
  <2>5. q.touched = FALSE => Matches(q, q.link)
    BY <1>2, <2>1, <2>4 DEF Fits, Clean
  <2> QED  BY <1>1, <1>2, <2>1, <2>5 DEF Matches
<1>16. CASE CreateCustomer(c)
  BY <1>6, <1>16 DEF CreateCustomer
<1>17. CASE LoadCustomer(c)
  <2>1. At(c, "load")
    BY <1>17 DEF LoadCustomer
  <2>2. q.op \in {"update_customer", "delete_customer"} /\ q.customer \in Keys
    <3>1. Does[q.op][q.pc] = "load" /\ Asked(q)
      BY <1>1, <2>1, AtStep
    <3> QED  BY <1>2, <3>1, Places DEF Asked
  <2>3. customers[q.customer] \in Customer \cup Prefs \cup {None}
    BY <1>3, <2>2 DEF StoreOK
  <2> QED  BY <1>1, <1>6, <1>7, <1>11, <1>17, <2>3 DEF LoadCustomer
<1>18. CASE UpdateCustomer(c)
  <2>1. customers[q.customer] = None
    BY <1>1, <1>6, <1>18 DEF UpdateCustomer
  <2>2. q.op = "update_customer" /\ q.pc = 2
    <3>1. At(c, "update")
      BY <1>18 DEF UpdateCustomer
    <3>2. Does[q.op][q.pc] = "update"
      BY <1>1, <3>1, AtStep
    <3> QED  BY <1>2, <3>2, Places
  <2> QED  BY <1>1, <1>2, <2>1, <2>2 DEF Fits, Clean
<1>19. CASE DeleteCustomer(c)
  <2>1. customers[q.customer] = None
    BY <1>1, <1>6, <1>19 DEF DeleteCustomer
  <2>2. q.op = "delete_customer" /\ q.pc = 2
    <3>1. At(c, "delete")
      BY <1>19 DEF DeleteCustomer
    <3>2. Does[q.op][q.pc] = "delete"
      BY <1>1, <3>1, AtStep
    <3> QED  BY <1>2, <3>2, Places
  <2> QED  BY <1>1, <1>2, <2>1, <2>2 DEF Fits, Clean
<1>20. CASE LoadPreferences(c)
  <2>1. prefs \in Customer \cup Prefs \cup {None}
    BY <1>3 DEF StoreOK
  <2> QED  BY <1>1, <1>7, <1>11, <1>20, <2>1 DEF LoadPreferences
<1>21. ASSUME NEW row PROVE ~ Store(c, row)
  BY <1>6 DEF Store
<1>22. CASE CreateDefault(c)
  <2>1. q.loaded = None /\ prefs # None
    BY <1>1, <1>6, <1>21, <1>22 DEF CreateDefault, InsertPreferences
  <2>2. q.op = "get_preferences" /\ q.pc = 2
    <3>1. At(c, "create default")
      BY <1>22 DEF CreateDefault
    <3>2. Does[q.op][q.pc] = "create default"
      BY <1>1, <3>1, AtStep
    <3> QED  BY <1>2, <3>2, Places
  <2> QED  BY <1>1, <1>2, <2>1, <2>2 DEF Fits, Read
<1>23. CASE CheckAndSave(c)
  <2>1. q.loaded = None /\ prefs # None
    <3>1. \/ NeedsTheChat(q.body, q.loaded)
          \/ ~ NeedsTheChat(q.body, q.loaded) /\ q.loaded = None
          \/ ~ NeedsTheChat(q.body, q.loaded) /\ q.loaded # None
      OBVIOUS
    <3> QED  BY <1>1, <1>6, <1>21, <1>23, <3>1 DEF CheckAndSave, InsertPreferences
  <2>2. q.op = "put_preferences" /\ q.pc = 2
    <3>1. At(c, "check and save")
      BY <1>23 DEF CheckAndSave
    <3>2. Does[q.op][q.pc] = "check and save"
      BY <1>1, <3>1, AtStep
    <3> QED  BY <1>2, <3>2, Places
  <2> QED  BY <1>1, <1>2, <2>1, <2>2 DEF Fits, Read
<1> QED  BY <1>10, <1>12, <1>13, <1>14, <1>15, <1>16, <1>17, <1>18, <1>19, <1>20, <1>22, <1>23
         DEF Serve

\* Two visitors never make each other fail (customer_link.py,
\* find_or_create_customer): who meets an unexpected error was overtaken by a
\* change of a customer, or of the settings, by the staff.
THEOREM FailuresAreOvertaken == SubmissionsSpec => FailuresAreRaces
<1>1. ASSUME SubmissionsInv, [SubmissionsNext]_submissions,
             NEW c \in Clients, Running(c), request'[c] = Answered("error")
      PROVE  request[c].touched \/ request[c].stale
  <2>1. RequestInv /\ request[c] \in Req /\ request'[c] = Fault
    BY <1>1, RunningIsReq DEF SubmissionsInv, RequestInv, Answered, Fault
  <2>2. ASSUME NEW d \in Clients, Begin(d) \/ Serve(d) \/ Crash(d)
        PROVE  request[c].touched \/ request[c].stale
    <3>1. d = c
      BY <1>1, <2>1, <2>2, OthersRun, FaultIsNoRequest
    <3> QED  BY <1>1, <2>1, <2>2, <3>1, FailsOvertaken
  <2>3. ASSUME NEW w \in Workers, Work(w) \/ WorkerStops(w) PROVE FALSE
    <3>1. request' = request
      BY <2>3 DEF Work, Take, ReadPreferences, SendEmail, SendTelegram, WorkerStops
    <3> QED  BY <2>1, <3>1, FaultIsNoRequest
  <2>4. CASE UNCHANGED submissions
    BY <2>1, <2>4, FaultIsNoRequest DEF submissions
  <2> QED  BY <1>1, <2>2, <2>3, <2>4 DEF SubmissionsNext
<1>2. SubmissionsInv /\ [SubmissionsNext]_submissions =>
        [\A c \in Clients : Running(c) /\ request'[c] = Answered("error") =>
           request[c].touched \/ request[c].stale]_submissions
  BY <1>1
<1> QED  BY <1>2, SubmissionsInvariance, PTL DEF SubmissionsSpec, FailuresAreRaces

\* Rows are only stored by the request of their number, as it saves.
LEMMA OnlySavedStores ==
    ASSUME RequestInv, SubmissionsNext, NEW n \in Ids, rows[n] = None, rows'[n] # None
    PROVE  \E d \in Clients : /\ Insert(d) \/ Save(d)
                              /\ Running(d) /\ request[d].n = n
<1>1. rows \in [Ids -> Row \cup {None}]
  BY DEF RequestInv, StoreOK
<1>2. ASSUME UNCHANGED rows PROVE FALSE
  BY <1>2
<1>3. ASSUME NEW w \in Workers, Work(w) \/ WorkerStops(w) PROVE FALSE
  BY <1>2, <1>3 DEF Work, Take, ReadPreferences, SendEmail, SendTelegram, WorkerStops
<1>4. CASE UNCHANGED submissions
  BY <1>2, <1>4 DEF submissions
<1>5. ASSUME NEW d \in Clients, Begin(d) \/ Crash(d) PROVE FALSE
  BY <1>2, <1>5 DEF Begin, Crash
<1>6. ASSUME NEW d \in Clients, FindByEmail(d) \/ FindByPhone(d) \/ Enqueue(d) \/ EnqueueReceipt(d)
      PROVE  FALSE
  BY <1>2, <1>6 DEF FindByEmail, FindByPhone, FindBy, Enqueue, EnqueueReceipt, Delay, GoTo, Answer
<1>7. ASSUME NEW d \in Clients, CreateCustomer(d) \/ LoadCustomer(d) \/ UpdateCustomer(d)
      PROVE  FALSE
  BY <1>2, <1>7 DEF CreateCustomer, LoadCustomer, UpdateCustomer, GoTo, Answer
<1>8. ASSUME NEW d \in Clients, DeleteCustomer(d) PROVE FALSE
  <2>1. rows'[n] = None
    <3>1. \/ UNCHANGED rows
          \/ rows' = [m \in Ids |-> IF rows[m] # None /\ rows[m].link = request[d].customer
                                    THEN [rows[m] EXCEPT !.link = None] ELSE rows[m]]
      BY <1>8 DEF DeleteCustomer, Answer
    <3> QED  BY <3>1
  <2> QED  BY <2>1
<1>9. ASSUME NEW d \in Clients, LoadPreferences(d) \/ CreateDefault(d) \/ CheckAndSave(d)
      PROVE  FALSE
  BY <1>2, <1>9 DEF LoadPreferences, CreateDefault, CheckAndSave, InsertPreferences, Store, GoTo,
     Answer
<1>10. PICK d \in Clients : Insert(d) \/ Save(d)
  BY <1>3, <1>4, <1>5, <1>6, <1>7, <1>8, <1>9 DEF SubmissionsNext, Serve
<1>11. Running(d) /\ request[d].n \in Ids
  BY <1>10, RunningFits DEF Insert, Save, At
<1>12. \/ UNCHANGED rows
       \/ \E row : rows' = [rows EXCEPT ![request[d].n] = row]
  <2>1. \A link : Saved(d, request[d], link) => \E row : rows' = [rows EXCEPT ![request[d].n] = row]
    BY DEF Saved
  <2>2. CASE Insert(d)
    <3>1. \/ request[d].email = None /\ request[d].phone = None
          \/ Taken(request[d].email, request[d].phone, None) # {}
          \/ ~ (\/ request[d].email = None /\ request[d].phone = None
                \/ Taken(request[d].email, request[d].phone, None) # {})
      OBVIOUS
    <3> QED  BY <2>1, <2>2, <3>1 DEF Insert, GoTo
  <2>3. CASE Save(d)
    BY <2>1, <2>3 DEF Save, Answer
  <2> QED  BY <1>10, <2>2, <2>3
<1> QED  BY <1>1, <1>2, <1>10, <1>11, <1>12

LEMMA SavedLinked ==
    ASSUME RequestInv, NEW c \in Clients, Insert(c) \/ Save(c), NEW q, q = request[c], Running(c),
           q.op \in Visitors, q.touched = FALSE, rows[q.n] = None, rows'[q.n] # None
    PROVE  LET link == request'[c].link IN
           IF q.email = None /\ q.phone = None THEN link = None
           ELSE /\ link # None /\ customers'[link] # None
                /\ \/ q.email # None /\ customers'[link].email = q.email
                   \/ /\ q.phone # None /\ customers'[link].phone = q.phone
                      /\ q.email = None \/ q.email \notin q.held
<1>1. /\ q \in Req /\ Fits(q) /\ q.pc \in DOMAIN Does[q.op] /\ Asked(q)
      /\ q.n \in Ids /\ q.n \in Keys /\ q.n # 0
  BY RunningFits
<1>2. rows \in [Ids -> Row \cup {None}] /\ StoreOK
  BY DEF RequestInv, StoreOK
<1>3. ~ UNCHANGED rows
  OBVIOUS
<1>4. ASSUME NEW link \in Keys \cup {None}, Saved(c, q, link) PROVE request'[c].link = link
  <2>1. request' = [request EXCEPT ![c] = [q EXCEPT !.link = link, !.pc = 7]]
    BY <1>4 DEF Saved, Visitors
  <2>2. request'[c] = [q EXCEPT !.link = link, !.pc = 7]
    BY <1>2, <2>1 DEF StoreOK
  <2> QED  BY <1>1, <2>2 DEF Req
<1>5. CASE Insert(c)
  <2>1. \/ q.email = None /\ q.phone = None
        \/ Taken(q.email, q.phone, None) # {}
        \/ ~ (q.email = None /\ q.phone = None) /\ Taken(q.email, q.phone, None) = {}
    OBVIOUS
  <2>2. q.email = None /\ q.phone = None => Taken(q.email, q.phone, None) = {}
    BY <1>2, Holds DEF Taken
  <2>3. /\ ~ (q.email = None /\ q.phone = None) /\ Saved(c, q, q.n)
        /\ customers' = [customers EXCEPT ![q.n] = [email |-> q.email, phone |-> q.phone]]
    BY <1>3, <1>5, <2>1, <2>2 DEF Insert, GoTo
  <2>4. PICK x : x = [email |-> q.email, phone |-> q.phone]
    OBVIOUS
  <2>5. q.op # "update_customer"
    BY DEF Visitors
  <2>6. x \in Customer /\ x.email = q.email /\ x.phone = q.phone
    BY <1>1, <2>4, <2>5 DEF Asked, Customer
  <2>7. request'[c].link = q.n /\ customers'[q.n] = x /\ q.n # None /\ x # None
    BY <1>1, <1>2, <1>4, <2>3, <2>4, <2>6, SubmissionConstants DEF StoreOK
  <2> QED  BY <2>3, <2>6, <2>7
<1>6. CASE Save(c)
  <2>1. Saved(c, q, q.link) /\ UNCHANGED customers
    BY <1>3, <1>6 DEF Save, Answer
  <2>2. request'[c].link = q.link
    BY <1>1, <1>4, <2>1 DEF Req
  <2>3. Does[q.op][q.pc] = "save"
    BY <1>6, AtStep DEF Save
  <2>4. q.pc = 6
    <3>1. q.op # "pledge"
      BY DEF Visitors
    <3> QED  BY <1>1, <2>3, <3>1, Places
  <2>5. /\ q.link = None => q.email = None /\ q.phone = None
        /\ q.link # None => Matches(q, q.link)
    BY <1>1, <2>4 DEF Fits, Clean
  <2> QED  BY <2>1, <2>2, <2>5 DEF Matches
<1> QED  BY <1>5, <1>6

\* An order or a donation is stored with the customer of its contact
\* (customer_link.py, find_or_create_customer), whatever was submitted at once.
THEOREM RowsAreLinked == SubmissionsSpec => LinkedToItsCustomer
<1> DEFINE Linked(c) ==
      LET r == request[c]
          link == request'[c].link IN
      /\ Running(c) /\ r.op \in {"order", "donation"} /\ ~ r.touched
      /\ rows[r.n] = None /\ rows'[r.n] # None
      => IF r.email = None /\ r.phone = None THEN link = None
         ELSE /\ link # None /\ customers'[link] # None
              /\ \/ r.email # None /\ customers'[link].email = r.email
                 \/ /\ r.phone # None /\ customers'[link].phone = r.phone
                    /\ r.email = None \/ r.email \notin r.held
<1>1. ASSUME SubmissionsInv, [SubmissionsNext]_submissions, NEW c \in Clients PROVE Linked(c)
  <2>1. PICK q : q = request[c]
    OBVIOUS
  <2> SUFFICES ASSUME Running(c), q.op \in Visitors, ~ q.touched, rows[q.n] = None,
                      rows'[q.n] # None
        PROVE  LET link == request'[c].link IN
               IF q.email = None /\ q.phone = None THEN link = None
               ELSE /\ link # None /\ customers'[link] # None
                    /\ \/ q.email # None /\ customers'[link].email = q.email
                       \/ /\ q.phone # None /\ customers'[link].phone = q.phone
                          /\ q.email = None \/ q.email \notin q.held
    BY <2>1 DEF Visitors
  <2>2. RequestInv /\ q \in Req /\ q.n \in Ids
    BY <1>1, <2>1, RunningFits DEF SubmissionsInv
  <2>3. q.touched = FALSE /\ SubmissionsNext
    BY <1>1, <2>2 DEF Req, submissions
  <2>4. PICK d \in Clients : (Insert(d) \/ Save(d)) /\ Running(d) /\ request[d].n = q.n
    BY <2>2, <2>3, OnlySavedStores
  <2>5. d = c
    BY <2>1, <2>2, <2>4 DEF RequestInv, Apart
  <2> QED  BY <2>1, <2>2, <2>3, <2>4, <2>5, SavedLinked
<1>2. SubmissionsInv /\ [SubmissionsNext]_submissions => [\A c \in Clients : Linked(c)]_submissions
  BY <1>1
<1> QED  BY <1>2, SubmissionsInvariance, PTL DEF SubmissionsSpec, LinkedToItsCustomer

Mute(row) == row # None /\ row.telegram /\ row.chat = None

\* A body checked against the settings it replaces leaves a chat to telegram.
LEMMA CheckedBodies ==
    ASSUME NEW body \in Settable, body.telegram = TRUE => body.chat = "chat",
           NEW old \in Prefs, ~ Mute(old), ~ NeedsTheChat(body, old)
    PROVE  ~ Mute(Puts(body, old, old))
<1>1. PICK t, k : t = Put(body.telegram, old.telegram) /\ k = Put(body.chat, old.chat)
  OBVIOUS
<1>2. Puts(body, old, old).telegram = t /\ Puts(body, old, old).chat = k
  <2>1. ASSUME NEW f \in {"email", "telegram", "chat"}
        PROVE  (IF Put(body[f], old[f]) = old[f] THEN old[f] ELSE body[f]) = Put(body[f], old[f])
    BY DEF Put
  <2> QED  BY <1>1, <2>1 DEF Puts
<1>3. old # None /\ "chat" # None /\ Absent # None /\ Absent # "chat"
  BY SubmissionConstants
<1>4. /\ body.telegram \in BOOLEAN \cup {Absent} /\ body.chat \in {"chat", None, Absent}
      /\ old.telegram \in BOOLEAN /\ old.chat \in {"chat", None}
  BY DEF Settable, Prefs
<1>5. CASE body.telegram = Absent
  <2>1. t = old.telegram
    BY <1>1, <1>5 DEF Put
  <2>2. old.telegram => k # None
    BY <1>1, <1>3, <1>5 DEF NeedsTheChat
  <2> QED  BY <1>2, <2>1, <2>2 DEF Mute
<1>6. CASE body.telegram # Absent
  <2>1. t = body.telegram
    BY <1>1, <1>6 DEF Put
  <2>2. t = TRUE => k = "chat"
    BY <1>1, <1>3, <2>1 DEF Put
  <2>3. t = TRUE \/ t = FALSE
    BY <1>4, <1>6, <2>1
  <2> QED  BY <1>2, <1>3, <2>2, <2>3 DEF Mute
<1> QED  BY <1>5, <1>6

LEMMA OnlySettingsChange ==
    ASSUME SubmissionsNext, prefs' # prefs
    PROVE  \E c \in Clients : CreateDefault(c) \/ CheckAndSave(c)
<1>1. ASSUME NEW w \in Workers, Work(w) \/ WorkerStops(w) PROVE FALSE
  BY <1>1 DEF Work, Take, ReadPreferences, SendEmail, SendTelegram, WorkerStops
<1>2. CASE UNCHANGED submissions
  BY <1>2 DEF submissions
<1>3. ASSUME NEW d \in Clients, Begin(d) \/ Crash(d) PROVE FALSE
  BY <1>3 DEF Begin, Crash
<1>4. ASSUME NEW d \in Clients, FindByEmail(d) \/ FindByPhone(d) \/ Enqueue(d) \/ EnqueueReceipt(d)
      PROVE  FALSE
  BY <1>4 DEF FindByEmail, FindByPhone, FindBy, Enqueue, EnqueueReceipt, Delay, GoTo, Answer
<1>5. ASSUME NEW d \in Clients, Insert(d) PROVE FALSE
  <2>1. \/ request[d].email = None /\ request[d].phone = None
        \/ Taken(request[d].email, request[d].phone, None) # {}
        \/ ~ (\/ request[d].email = None /\ request[d].phone = None
              \/ Taken(request[d].email, request[d].phone, None) # {})
    OBVIOUS
  <2> QED  BY <1>5, <2>1 DEF Insert, GoTo, Saved
<1>6. ASSUME NEW d \in Clients, Save(d) PROVE FALSE
  BY <1>6 DEF Save, Answer, Saved
<1>7. ASSUME NEW d \in Clients,
             CreateCustomer(d) \/ LoadCustomer(d) \/ UpdateCustomer(d) \/ DeleteCustomer(d)
      PROVE  FALSE
  BY <1>7 DEF CreateCustomer, LoadCustomer, UpdateCustomer, DeleteCustomer, GoTo, Answer
<1>8. ASSUME NEW d \in Clients, LoadPreferences(d) PROVE FALSE
  BY <1>8 DEF LoadPreferences, GoTo
<1> QED  BY <1>1, <1>2, <1>3, <1>4, <1>5, <1>6, <1>7, <1>8 DEF SubmissionsNext, Serve

\* Telegram loses its chat only to a request that was overtaken by another one
\* (notification_preferences.py, put_notification_preferences).
THEOREM ChatIsLostInARace == SubmissionsSpec => TelegramLosesItsChatInARaceOnly
<1>1. ASSUME SubmissionsInv, [SubmissionsNext]_submissions, Mute(prefs'), ~ Mute(prefs)
      PROVE  \E c \in Clients : At(c, "check and save") /\ request[c].stale /\ request'[c] = None
  <2>1. RequestInv /\ prefs' # prefs /\ SubmissionsNext
    BY <1>1 DEF SubmissionsInv, submissions
  <2>2. PICK c \in Clients : CreateDefault(c) \/ CheckAndSave(c)
    BY <2>1, OnlySettingsChange
  <2>3. PICK q : q = request[c]
    OBVIOUS
  <2>4. (\E row : Store(c, row)) /\ request'[c] = None
    <3>1. \A answer : ~ Answer(c, answer)
      BY <2>1 DEF Answer
    <3>2. \A row : InsertPreferences(c, row) => \E x : Store(c, x)
      BY <3>1 DEF InsertPreferences
    <3>3. ASSUME CreateDefault(c) PROVE \E row : Store(c, row)
      <4>1. IF request[c].loaded # None THEN Answer(c, "ok") ELSE InsertPreferences(c, Default)
        BY <3>3 DEF CreateDefault
      <4> QED  BY <3>1, <3>2, <4>1
    <3>4. ASSUME CheckAndSave(c) PROVE \E row : Store(c, row)
      <4>1. \/ NeedsTheChat(q.body, q.loaded)
            \/ ~ NeedsTheChat(q.body, q.loaded) /\ q.loaded = None
            \/ ~ NeedsTheChat(q.body, q.loaded) /\ q.loaded # None
        OBVIOUS
      <4>2. \/ Answer(c, "422")
            \/ InsertPreferences(c, [f \in DOMAIN Default |-> Put(q.body[f], Default[f])])
            \/ Store(c, Puts(q.body, q.loaded, prefs))
        <5>1. LET r == request[c] IN
              CASE NeedsTheChat(r.body, r.loaded) -> Answer(c, "422")
                [] ~ NeedsTheChat(r.body, r.loaded) /\ r.loaded = None ->
                     InsertPreferences(c, [f \in DOMAIN Default |-> Put(r.body[f], Default[f])])
                [] OTHER -> Store(c, Puts(r.body, r.loaded, prefs))
          BY <3>4 DEF CheckAndSave
        <5> QED  BY <2>3, <4>1, <5>1
      <4> QED  BY <3>1, <3>2, <4>2
    <3>5. \E row : Store(c, row)
      BY <2>2, <3>3, <3>4
    <3> QED  BY <3>5 DEF Store, Committed, Answered
  <2>5. CASE CreateDefault(c)
    <3>1. Answer(c, "ok") \/ InsertPreferences(c, Default)
      BY <2>5 DEF CreateDefault
    <3>2. prefs' = Default
      <4>1. (Answer(c, "ok") => FALSE) /\ (Answer(c, "error") => FALSE)
        BY <2>1 DEF Answer
      <4>2. Store(c, Default) => prefs' = Default
        BY DEF Store
      <4> QED  BY <3>1, <4>1, <4>2 DEF InsertPreferences
    <3>3. ~ Mute(prefs')
      BY <3>2 DEF Mute, Default
    <3> QED  BY <1>1, <3>3
  <2>6. CASE CheckAndSave(c)
    <3>1. At(c, "check and save")
      BY <2>6 DEF CheckAndSave
    <3>2. /\ q \in Req /\ Fits(q) /\ q.pc \in DOMAIN Does[q.op] /\ Asked(q)
          /\ Does[q.op][q.pc] = "check and save"
      BY <2>1, <2>3, <3>1, AtStep
    <3>3. q.op = "put_preferences" /\ q.pc = 2
      BY <3>2, Places
    <3>4. /\ q.body \in Settable /\ (q.body.telegram = TRUE => q.body.chat = "chat")
          /\ q.loaded \in Prefs \cup {None} /\ (q.stale = FALSE => prefs = q.loaded)
      BY <3>2, <3>3 DEF Asked, Fits, Read
    <3>5. CASE q.stale
      BY <2>3, <2>4, <3>1, <3>5
    <3>6. CASE q.stale = FALSE
      <4>1. \A answer : ~ Answer(c, answer)
        BY <2>1 DEF Answer
      <4>2. \/ NeedsTheChat(q.body, q.loaded)
            \/ ~ NeedsTheChat(q.body, q.loaded) /\ q.loaded = None
            \/ ~ NeedsTheChat(q.body, q.loaded) /\ q.loaded # None
        OBVIOUS
      <4>3. CASE q.loaded = None
        <5>1. ~ NeedsTheChat(q.body, q.loaded)
          BY <4>3 DEF NeedsTheChat
        <5>2. Store(c, [f \in DOMAIN Default |-> Put(q.body[f], Default[f])])
          BY <2>3, <2>6, <4>1, <4>3, <5>1 DEF CheckAndSave, InsertPreferences
        <5>3. prefs' = [email |-> Put(q.body.email, FALSE),
                        telegram |-> Put(q.body.telegram, FALSE), chat |-> Put(q.body.chat, None)]
          BY <5>2 DEF Store, Default
        <5>4. /\ prefs'.telegram = Put(q.body.telegram, FALSE)
              /\ prefs'.chat = Put(q.body.chat, None)
          BY <5>3
        <5>5. q.body.telegram = TRUE \/ q.body.telegram = FALSE \/ q.body.telegram = Absent
          BY <3>4 DEF Settable
        <5>6. "chat" # None /\ Absent # "chat"
          BY SubmissionConstants
        <5> QED  BY <1>1, <3>4, <5>4, <5>5, <5>6 DEF Mute, Put
      <4>4. CASE q.loaded # None
        <5>1. prefs = q.loaded /\ q.loaded \in Prefs
          BY <3>4, <3>6, <4>4
        <5>2. ~ NeedsTheChat(q.body, q.loaded)
          BY <2>3, <2>6, <4>1 DEF CheckAndSave
        <5>3. prefs' = Puts(q.body, q.loaded, prefs)
          BY <2>3, <2>6, <4>1, <4>2, <4>4, <5>2 DEF CheckAndSave, Store
        <5> QED  BY <1>1, <3>4, <5>1, <5>2, <5>3, CheckedBodies
      <4> QED  BY <4>3, <4>4
    <3> QED  BY <3>2, <3>5, <3>6 DEF Req
  <2> QED  BY <2>2, <2>5, <2>6
<1>2. SubmissionsInv /\ [SubmissionsNext]_submissions =>
        [Mute(prefs') /\ ~ Mute(prefs) =>
           \E c \in Clients :
             At(c, "check and save") /\ request[c].stale /\ request'[c] = None]_submissions
  BY <1>1
<1> QED  BY <1>2, SubmissionsInvariance, PTL
         DEF SubmissionsSpec, TelegramLosesItsChatInARaceOnly, Mute

-----------------------------------------------------------------------------
(* OrderLifecycle.                                                           *)

\* v is a value the column of an entity starts with, or one an audited
\* transition has reached.
Known(e, column, v) ==
    \/ v \in {"unfulfilled", InitialStatus(e)}
    \/ \E j \in DOMAIN audit :
          audit[j].entity = e /\ audit[j].column = column /\ audit[j].to = v

\* What the rows hold is known.
RowsKnown ==
    \A e \in Entities : Known(e, "status", status[e])
                          /\ Known(e, "fulfillment", fulfillment[e])

\* A request past its validation carries a legal transition from a known
\* value, however stale: the transition remains legal, because the table is
\* fixed, and the value known, because no audit row is deleted.
PendingIsLegal ==
    \A t \in Txns : pc[t] \in {"update", "commit"} =>
        Legal(Event(t)) /\ Known(req[t].entity, Column(req[t]), loaded[t])

Inv == TypeOK /\ RowsKnown /\ PendingIsLegal /\ NoStepSkipped /\ RestoredIffCancelled

-----------------------------------------------------------------------------
\* A request asks for a value of its column, and fulfils orders only.
LEMMA RequestTypes ==
    ASSUME NEW q \in Requests
    PROVE  /\ q.entity \in Entities /\ q.to \in Statuses \cup Fulfillments
           /\ q.op \in Operations
           /\ Column(q) \in {"status", "fulfillment"}
           /\ Column(q) = "fulfillment" => q.to \in Fulfillments
           /\ Column(q) = "status" => q.to \in Statuses
<1>1. q \in Request
  BY LifecycleAssumption
<1>2. q.entity \in Entities /\ q.to \in Statuses \cup Fulfillments /\ q.op \in Operations
  BY <1>1 DEF Request
<1>3. /\ q.op = "status" => q.to \in Statuses
      /\ q.op = "fulfillment" => q.to \in Fulfillments
      /\ q.op = "pos_cancel" => q.to = "cancelled"
  BY LifecycleAssumption
<1>4. "cancelled" \in Statuses
  BY DEF Statuses
<1> QED  BY <1>2, <1>3, <1>4 DEF Operations, Column

\* Nothing a legal transition leads to cancelled starts from cancelled, and
\* fulfilment never leads there: cancelled is terminal in the order workflow.
LEMMA CancelledOnce ==
    ASSUME TypeOK, NEW t \in Txns, Legal(Event(t)), req[t].entity \in Orders,
           req[t].to = "cancelled"
    PROVE  loaded[t] # "cancelled"
<1>1. req[t] \in Requests
  BY DEF TypeOK
<1>2. "cancelled" \notin Fulfillments
  BY DEF Fulfillments, FULFILLMENT_TRANSITIONS
<1>3. Column(req[t]) = "status"
  BY <1>1, <1>2, RequestTypes
<1>4. Table(req[t].entity) = ORDER_TRANSITIONS
  BY DEF Table, Orders
<1>5. ORDER_TRANSITIONS["cancelled"] = {}
  BY DEF ORDER_TRANSITIONS
<1>6. /\ Event(t).column = "status" /\ Event(t).to = "cancelled"
      /\ Event(t).entity = req[t].entity /\ Event(t).from = loaded[t]
  BY <1>3 DEF Event
<1>7. \/ "cancelled" \in ORDER_TRANSITIONS[loaded[t]]
      \/ loaded[t] = "fulfilled"
  BY <1>4, <1>6 DEF Legal
<1> QED  BY <1>5, <1>7

-----------------------------------------------------------------------------
\* The rows start with their initial values and an empty audit trail.
LEMMA InitInv == Init => Inv
<1> SUFFICES ASSUME Init PROVE Inv
  OBVIOUS
<1>1. \A e \in Entities : InitialStatus(e) \in Statuses
  BY DEF InitialStatus, Statuses
<1>2. "unfulfilled" \in Fulfillments
  BY DEF Fulfillments, FULFILLMENT_TRANSITIONS
<1>3. audit \in Seq(Events) /\ DOMAIN audit = {}
  BY DEF Init
<1>4. TypeOK
  BY <1>1, <1>2, <1>3 DEF Init, TypeOK, Statuses
<1>5. RowsKnown /\ PendingIsLegal
  BY DEF Init, RowsKnown, PendingIsLegal, Known
<1>6. NoStepSkipped /\ RestoredIffCancelled
  BY <1>3 DEF Init, NoStepSkipped, RestoredIffCancelled
<1> QED  BY <1>4, <1>5, <1>6 DEF Inv

\* A step that commits nothing keeps what is said of the committed rows.
LEMMA StoreUnchanged ==
    ASSUME Inv, UNCHANGED store
    PROVE  RowsKnown' /\ NoStepSkipped' /\ RestoredIffCancelled'
BY DEF Inv, store, RowsKnown, Known, NoStepSkipped, RestoredIffCancelled, Legal

\* A request that is left as it was stays legal while the trail only grows.
LEMMA OthersStayLegal ==
    ASSUME Inv, NEW t \in Txns, UNCHANGED req,
           \A u \in Txns \ {t} : pc'[u] = pc[u] /\ loaded'[u] = loaded[u],
           audit' = audit \/ audit' = Append(audit, Event(t))
    PROVE  \A u \in Txns \ {t} : pc'[u] \in {"update", "commit"} =>
               Legal(Event(u))' /\ Known(req[u].entity, Column(req[u]), loaded[u])'
<1> SUFFICES ASSUME NEW u \in Txns \ {t}, pc'[u] \in {"update", "commit"}
             PROVE  Legal(Event(u))' /\ Known(req[u].entity, Column(req[u]), loaded[u])'
  OBVIOUS
<1>1. Legal(Event(u)) /\ Known(req[u].entity, Column(req[u]), loaded[u])
  BY DEF Inv, PendingIsLegal
<1>2. Event(u)' = Event(u)
  BY DEF Event, Column
<1>3. Legal(Event(u))'
  BY <1>1, <1>2 DEF Legal
<1>4. \A j \in DOMAIN audit : j \in DOMAIN audit' /\ audit'[j] = audit[j]
  BY SMTT(30) DEF Inv, TypeOK
<1>5. Known(req[u].entity, Column(req[u]), loaded[u])'
  BY <1>1, <1>4 DEF Known, Column
<1> QED  BY <1>3, <1>5

\* Every step keeps the invariant: one case per action.
LEMMA StepInv == Inv /\ [Next]_vars => Inv'
<1> SUFFICES ASSUME Inv, [Next]_vars PROVE Inv'
  OBVIOUS
<1>t. TypeOK
  BY DEF Inv
<1>1. ASSUME NEW t \in Txns, Load(t) PROVE Inv'
  <2>1. req[t] \in Requests
    BY <1>t DEF TypeOK
  <2>2. Current(req[t]) \in Statuses \cup Fulfillments
    BY <1>t, <2>1, RequestTypes DEF TypeOK, Current
  <2>3. TypeOK'
    BY <1>1, <1>t, <2>2 DEF Load, store, TypeOK
  <2>4. UNCHANGED <<store, req, holder>> /\ loaded'[t] = Current(req[t])
          /\ \A u \in Txns \ {t} : pc'[u] = pc[u] /\ loaded'[u] = loaded[u]
    BY <1>1, <1>t DEF Load, TypeOK
  <2>5. Known(req[t].entity, Column(req[t]), Current(req[t]))
    BY <2>1, RequestTypes DEF Inv, RowsKnown, Current
  <2>6. Known(req[t].entity, Column(req[t]), loaded[t])'
    BY <2>4, <2>5 DEF Known, store, Column, Current
  <2>7. /\ Event(t)'.entity = req[t].entity /\ Event(t)'.column = Column(req[t])
        /\ Event(t)'.from = Current(req[t]) /\ Event(t)'.to = req[t].to
    BY <2>4 DEF Event, Column
  <2>8. Legal(Event(t)')
    <3>1. CASE req[t].op = "status"
      BY <3>1, <2>7, <1>1 DEF Legal, Load, Allowed, Column, Current
    <3>2. CASE req[t].op = "pos_cancel"
      BY <3>2, <2>1, <2>7, <1>1, LifecycleAssumption DEF Legal, Load, Allowed, Column, Current
    <3>3. CASE req[t].op = "fulfillment"
      BY <3>3, <2>7, <1>1 DEF Legal, Load, Allowed, Column, Current
    <3> QED  BY <3>1, <3>2, <3>3, <2>1, RequestTypes DEF Operations
  <2>9. PendingIsLegal'
    <3>1. Legal(Event(t))'
      BY <2>8 DEF Legal
    <3>2. audit' = audit
      BY <2>4 DEF store
    <3> QED  BY <3>1, <3>2, <2>4, <2>6, OthersStayLegal DEF PendingIsLegal
  <2> QED  BY <2>3, <2>4, <2>9, StoreUnchanged DEF Inv
<1>2. ASSUME NEW t \in Txns, Refuse(t) \/ Rollback(t) PROVE Inv'
  <2>1. TypeOK'
    BY <1>2, <1>t DEF Refuse, Rollback, EndTxn, store, TypeOK
  <2>2. UNCHANGED <<store, req, loaded>> /\ pc'[t] = "done"
          /\ \A u \in Txns \ {t} : pc'[u] = pc[u]
    BY <1>2, <1>t DEF Refuse, Rollback, EndTxn, TypeOK
  <2>3. PendingIsLegal'
    BY <2>2, OthersStayLegal DEF PendingIsLegal, store
  <2> QED  BY <2>1, <2>2, <2>3, StoreUnchanged DEF Inv
<1>3. ASSUME NEW t \in Txns, Update(t) PROVE Inv'
  <2>1. TypeOK'
    BY <1>3, <1>t DEF Update, store, TypeOK
  <2>2. UNCHANGED <<store, req, loaded>> /\ pc[t] = "update"
          /\ \A u \in Txns \ {t} : pc'[u] = pc[u]
    BY <1>3, <1>t DEF Update, TypeOK
  <2>3. Legal(Event(t)) /\ Known(req[t].entity, Column(req[t]), loaded[t])
    BY <2>2 DEF Inv, PendingIsLegal
  <2>4. Legal(Event(t))' /\ Known(req[t].entity, Column(req[t]), loaded[t])'
    BY <2>2, <2>3 DEF Legal, Event, Column, Known, store
  <2>5. PendingIsLegal'
    BY <2>2, <2>4, OthersStayLegal DEF PendingIsLegal, store
  <2> QED  BY <2>1, <2>2, <2>5, StoreUnchanged DEF Inv
<1>4. ASSUME NEW t \in Txns, Commit(t) PROVE Inv'
  <2> DEFINE n == Len(audit)
             q == req[t]
  <2>1. /\ q \in Requests /\ q.entity \in Entities /\ q.to \in Statuses \cup Fulfillments
        /\ Column(q) \in {"status", "fulfillment"}
        /\ loaded[t] \in Statuses \cup Fulfillments
    BY <1>t, RequestTypes DEF TypeOK
  <2>2. Event(t) \in Events
    BY <2>1 DEF Event, Events
  <2>3. /\ Event(t).entity = q.entity /\ Event(t).column = Column(q)
        /\ Event(t).from = loaded[t] /\ Event(t).to = q.to
    BY DEF Event
  <2>4. /\ n \in Nat /\ DOMAIN audit = 1 .. n /\ DOMAIN audit' = 1 .. (n + 1)
        /\ \A i \in 1 .. n : audit'[i] = audit[i]
        /\ audit'[n + 1] = Event(t)
    BY <1>4, <1>t, <2>2 DEF Commit, TypeOK
  <2>5. Legal(Event(t)) /\ Known(q.entity, Column(q), loaded[t])
    BY <1>4 DEF Commit, Inv, PendingIsLegal
  <2>6. TypeOK'
    <3>1. status' \in [Entities -> Statuses] /\ fulfillment' \in [Entities -> Fulfillments]
      BY <1>4, <1>t, <2>1, RequestTypes DEF Commit, TypeOK
    <3>2. restored' \subseteq Orders
      BY <1>4, <1>t DEF Commit, TypeOK, Restores
    <3>3. audit' \in Seq(Events)
      BY <1>4, <1>t, <2>2 DEF Commit, TypeOK
    <3>4. holder' \in [Entities -> Txns \cup {Nobody}]
            /\ pc' \in [Txns -> {"idle", "update", "commit", "done"}]
            /\ req' \in [Txns -> Requests] /\ loaded' \in [Txns -> Statuses \cup Fulfillments]
      BY <1>4, <1>t DEF Commit, EndTxn, TypeOK
    <3> QED  BY <3>1, <3>2, <3>3, <3>4 DEF TypeOK
  <2>7. RowsKnown'
    <3> DEFINE Later(e, c, v) == \/ v \in {"unfulfilled", InitialStatus(e)}
                                 \/ \E j \in 1 .. (n + 1) : /\ audit'[j].entity = e
                                                            /\ audit'[j].column = c
                                                            /\ audit'[j].to = v
    <3>1. \A e, c, v : Known(e, c, v) => Later(e, c, v)
      BY <2>4 DEF Known
    <3>2. Later(q.entity, Column(q), q.to)
      BY <2>3, <2>4
    <3>3. ASSUME NEW e \in Entities PROVE Later(e, "status", status'[e])
      <4>1. status'[e] = status[e]
              \/ (e = q.entity /\ Column(q) = "status" /\ status'[e] = q.to)
        BY <1>4, <1>t, <2>1 DEF Commit, TypeOK
      <4>2. Known(e, "status", status[e])
        BY DEF Inv, RowsKnown
      <4>3. CASE status'[e] = status[e]
        <5>1. Later(e, "status", status[e])
          BY <3>1, <4>2
        <5> QED  BY <4>3, <5>1
      <4>4. CASE e = q.entity /\ Column(q) = "status" /\ status'[e] = q.to
        BY <3>2, <4>4
      <4> QED  BY <4>1, <4>3, <4>4
    <3>4. ASSUME NEW e \in Entities PROVE Later(e, "fulfillment", fulfillment'[e])
      <4>1. fulfillment'[e] = fulfillment[e]
              \/ (e = q.entity /\ Column(q) = "fulfillment" /\ fulfillment'[e] = q.to)
        BY <1>4, <1>t, <2>1 DEF Commit, TypeOK
      <4>2. Known(e, "fulfillment", fulfillment[e])
        BY DEF Inv, RowsKnown
      <4>3. CASE fulfillment'[e] = fulfillment[e]
        <5>1. Later(e, "fulfillment", fulfillment[e])
          BY <3>1, <4>2
        <5> QED  BY <4>3, <5>1
      <4>4. CASE e = q.entity /\ Column(q) = "fulfillment" /\ fulfillment'[e] = q.to
        BY <3>2, <4>4
      <4> QED  BY <4>1, <4>3, <4>4
    <3> QED  BY <2>4, <3>3, <3>4 DEF RowsKnown, Known
  <2>8. PendingIsLegal'
    <3>1. UNCHANGED <<req, loaded>> /\ pc'[t] = "done"
            /\ audit' = Append(audit, Event(t)) /\ \A u \in Txns \ {t} : pc'[u] = pc[u]
      BY <1>4, <1>t DEF Commit, EndTxn, TypeOK
    <3> QED  BY <3>1, OthersStayLegal DEF PendingIsLegal
  <2>9. NoStepSkipped'
    <3> SUFFICES ASSUME NEW i \in 1 .. (n + 1)
                 PROVE  /\ Legal(audit'[i])
                        /\ \/ audit'[i].from \in {"unfulfilled", InitialStatus(audit'[i].entity)}
                           \/ \E j \in 1..(i - 1) :
                                 /\ audit'[j].entity = audit'[i].entity
                                 /\ audit'[j].column = audit'[i].column
                                 /\ audit'[j].to = audit'[i].from
      BY <2>4 DEF NoStepSkipped, Legal
    <3>1. CASE i \in 1 .. n
      <4>1. \A j \in 1 .. (i - 1) : j \in 1 .. n
        BY <2>4, <3>1
      <4> QED  BY <2>4, <3>1, <4>1 DEF Inv, NoStepSkipped
    <3>2. CASE i = n + 1
      <4>1. i - 1 = n /\ audit'[i] = Event(t)
        BY <2>4, <3>2
      <4> QED  BY <2>3, <2>4, <2>5, <4>1 DEF Known
    <3> QED  BY <2>4, <3>1, <3>2
  <2>10. RestoredIffCancelled'
    <3> SUFFICES ASSUME NEW e \in Orders
                 PROVE  e \in restored' <=> \E i \in 1 .. (n + 1) :
                            audit'[i].entity = e /\ audit'[i].to = "cancelled"
      BY <2>4 DEF RestoredIffCancelled
    <3>1. e \in restored <=> \E i \in 1 .. n : audit[i].entity = e /\ audit[i].to = "cancelled"
      BY <2>4 DEF Inv, RestoredIffCancelled
    <3>2. Restores(t) <=> q.entity \in Orders /\ q.to = "cancelled"
      BY <1>t, <2>5, CancelledOnce DEF Restores
    <3>3. e \in restored' <=> e \in restored \/ (q.entity = e /\ q.to = "cancelled")
      BY <1>4, <3>2 DEF Commit
    <3>4. (\E i \in 1 .. (n + 1) : audit'[i].entity = e /\ audit'[i].to = "cancelled")
            <=> \/ \E i \in 1 .. n : audit[i].entity = e /\ audit[i].to = "cancelled"
                \/ q.entity = e /\ q.to = "cancelled"
      BY <2>3, <2>4
    <3> QED  BY <3>1, <3>3, <3>4
  <2> QED  BY <2>6, <2>7, <2>8, <2>9, <2>10 DEF Inv
<1>5. ASSUME UNCHANGED vars PROVE Inv'
  <2>1. UNCHANGED <<store, holder, pc, req, loaded>> /\ UNCHANGED audit
    BY <1>5 DEF vars, store
  <2>2. TypeOK'
    BY <1>5, <1>t DEF vars, TypeOK
  <2>3. PendingIsLegal'
    BY <2>1 DEF Inv, PendingIsLegal, Legal, Event, Column, Known
  <2> QED  BY <2>1, <2>2, <2>3, StoreUnchanged DEF Inv
<1> QED  BY <1>1, <1>2, <1>3, <1>4, <1>5 DEF Next, Step, Finished

\* The invariant of the workflows.
THEOREM Invariance == Spec => []Inv
<1>1. Inv /\ UNCHANGED vars => Inv'
  BY StepInv
<1> QED  BY InitInv, StepInv, PTL DEF Spec

\* However many dashboard users race over a row, the trail of its transitions
\* skips no step: validating against a stale read (status_transitions.py,
\* lines 117-135) repeats or undoes steps and never jumps.
THEOREM StepsInOrder == Spec => []NoStepSkipped
<1>1. Inv => NoStepSkipped
  BY DEF Inv
<1> QED  BY <1>1, Invariance, PTL

\* Stock comes back for exactly the orders whose cancellation is audited, on
\* either path that cancels (status_transitions.py, line 141; pos.py, line 341).
THEOREM AuditedCancellationRestores == Spec => []RestoredIffCancelled
<1>1. Inv => RestoredIffCancelled
  BY DEF Inv
<1> QED  BY <1>1, Invariance, PTL

==============================================================================
