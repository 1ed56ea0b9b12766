----------------------------- MODULE Submissions -----------------------------
(* What visitors of one storefront submit, from the customer it is linked to *)
(* to the messages about it (api/v1/public_storefront.py, services/          *)
(* customer_link.py, workers/tasks/notifications.py), while the staff edits  *)
(* the customers and the notification settings (api/v1/customers.py,         *)
(* notification_preferences.py).                                             *)
(*                                                                           *)
(* Each statement of a request reads what is committed by then; its writes   *)
(* and its commit are one step, as whoever needs what they touch waits for   *)
(* the commit and then sees it (an INSERT of an email another transaction    *)
(* has inserted waits for its end). Redis keeps the tasks; a worker takes a  *)
(* task off the queue before it runs it, and never runs it again. Numbers    *)
(* and stock are the matter of Numbering and OrderStock.                     *)
EXTENDS Naturals, Sequences, FiniteSets

CONSTANTS
    Clients,        \* numbers: how many requests of visitors and staff run at once
    Workers,        \* Celery processes
    Emails, Phones, \* normalised
    Situations,     \* what is asked for, the first customer and settings, the broker
    MaxRequests,    \* bound: requests begun
    Absent,         \* a field a body does not have
    None

VARIABLES
    customers,      \* customers[n]: the row request n inserted, or 0, a first one
    rows,           \* rows[n]: the order, donation or pledge of request n
    events,         \* the rows of utm_events, by what they refer to
    prefs,          \* the tenant's row of notification_preferences
    fate,           \* fate[t]: what became of task t
    worker,         \* worker[w]: the task it runs
    sent,           \* sent[t]: the messages delivered for task t
    request,        \* request[c]: the latest request of c, None before the first
    begun,          \* how many were begun
    situation       \* the one of the run

submissions == <<customers, rows, events, prefs, fate, worker, sent, request, begun, situation>>

Ids == 1 .. MaxRequests
Keys == 0 .. MaxRequests
Customer == [email : Emails \cup {None}, phone : Phones \cup {None}]
Prefs == [email : BOOLEAN, telegram : BOOLEAN, chat : {"chat", None}]
Tasks == {"notice", "receipt"} \X Ids
Fate == {"none", "queued", "taken", "ended"}    \* ended: carried out, or lost

-----------------------------------------------------------------------------
(* Requests.                                                                 *)

Does == [
    order |-> <<"find by email", "find by phone", "insert", "find by email", "find by phone",
                "save", "enqueue">>,
    donation |-> <<"find by email", "find by phone", "insert", "find by email", "find by phone",
                   "save", "enqueue", "enqueue receipt">>,
    pledge |-> <<"save">>,
    create_customer |-> <<"insert">>,
    update_customer |-> <<"load", "update">>,
    delete_customer |-> <<"load", "delete">>,
    get_preferences |-> <<"load preferences", "create default">>,
    put_preferences |-> <<"load preferences", "check and save">>]

Submitted == {"order", "donation", "pledge"}
Asking(op, customer, email, phone, visit, receipt, body) ==
    [op |-> op, customer |-> customer, email |-> email, phone |-> phone, visit |-> visit,
     receipt |-> receipt, body |-> body]

\* A row that was submitted, and the body of a change of the settings: what
\* NotificationPreferencesUpdate lets through, a flag that is null left out.
Row == [kind : Submitted, email : Emails \cup {None}, link : Keys \cup {None},
        visit : BOOLEAN, receipt : BOOLEAN]
Settable == [email : BOOLEAN \cup {Absent}, telegram : BOOLEAN \cup {Absent},
             chat : {"chat", None, Absent}]

ASSUME SubmissionsAssumption ==
    /\ MaxRequests \in Nat /\ Clients \subseteq Nat
    /\ None \notin Emails \cup Phones \cup {"chat"} \cup Customer \cup Prefs \cup Row
    /\ None \notin Keys /\ None # [status |-> "error"]
    /\ Absent \notin Emails \cup Phones \cup {None, "chat"}
    /\ \A s \in Situations :
          /\ s.customers \subseteq Customer \cup {None}
          /\ s.prefs \subseteq Prefs \cup {None}
          /\ s.broker \subseteq {"queued", "ended"}
          /\ \A a \in s.asked :
                /\ a.op \in DOMAIN Does /\ a.customer \in Keys \cup {None}
                /\ a.email \in Emails \cup {None, Absent} /\ a.phone \in Phones \cup {None, Absent}
                /\ a.visit \in BOOLEAN /\ a.receipt \in BOOLEAN /\ a.body \in Settable
                /\ a.op \in {"update_customer", "delete_customer"} => a.customer \in Keys
                /\ a.op # "update_customer" => Absent \notin {a.email, a.phone}
                /\ a.body.telegram = TRUE => a.body.chat = "chat"

Running(c) == request[c] # None /\ request[c].status = "running"
At(c, step) == Running(c) /\ Does[request[c].op][request[c].pc] = step

\* begun numbers the requests; held, touched: the emails of the customers of
\* then, and whether the staff has changed a customer since.
Begin(c) ==
    /\ ~ Running(c) /\ (\A d \in Clients : d < c => Running(d)) /\ begun < MaxRequests
    /\ begun' = begun + 1
    /\ \E a \in situation.asked :
         request' = [request EXCEPT ![c] =
            [op |-> a.op, customer |-> a.customer, email |-> a.email, phone |-> a.phone,
             visit |-> a.visit, receipt |-> a.receipt, body |-> a.body, n |-> begun + 1,
             pc |-> 1, loaded |-> None, link |-> None, status |-> "running",
             held |-> {customers[k].email : k \in {k \in DOMAIN customers : customers[k] # None}},
             touched |-> FALSE, stale |-> FALSE]]
    /\ UNCHANGED <<customers, rows, events, prefs, fate, worker, sent, situation>>

\* Mutant: the task is enqueued before the commit.
GoToEnqueued(c, r, pc) ==
    /\ request' = [request EXCEPT ![c] = [r EXCEPT !.pc = pc]]
    /\ fate' = IF pc = 6 THEN [fate EXCEPT ![<<"notice", r.n>>] = "queued"] ELSE fate
    /\ UNCHANGED <<customers, rows, events, prefs, worker, sent, begun, situation>>

\* The request goes on at step pc, or is answered; "error" is a 500. Nothing but
\* an error is remembered of it.
GoTo(c, r, pc) ==
    /\ request' = [request EXCEPT ![c] = [r EXCEPT !.pc = pc]]
    /\ UNCHANGED <<customers, rows, events, prefs, fate, worker, sent, begun, situation>>
Answered(status) == IF status = "error" THEN [status |-> "error"] ELSE None
Answer(c, status) ==
    /\ request' = [request EXCEPT ![c] = Answered(status)]
    /\ UNCHANGED <<customers, rows, events, prefs, fate, worker, sent, begun, situation>>

-----------------------------------------------------------------------------
(* find_or_create_customer.                                                  *)

HasKey(k, field, value) == customers[k] # None /\ value # None /\ customers[k][field] = value
Holding(field, value) == {k \in DOMAIN customers : HasKey(k, field, value)}

\* Step pc looks for the customer; none: the next step. Found: "save", 6th.
FindBy(c, step, field) ==
    /\ At(c, step)
    /\ LET r == request[c]
           found == Holding(field, r[field]) IN
       IF found # {}
       THEN GoTo(c, [r EXCEPT !.link = CHOOSE k \in found : TRUE], 6)
       ELSE IF r.pc = 5 THEN Answer(c, "error") ELSE GoTo(c, r, r.pc + 1)

FindByEmail(c) == FindBy(c, "find by email", "email")

\* Mutant: the phone is looked up first.
FindByPhoneFirst(c) == FindBy(c, "find by email", "phone") \/ FindBy(c, "find by phone", "email")

FindByPhone(c) == FindBy(c, "find by phone", "phone")

\* uq_customers_tenant_email, uq_customers_tenant_phone.
Taken(email, phone, self) == (Holding("email", email) \cup Holding("phone", phone)) \ {self}

\* Committed. A change of a customer is seen by whoever runs.
Committed(c, status, change, put) ==
    request' = [d \in Clients |->
        CASE d = c -> Answered(status)
          [] d # c /\ Running(d) -> [request[d] EXCEPT !.touched = @ \/ change, !.stale = @ \/ put]
          [] OTHER -> request[d]]

\* The rest of the transaction: the row, its event, the commit.
Saved(c, r, link) ==
    /\ rows' = [rows EXCEPT ![r.n] = [kind |-> r.op, email |-> r.email, link |-> link,
                                      visit |-> r.visit, receipt |-> r.receipt]]
    /\ events' = IF r.visit THEN events \cup {r.n} ELSE events
    /\ request' = [request EXCEPT ![c] = IF r.op = "pledge" THEN Answered("ok")
                                         ELSE [r EXCEPT !.link = link, !.pc = 7]]
    /\ UNCHANGED <<prefs, fate, worker, sent, begun, situation>>

\* Mutant: the unique index is met with an error.
InsertOrFail(c) ==
    /\ At(c, "insert") /\ request[c].op \in Submitted
    /\ LET r == request[c] IN
       CASE r.email = None /\ r.phone = None -> GoTo(c, r, 6)
         [] Taken(r.email, r.phone, None) # {} -> Answer(c, "error")
         [] OTHER -> /\ customers' = [customers EXCEPT ![r.n] =
                                        [email |-> r.email, phone |-> r.phone]]
                     /\ Saved(c, r, r.n)

\* No contact, no customer. When the INSERT meets another customer, its
\* savepoint is rolled back and the two are looked for again.
Insert(c) ==
    /\ At(c, "insert") /\ request[c].op \in Submitted
    /\ LET r == request[c] IN
       CASE r.email = None /\ r.phone = None -> GoTo(c, r, 6)
         [] Taken(r.email, r.phone, None) # {} -> GoTo(c, r, 4)
         [] OTHER -> /\ customers' = [customers EXCEPT ![r.n] =
                                        [email |-> r.email, phone |-> r.phone]]
                     /\ Saved(c, r, r.n)

\* The customer that was found may be gone: the foreign key fails.
Save(c) ==
    /\ At(c, "save")
    /\ LET r == request[c] IN
       IF r.link # None /\ customers[r.link] = None THEN Answer(c, "error")
       ELSE Saved(c, r, r.link) /\ UNCHANGED customers

-----------------------------------------------------------------------------
(* After the commit: the tasks. A task that cannot be enqueued is logged and *)
(* lost; so are those of a server that stops before it has enqueued them.    *)

Due(n) == {t \in Tasks :
    /\ t[2] = n /\ rows[n] # None
    /\ t[1] = "notice" => rows[n].kind \in {"order", "donation"}
    /\ t[1] = "receipt" => rows[n].kind = "donation" /\ rows[n].receipt /\ rows[n].email # None}

Delay(c, step, name) ==
    /\ At(c, step)
    /\ LET r == request[c] IN
       /\ IF <<name, r.n>> \in Due(r.n)
          THEN \E end \in situation.broker : fate' = [fate EXCEPT ![<<name, r.n>>] = end]
          ELSE UNCHANGED fate
       /\ request' = [request EXCEPT ![c] = IF r.pc = Len(Does[r.op]) THEN Answered("ok")
                                            ELSE [r EXCEPT !.pc = @ + 1]]
       /\ UNCHANGED <<customers, rows, events, prefs, worker, sent, begun, situation>>

Enqueue(c) == Delay(c, "enqueue", "notice")
EnqueueReceipt(c) == Delay(c, "enqueue receipt", "receipt")

\* A stop before the commit leaves nothing behind.
Crash(c) ==
    /\ Running(c) /\ request[c].op \in Submitted /\ rows[request[c].n] # None
    /\ request' = [request EXCEPT ![c] = None]
    /\ fate' = [t \in Tasks |->
                  IF t \in Due(request[c].n) /\ fate[t] = "none" THEN "ended" ELSE fate[t]]
    /\ UNCHANGED <<customers, rows, events, prefs, worker, sent, begun, situation>>

-----------------------------------------------------------------------------
(* The staff: customers.                                                     *)

Put(given, old) == IF given = Absent THEN old ELSE given

CreateCustomer(c) ==
    /\ At(c, "insert") /\ request[c].op = "create_customer"
    /\ LET r == request[c] IN
       IF Taken(r.email, r.phone, None) # {} THEN Answer(c, "409")
       ELSE /\ customers' = [customers EXCEPT ![r.n] = [email |-> r.email, phone |-> r.phone]]
            /\ Committed(c, "ok", FALSE, FALSE)
            /\ UNCHANGED <<rows, events, prefs, fate, worker, sent, begun, situation>>

LoadCustomer(c) ==
    /\ At(c, "load")
    /\ LET r == request[c] IN
       IF customers[r.customer] = None THEN Answer(c, "404")
       ELSE GoTo(c, [r EXCEPT !.loaded = customers[r.customer]], 2)

\* flush writes the fields that are not as they were loaded.
UpdateCustomer(c) ==
    /\ At(c, "update")
    /\ LET r == request[c]
           row == customers[r.customer]
           Field(f) == IF Put(r[f], r.loaded[f]) = r.loaded[f] THEN row[f] ELSE r[f]
           changed == Put(r.email, r.loaded.email) # r.loaded.email
                      \/ Put(r.phone, r.loaded.phone) # r.loaded.phone IN
       CASE row = None -> Answer(c, "error")
         [] row # None /\ ~ changed -> Answer(c, "ok")
         [] row # None /\ changed /\ Taken(Field("email"), Field("phone"), r.customer) # {} ->
              Answer(c, "409")
         [] OTHER ->
              /\ customers' = [customers EXCEPT ![r.customer] =
                                 [email |-> Field("email"), phone |-> Field("phone")]]
              /\ Committed(c, "ok", TRUE, FALSE)
              /\ UNCHANGED <<rows, events, prefs, fate, worker, sent, begun, situation>>

\* ON DELETE SET NULL: the orders and donations stay.
DeleteCustomer(c) ==
    /\ At(c, "delete")
    /\ LET k == request[c].customer IN
       IF customers[k] = None THEN Answer(c, "error")
       ELSE /\ customers' = [customers EXCEPT ![k] = None]
            /\ rows' = [n \in Ids |-> IF rows[n] # None /\ rows[n].link = k
                                      THEN [rows[n] EXCEPT !.link = None] ELSE rows[n]]
            /\ Committed(c, "ok", TRUE, FALSE)
            /\ UNCHANGED <<events, prefs, fate, worker, sent, begun, situation>>

-----------------------------------------------------------------------------
(* The staff: notification settings. A body is over the fields of Prefs.     *)

Default == [email |-> FALSE, telegram |-> FALSE, chat |-> None]

LoadPreferences(c) ==
    /\ At(c, "load preferences")
    /\ GoTo(c, [request[c] EXCEPT !.loaded = prefs], 2)

Store(c, row) ==
    /\ prefs' = row
    /\ Committed(c, "ok", FALSE, TRUE)
    /\ UNCHANGED <<customers, rows, events, fate, worker, sent, begun, situation>>

\* One row per tenant: an INSERT that meets another one fails.
InsertPreferences(c, row) == IF prefs = None THEN Store(c, row) ELSE Answer(c, "error")

CreateDefault(c) ==
    /\ At(c, "create default")
    /\ IF request[c].loaded # None THEN Answer(c, "ok") ELSE InsertPreferences(c, Default)

Puts(body, old, row) ==
    LET Field(f) == IF Put(body[f], old[f]) = old[f] THEN row[f] ELSE body[f] IN
    [email |-> Field("email"), telegram |-> Field("telegram"), chat |-> Field("chat")]

\* Mutant: what is left as it was is not looked at.
NeedsTheChatOfABody(body, old) ==
    body.telegram = TRUE /\ body.chat = None

\* The check of the router: the chat of a channel that stays enabled.
NeedsTheChat(body, old) ==
    old # None /\ body.telegram = Absent /\ old.telegram /\ Put(body.chat, old.chat) = None

CheckAndSave(c) ==
    /\ At(c, "check and save")
    /\ LET r == request[c] IN
       CASE NeedsTheChat(r.body, r.loaded) -> Answer(c, "422")
         [] ~ NeedsTheChat(r.body, r.loaded) /\ r.loaded = None ->
              InsertPreferences(c, [f \in DOMAIN Default |-> Put(r.body[f], Default[f])])
         [] OTHER -> Store(c, Puts(r.body, r.loaded, prefs))

-----------------------------------------------------------------------------
(* A Celery worker.                                                          *)

Busy(w, step) == worker[w] # None /\ worker[w].pc = step

\* Mutant: the worker is started for the notices only.
TakeNotice(w) ==
    /\ worker[w] = None
    /\ \E t \in {"notice"} \X Ids :
         /\ fate[t] = "queued"
         /\ fate' = [fate EXCEPT ![t] = "taken"]
         /\ worker' = [worker EXCEPT ![w] = [task |-> t, prefs |-> None, pc |-> "preferences"]]
    /\ UNCHANGED <<customers, rows, events, prefs, sent, request, begun, situation>>

\* Acknowledged before it is run.
Take(w) ==
    /\ worker[w] = None
    /\ \E t \in Tasks :
         /\ fate[t] = "queued"
         /\ fate' = [fate EXCEPT ![t] = "taken"]
         /\ worker' = [worker EXCEPT ![w] =
              [task |-> t, prefs |-> None,
               pc |-> IF t[1] = "notice" THEN "preferences" ELSE "email"]]
    /\ UNCHANGED <<customers, rows, events, prefs, sent, request, begun, situation>>

Ends(w) ==
    /\ fate' = [fate EXCEPT ![worker[w].task] = "ended"]
    /\ worker' = [worker EXCEPT ![w] = None]
Continues(w, pc) ==
    /\ worker' = [worker EXCEPT ![w].pc = pc]
    /\ UNCHANGED fate

ReadPreferences(w) ==
    /\ Busy(w, "preferences")
    /\ IF prefs = None \/ (prefs # None /\ ~ prefs.email /\ ~ prefs.telegram)
       THEN Ends(w)
       ELSE /\ worker' = [worker EXCEPT ![w].prefs = prefs, ![w].pc = "email"]
            /\ UNCHANGED fate
    /\ UNCHANGED <<customers, rows, events, prefs, sent, request, begun, situation>>

Of(w) == rows[worker[w].task[2]]

\* The email goes to the customer, also when it tells the tenant of the order.
\* send_email answers False to a ClientError, and raises anything else. A row
\* that is not found is logged, and that is the end of it.
SendEmail(w) ==
    /\ Busy(w, "email")
    /\ LET x == worker[w]
           receipt == x.task[1] = "receipt"
           Next == IF receipt THEN Ends(w) ELSE Continues(w, "telegram") IN
       IF Of(w) = None THEN UNCHANGED sent /\ Ends(w)
       ELSE IF Of(w).email # None /\ (receipt \/ (~ receipt /\ x.prefs.email))
       THEN \/ sent' = [sent EXCEPT ![x.task] = Append(@, "email")] /\ Next
            \/ UNCHANGED sent /\ Next
            \/ UNCHANGED sent /\ Ends(w)
       ELSE UNCHANGED sent /\ Next
    /\ UNCHANGED <<customers, rows, events, prefs, request, begun, situation>>

SendTelegram(w) ==
    /\ Busy(w, "telegram")
    /\ LET x == worker[w] IN
       IF x.prefs.telegram /\ x.prefs.chat # None
       THEN \/ sent' = [sent EXCEPT ![x.task] = Append(@, x.prefs.chat)]
            \/ UNCHANGED sent
       ELSE UNCHANGED sent
    /\ Ends(w)
    /\ UNCHANGED <<customers, rows, events, prefs, request, begun, situation>>

WorkerStops(w) ==
    /\ worker[w] # None
    /\ Ends(w)
    /\ UNCHANGED <<customers, rows, events, prefs, sent, request, begun, situation>>

-----------------------------------------------------------------------------
SubmissionsInit ==
    /\ situation \in Situations
    /\ \E k \in situation.customers :
         customers = [n \in Keys |-> IF n = 0 THEN k ELSE None]
    /\ prefs \in situation.prefs
    /\ rows = [n \in Ids |-> None]
    /\ events = {}
    /\ fate = [t \in Tasks |-> "none"]
    /\ worker = [w \in Workers |-> None]
    /\ sent = [t \in Tasks |-> <<>>]
    /\ request = [c \in Clients |-> None]
    /\ begun = 0

Serve(c) ==
    \/ FindByEmail(c) \/ FindByPhone(c) \/ Insert(c) \/ Save(c)
    \/ Enqueue(c) \/ EnqueueReceipt(c)
    \/ CreateCustomer(c) \/ LoadCustomer(c) \/ UpdateCustomer(c) \/ DeleteCustomer(c)
    \/ LoadPreferences(c) \/ CreateDefault(c) \/ CheckAndSave(c)
Work(w) ==
    Take(w) \/ ReadPreferences(w) \/ SendEmail(w) \/ SendTelegram(w)

SubmissionsFinished ==
    /\ begun = MaxRequests /\ \A c \in Clients : ~ Running(c)
    /\ \A t \in Tasks : fate[t] \in {"none", "ended"}

SubmissionsNext ==
    \/ \E c \in Clients : Begin(c) \/ Serve(c) \/ Crash(c)
    \/ \E w \in Workers : Work(w) \/ WorkerStops(w)
    \/ SubmissionsFinished /\ UNCHANGED submissions

\* A request that runs goes on, and so does a worker: it takes the next task of
\* the list, and every send has a timeout.
SubmissionsSpec ==
    /\ SubmissionsInit /\ [][SubmissionsNext]_submissions
    /\ \A c \in Clients : WF_submissions(Serve(c))
    /\ \A w \in Workers : WF_submissions(Work(w))

-----------------------------------------------------------------------------
(* Properties.                                                               *)

SubmissionsTypeOK ==
    /\ customers \in [Keys -> Customer \cup {None}]
    /\ \A n \in Ids : rows[n] # None => rows[n].link \in DOMAIN customers \cup {None}
    /\ events \subseteq Ids
    /\ prefs \in Prefs \cup {None}
    /\ fate \in [Tasks -> Fate]
    /\ begun \in 0 .. MaxRequests
    /\ situation \in Situations

\* An order or a donation is stored with the customer of its email, or of its
\* phone when no customer had the email as the request came, whatever was
\* submitted at the same time; without a contact, with none. Only a change by the
\* staff in between can make it another.
LinkedToItsCustomer ==
    [][\A c \in Clients :
         LET r == request[c]
             link == request'[c].link IN
         /\ Running(c) /\ r.op \in {"order", "donation"} /\ ~ r.touched
         /\ rows[r.n] = None /\ rows'[r.n] # None
         => IF r.email = None /\ r.phone = None THEN link = None
            ELSE /\ link # None /\ customers'[link] # None
                 /\ \/ r.email # None /\ customers'[link].email = r.email
                    \/ /\ r.phone # None /\ customers'[link].phone = r.phone
                       /\ r.email = None \/ r.email \notin r.held]_submissions

\* Two visitors with the same new contact never make a submission fail: an
\* unexpected error is only met after the staff has changed a customer, or
\* written the settings, since the request came.
FailuresAreRaces ==
    [][\A c \in Clients : Running(c) /\ request'[c] = Answered("error") =>
         request[c].touched \/ request[c].stale]_submissions

\* "Commit before dispatching so the worker can see the row"
\* (public_storefront.py:426), and a message goes out at most once on each
\* channel: a worker's task is of a stored row, which asked for it. Whatever stops
\* where, a row is stored with its attribution event or not at all.
ToldOnceOfARow ==
    /\ events = {n \in Ids : rows[n] # None /\ rows[n].visit}
    /\ \A t \in Tasks : fate[t] # "none" => t \in Due(t[2])
    /\ \A t \in Tasks : \A i, j \in DOMAIN sent[t] : sent[t][i] = sent[t][j] => i = j

\* Telegram is on without a chat only after two changes of the settings overlapped:
\* the second was checked against what the first had replaced.
TelegramLosesItsChatInARaceOnly ==
    [][LET Mute(row) == row # None /\ row.telegram /\ row.chat = None IN
       Mute(prefs') /\ ~ Mute(prefs) =>
          \E c \in Clients :
              At(c, "check and save") /\ request[c].stale /\ request'[c] = None]_submissions

\* Every task of a stored row is carried out, or was lost by a stop of the server
\* or the worker, by a failure of the broker or by a send that raised.
TasksEnd ==
    <>[] \A t \in Tasks : t \in Due(t[2]) => fate[t] = "ended"

==============================================================================
