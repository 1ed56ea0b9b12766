------------------------------ MODULE PosShift -------------------------------
(* Shifts of the till (api/v1/pos.py): cashiers open and close the shop's    *)
(* shift, ring up sales and cancel them, each in a transaction of its own.   *)
(*                                                                           *)
(* Every handler selects the open shift without a lock and uses it later:    *)
(* only the partial unique index on open shifts serialises anything, and     *)
(* only the openers. A shift and an order are named by the transaction that  *)
(* inserts them; a sum of cash is the set of the sales it adds up.           *)
EXTENDS Naturals, FiniteSets

CONSTANTS
    Openers,        \* requests POST pos/shifts/open
    Closers,        \* requests POST pos/shifts/close
    CashSales,      \* requests POST pos/orders paid in cash
    OtherSales,     \* and by any other method
    Cancels,        \* requests PATCH pos/orders/{id}/cancel
    Nobody          \* no transaction

Sales == CashSales \cup OtherSales
Txns == Openers \cup Closers \cup Sales \cup Cancels
Shifts == Openers

ASSUME ShiftAssumption ==
    /\ Nobody \notin Txns
    /\ Openers \cap (Closers \cup Sales \cup Cancels) = {}
    /\ Closers \cap (Sales \cup Cancels) = {}
    /\ Sales \cap Cancels = {}
    /\ CashSales \cap OtherSales = {}

VARIABLES
    shift,      \* shift[s]: "none" before it is committed, "open" or "closed"
    counted,    \* closing_cash_sales of a closed shift
    closed_by,  \* the close that last wrote the shift
    order,      \* order[o]: "none", "fulfilled" or "cancelled", committed
    shift_id,   \* the shift an order was rung up in
    holder,     \* the transaction that holds the lock of a shift or order row
    pc,         \* what each request does next
    found,      \* the row a request has selected: a shift, an order for Cancels
    cash_sales, \* the sum a close has computed
    before      \* history: the requests that had succeeded when this one began

vars == <<shift, counted, closed_by, order, shift_id, holder, pc, found,
          cash_sales, before>>
store == <<shift, counted, closed_by, order, shift_id>>

-----------------------------------------------------------------------------
OpenShifts == {s \in Shifts : shift[s] = "open"}

\* Mutant: the sum is not restricted to the shift.
CashOfAllShifts(s) == {o \in CashSales : order[o] = "fulfilled"}

\* _compute_cash_sales: what a select sees of the shift's cash takings.
CashOf(s) == {o \in CashSales : shift_id[o] = s /\ order[o] = "fulfilled"}

\* The partial unique index on open shifts makes an insert wait for a
\* transaction that is inserting one or is updating the open one.
IndexBusy ==
    \/ \E u \in Openers : pc[u] = "commit"
    \/ \E s \in OpenShifts : holder[s] # Nobody

Begin(t) ==
    /\ pc[t] = "idle"
    /\ before' = [before EXCEPT ![t] = {u \in Txns : pc[u] = "done"}]

End(t, outcome) ==
    /\ pc' = [pc EXCEPT ![t] = outcome]
    /\ holder' = [x \in Txns |-> IF holder[x] = t THEN Nobody ELSE holder[x]]

\* HTTP 409 from the first select.
Refuse(t) ==
    /\ Begin(t)
    /\ End(t, "failed")
    /\ UNCHANGED <<store, found, cash_sales>>

\* The row the first select returns.
Select(t, x, next) ==
    /\ Begin(t)
    /\ found' = [found EXCEPT ![t] = x]
    /\ pc' = [pc EXCEPT ![t] = next]
    /\ UNCHANGED <<store, holder, cash_sales>>

-----------------------------------------------------------------------------
Init ==
    /\ shift = [s \in Shifts |-> "none"]
    /\ counted = [s \in Shifts |-> {}]
    /\ closed_by = [s \in Shifts |-> Nobody]
    /\ order = [o \in Sales |-> "none"]
    /\ shift_id = [o \in Sales |-> Nobody]
    /\ holder = [x \in Txns |-> Nobody]
    /\ pc = [t \in Txns |-> "idle"]
    /\ found = [t \in Txns |-> Nobody]
    /\ cash_sales = [t \in Closers |-> {}]
    /\ before = [t \in Txns |-> {}]

\* open_shift: no open shift is seen.
CheckNoneOpen(t) ==
    /\ t \in Openers
    /\ IF OpenShifts = {} THEN Select(t, t, "insert") ELSE Refuse(t)

\* flush: the insert of the open shift; an IntegrityError answers 409.
InsertShift(t) ==
    /\ t \in Openers /\ pc[t] = "insert"
    /\ ~IndexBusy
    /\ IF OpenShifts = {}
       THEN pc' = [pc EXCEPT ![t] = "commit"] /\ UNCHANGED holder
       ELSE End(t, "failed")
    /\ UNCHANGED <<store, found, cash_sales, before>>

CommitOpen(t) ==
    /\ t \in Openers /\ pc[t] = "commit"
    /\ shift' = [shift EXCEPT ![t] = "open"]
    /\ End(t, "done")
    /\ UNCHANGED <<counted, closed_by, order, shift_id, found, cash_sales, before>>

\* close_shift: the open shift, else 409.
FindShiftToClose(t) ==
    /\ t \in Closers
    /\ \/ \E s \in OpenShifts : Select(t, s, "compute")
       \/ OpenShifts = {} /\ Refuse(t)

ComputeCashSales(t) ==
    /\ t \in Closers /\ pc[t] = "compute"
    /\ cash_sales' = [cash_sales EXCEPT ![t] = CashOf(found[t])]
    /\ pc' = [pc EXCEPT ![t] = "update"]
    /\ UNCHANGED <<store, holder, found, before>>

\* flush in commit: UPDATE pos_shifts ... WHERE id, once the row is free.
UpdateShift(t) ==
    /\ t \in Closers /\ pc[t] = "update"
    /\ holder[found[t]] = Nobody
    /\ holder' = [holder EXCEPT ![found[t]] = t]
    /\ pc' = [pc EXCEPT ![t] = "commit"]
    /\ UNCHANGED <<store, found, cash_sales, before>>

CommitClose(t) ==
    /\ t \in Closers /\ pc[t] = "commit"
    /\ shift' = [shift EXCEPT ![found[t]] = "closed"]
    /\ counted' = [counted EXCEPT ![found[t]] = cash_sales[t]]
    /\ closed_by' = [closed_by EXCEPT ![found[t]] = t]
    /\ End(t, "done")
    /\ UNCHANGED <<order, shift_id, found, cash_sales, before>>

\* Mutant: the sale joins any shift there is.
FindAnyShiftForSale(t) ==
    /\ t \in Sales
    /\ \/ \E s \in Shifts : shift[s] # "none" /\ Select(t, s, "commit")
       \/ OpenShifts = {} /\ Refuse(t)

\* create_pos_order: the gate, the open shift or 409.
FindShiftForSale(t) ==
    /\ t \in Sales
    /\ \/ \E s \in OpenShifts : Select(t, s, "commit")
       \/ OpenShifts = {} /\ Refuse(t)

\* The order (OrderStock) is created, joins the shift found and commits; the
\* foreign key does not look at the shift's status.
CommitSale(t) ==
    /\ t \in Sales /\ pc[t] = "commit"
    /\ order' = [order EXCEPT ![t] = "fulfilled"]
    /\ shift_id' = [shift_id EXCEPT ![t] = found[t]]
    /\ End(t, "done")
    /\ UNCHANGED <<shift, counted, closed_by, found, cash_sales, before>>

\* cancel_pos_order: a fulfilled order, else 404 or 409.
FindOrder(t) ==
    /\ t \in Cancels
    /\ \/ \E o \in Sales : order[o] = "fulfilled" /\ Select(t, o, "update")
       \/ (\E o \in Sales : order[o] # "fulfilled") /\ Refuse(t)

UpdateOrder(t) ==
    /\ t \in Cancels /\ pc[t] = "update"
    /\ holder[found[t]] = Nobody
    /\ holder' = [holder EXCEPT ![found[t]] = t]
    /\ pc' = [pc EXCEPT ![t] = "commit"]
    /\ UNCHANGED <<store, found, cash_sales, before>>

CommitCancel(t) ==
    /\ t \in Cancels /\ pc[t] = "commit"
    /\ order' = [order EXCEPT ![found[t]] = "cancelled"]
    /\ End(t, "done")
    /\ UNCHANGED <<shift, counted, closed_by, shift_id, found, cash_sales, before>>

\* An exception or a lost connection before the commit.
Rollback(t) ==
    /\ pc[t] \in {"insert", "compute", "update", "commit"}
    /\ End(t, "failed")
    /\ UNCHANGED <<store, found, cash_sales, before>>

\* A request that waits for a lock which nobody frees would be a deadlock here.
Finished == (\A t \in Txns : pc[t] \in {"done", "failed"}) /\ UNCHANGED vars

Step(t) ==
    \/ CheckNoneOpen(t) \/ InsertShift(t) \/ CommitOpen(t)
    \/ FindShiftToClose(t) \/ ComputeCashSales(t) \/ UpdateShift(t) \/ CommitClose(t)
    \/ FindShiftForSale(t) \/ CommitSale(t)
    \/ FindOrder(t) \/ UpdateOrder(t) \/ CommitCancel(t)

Next == (\E t \in Txns : Step(t) \/ Rollback(t)) \/ Finished

Spec == Init /\ [][Next]_vars

-----------------------------------------------------------------------------
TypeOK ==
    /\ shift \in [Shifts -> {"none", "open", "closed"}]
    /\ counted \in [Shifts -> SUBSET CashSales]
    /\ closed_by \in [Shifts -> Closers \cup {Nobody}]
    /\ order \in [Sales -> {"none", "fulfilled", "cancelled"}]
    /\ shift_id \in [Sales -> Shifts \cup {Nobody}]
    /\ holder \in [Txns -> Txns \cup {Nobody}]
    /\ pc \in [Txns -> {"idle", "insert", "compute", "update", "commit",
                        "done", "failed"}]
    /\ found \in [Txns -> Shifts \cup Sales \cup {Nobody}]
    /\ cash_sales \in [Closers -> SUBSET CashSales]
    /\ before \in [Txns -> SUBSET Txns]

\* However cashiers race to open and close, at most one shift is open, and the
\* count a close leaves holds for everything that was over when the close
\* began: no sale of another shift, no order cancelled before, and every cash
\* sale of the shift that had succeeded and was not cancelled.
CountIsSound ==
    /\ Cardinality(OpenShifts) <= 1
    /\ \A s \in Shifts : shift[s] = "closed" =>
        LET past == before[closed_by[s]]
            live == {o \in CashSales : shift_id[o] = s /\ order[o] = "fulfilled"}
        IN  /\ \A o \in counted[s] :
                  shift_id[o] = s /\ \A u \in Cancels \cap past : found[u] # o
            /\ live \cap past \subseteq counted[s]

\* A sale that begins after a close has answered is never rung up in the shift
\* it closed, also when another shift was opened in between.
NoSaleAfterClose ==
    \A o \in Sales : order[o] # "none" =>
        \A c \in Closers \cap before[o] : found[c] # shift_id[o]

\* backlog-v1.md line 523, "A POS sale requires an open shift": a sale only
\* ever joins a shift that is open.
SaleNeedsOpenShift ==
    [][\A o \in Sales :
          order[o] = "none" /\ order'[o] # "none" => shift[shift_id'[o]] = "open"]_vars
=============================================================================
