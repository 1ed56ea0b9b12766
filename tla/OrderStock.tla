----------------------------- MODULE OrderStock ------------------------------
(* Stock under concurrent transactions: storefront and POS sales             *)
(* (services/order_create.py), cancellations that restore stock and restocks *)
(* (services/inventory.py), and product or variant edits (api/v1/products.py,*)
(* api/v1/product_variants.py), one SQL statement per action.                *)
(*                                                                           *)
(* PostgreSQL runs every request as one READ COMMITTED transaction. A plain  *)
(* SELECT sees the committed rows. An UPDATE locks its row until the         *)
(* transaction ends: if its WHERE clause holds of the committed row it waits *)
(* for the holder and tests the clause again, and if not it changes nothing. *)
EXTENDS Integers, Sequences, FiniteSetsExt

CONSTANTS
    Txns,       \* requests, one transaction each; a sale's order is named by it
    Products,   \* rows of table products
    Variants,   \* rows of table product_variants
    ParentOf,   \* the product of each variant
    InitStock,  \* stock_qty at the start
    InitTracked,\* the products with track_inventory at the start
    Requests,   \* the requests clients may send
    Null,       \* stock_qty NULL
    Number,     \* the advisory lock of the tenant's order numbers
    Nobody      \* the holder of a free lock

Rows == Products \cup Variants
Resources == Rows \cup Txns \cup {Number}    \* what a transaction may lock
Quantity == Nat \cup {Null}
Line == [row : Rows, qty : Quantity]

Sales == {"storefront", "pos"}
Edits == {"edit", "track", "untrack"}    \* PATCH of stock_qty, track_inventory
Kinds == Sales \cup Edits \cup {"cancel", "restock"}

Request == [kind : Kinds, lines : Seq(Line), order : Txns \cup {Nobody}]

ASSUME StockAssumption ==
    /\ IsFiniteSet(Txns)
    /\ ParentOf \in [Variants -> Products]
    /\ Products \cap Variants = {} /\ Rows \cap Txns = {}
    /\ Number \notin Rows \cup Txns
    /\ Nobody \notin Txns /\ Null \notin Int
    /\ InitStock \in [Rows -> Quantity]
    /\ InitTracked \subseteq Products
    /\ Requests \subseteq Request
    \* the schemas: an order has a line, a restock or an edit names one row, and
    \* only an edit may carry NULL or 0
    /\ \A q \in Requests :
          /\ q.kind \in Sales => Len(q.lines) > 0
          /\ q.kind \in Edits \cup {"restock"} => Len(q.lines) = 1
          /\ q.kind \in Sales \cup {"restock"} =>
                \A i \in DOMAIN q.lines : q.lines[i].qty \in Nat \ {0}
          /\ q.kind = "cancel" <=> q.order \in Txns
          /\ q.kind \in {"restock", "track", "untrack"} =>
                \A i \in DOMAIN q.lines : q.lines[i].row \in Products

VARIABLES
    stock,      \* stock[r]: committed stock_qty
    new,        \* new[r]: stock_qty as the holder of r's lock has written it
    tracked,    \* products with track_inventory, committed
    holder,     \* holder[x]: the transaction that holds the lock of x
    status,     \* status[o]: of the committed order o, "none" if there is none
    number,     \* number[o]: of the order o, 0 before it is numbered
    moves,      \* committed rows of stock_movements
    pc,         \* pc[t]: what t executes next
    req,        \* req[t]: the request of t; a cancellation's lines are its order's
    line,       \* line[t]: the line t is at
    snap,       \* snap[t]: track_inventory of the products t has loaded
    seen,       \* seen[t]: the stock_qty an edit has loaded
    taken,      \* taken[o]: the lines of sale o that decremented stock
    pend        \* pend[t]: stock_movements rows t inserted, uncommitted

shared == <<stock, tracked, status, moves>>
vars == <<stock, new, tracked, holder, status, number, moves, pc, req, line,
          snap, seen, taken, pend>>

-----------------------------------------------------------------------------
Product(r) == IF r \in Variants THEN ParentOf[r] ELSE r
Here(t) == req[t].lines[line[t]]
Tracking(p) == IF p \in tracked THEN "tracked" ELSE "untracked"
\* A loaded product stays in the session's identity map and is not read again.
Load(t, ps) ==
    [p \in Products |-> IF p \in ps /\ snap[t][p] = "unread" THEN Tracking(p)
                        ELSE snap[t][p]]
Visible(t, r) == IF holder[r] = t THEN new[r] ELSE stock[r]
CanLock(t, x) == holder[x] \in {t, Nobody}
Lock(t, x) == holder' = [holder EXCEPT ![x] = t]
Add(q, d) == IF q = Null THEN Null ELSE q + d
Placed == {o \in Txns : status[o] # "none"}

\* Mutant: the POS decrement without prevent_negative_stock.
SufficesUnlessPos(t) ==
    \/ req[t].kind = "pos"
    \/ /\ Visible(t, Here(t).row) # Null
       /\ Visible(t, Here(t).row) >= Here(t).qty

\* The WHERE clause of the decrement of the line t is at.
Suffices(t) ==
    /\ Visible(t, Here(t).row) # Null
    /\ Visible(t, Here(t).row) >= Here(t).qty
    /\ req[t].kind = "storefront" /\ Here(t).row \in Products
          => Here(t).row \in tracked

\* stock_movements row for the line t is at.
Movement(t, delta, reason) ==
    [by |-> t, line |-> line[t], row |-> Here(t).row, delta |-> delta,
     reason |-> reason,
     order |-> IF req[t].kind = "cancel" THEN req[t].order
               ELSE IF req[t].kind = "restock" THEN Nobody ELSE t]

\* Mutant: the guarded path returns before db.add(movement).
RecordGuardedSilently(t, delta, reason) ==
    /\ Lock(t, Here(t).row)
    /\ new' = [new EXCEPT ![Here(t).row] = Add(@, delta)]
    /\ pend' = [pend EXCEPT ![t] =
                   @ \cup {m \in {Movement(t, delta, reason)} : m.delta > 0}]

\* record_stock_movement after its guard: UPDATE of the row, INSERT of the
\* movement, both in the caller's transaction.
RecordMovement(t, delta, reason) ==
    /\ Lock(t, Here(t).row)
    /\ new' = [new EXCEPT ![Here(t).row] = Add(@, delta)]
    /\ pend' = [pend EXCEPT ![t] = @ \cup {Movement(t, delta, reason)}]

\* The loop over the lines: on to the next one, or to what follows the loop.
NextLine(t, loop, after) ==
    IF line[t] < Len(req[t].lines)
    THEN /\ line' = [line EXCEPT ![t] = @ + 1]
         /\ pc' = [pc EXCEPT ![t] = loop]
    ELSE /\ pc' = [pc EXCEPT ![t] = after]
         /\ UNCHANGED line

\* Mutant: a session-level advisory lock, which outlives the transaction.
ReleasedButNumber(t) ==
    [x \in Resources |-> IF holder[x] = t /\ x # Number THEN Nobody ELSE holder[x]]

Released(t) == [x \in Resources |-> IF holder[x] = t THEN Nobody ELSE holder[x]]

Unread == [p \in Products |-> "unread"]

\* The transaction ends and its session is closed: locks and objects are gone.
EndSession(t) ==
    /\ holder' = Released(t)
    /\ pend' = [pend EXCEPT ![t] = {}]
    /\ line' = [line EXCEPT ![t] = 1]
    /\ snap' = [snap EXCEPT ![t] = Unread]
    /\ seen' = [seen EXCEPT ![t] = Null]
    /\ pc' = [pc EXCEPT ![t] = "done"]

\* The end without commit: nothing t wrote remains.
Undo(t) ==
    /\ new' = [r \in Rows |-> IF holder[r] = t THEN stock[r] ELSE new[r]]
    /\ taken' = [taken EXCEPT ![t] = {}]
    /\ number' = [number EXCEPT ![t] = 0]
    /\ EndSession(t)
    /\ UNCHANGED <<shared, req>>

-----------------------------------------------------------------------------
Init ==
    /\ stock = InitStock /\ new = InitStock /\ tracked = InitTracked
    /\ holder = [x \in Resources |-> Nobody]
    /\ status = [o \in Txns |-> "none"]
    /\ number = [o \in Txns |-> 0]
    /\ moves = {}
    /\ pc = [t \in Txns |-> "idle"]
    /\ req = [t \in Txns |-> [kind |-> "restock", lines |-> <<>>, order |-> Nobody]]
    /\ line = [t \in Txns |-> 1]
    /\ snap = [t \in Txns |-> Unread]
    /\ seen = [t \in Txns |-> Null]
    /\ taken = [t \in Txns |-> {}]
    /\ pend = [t \in Txns |-> {}]

Begin(t) ==
    /\ pc[t] = "idle"
    /\ \E q \in Requests : req' = [req EXCEPT ![t] = q]
    /\ pc' = [pc EXCEPT ![t] = "read"]
    /\ UNCHANGED <<shared, new, holder, number, line, snap, seen, taken, pend>>

-----------------------------------------------------------------------------
(* create_order *)

\* The product select: the ORM objects keep what it returned.
ReadCatalog(t) ==
    /\ pc[t] = "read" /\ req[t].kind \in Sales
    /\ snap' = [snap EXCEPT ![t] =
          Load(t, {Product(req[t].lines[i].row) : i \in DOMAIN req[t].lines})]
    /\ pc' = [pc EXCEPT ![t] = IF req[t].kind = "pos" THEN "number" ELSE "take"]
    /\ UNCHANGED <<shared, new, holder, number, req, line, seen, taken, pend>>

\* What a sale does after its decrements.
AfterTake(t) == IF req[t].kind = "pos" THEN "commit" ELSE "number"

\* "if not product.track_inventory: continue"
SkipLine(t) ==
    /\ pc[t] = "take"
    /\ snap[t][Product(Here(t).row)] = "untracked"
    /\ NextLine(t, "take", AfterTake(t))
    /\ UNCHANGED <<shared, new, holder, number, req, snap, seen, taken, pend>>

\* The guarded decrement of one line: raw SQL for the storefront, an audited
\* movement for the POS.
TakeLine(t) ==
    /\ pc[t] = "take"
    /\ snap[t][Product(Here(t).row)] = "tracked"
    /\ CanLock(t, Here(t).row)
    /\ Suffices(t)
    /\ IF req[t].kind = "pos"
       THEN RecordMovement(t, -Here(t).qty, "pos_sale")
       ELSE /\ Lock(t, Here(t).row)
            /\ new' = [new EXCEPT ![Here(t).row] = @ - Here(t).qty]
            /\ UNCHANGED pend
    /\ taken' = [taken EXCEPT ![t] = @ \cup {line[t]}]
    /\ NextLine(t, "take", AfterTake(t))
    /\ UNCHANGED <<shared, number, req, snap, seen>>

\* Mutant: a line that is out of stock is left out of the order.
SkipOutOfStock(t) ==
    /\ pc[t] = "take"
    /\ snap[t][Product(Here(t).row)] = "tracked"
    /\ ~Suffices(t)
    /\ NextLine(t, "take", AfterTake(t))
    /\ UNCHANGED <<shared, new, holder, number, req, snap, seen, taken, pend>>

\* rowcount 0: HTTP 409, and the exception rolls the transaction back.
OutOfStock(t) ==
    /\ pc[t] = "take"
    /\ snap[t][Product(Here(t).row)] = "tracked"
    /\ ~Suffices(t)
    /\ Undo(t)

\* Mutant: the number is read without the advisory lock.
SkipNumberLock(t) ==
    /\ pc[t] = "number"
    /\ pc' = [pc EXCEPT ![t] = "insert"]
    /\ UNCHANGED <<shared, new, holder, number, req, line, snap, seen, taken, pend>>

\* get_next_order_number: the advisory lock, waited for if another holds it.
LockNumber(t) ==
    /\ pc[t] = "number"
    /\ CanLock(t, Number)
    /\ Lock(t, Number)
    /\ pc' = [pc EXCEPT ![t] = "insert"]
    /\ UNCHANGED <<shared, new, number, req, line, snap, seen, taken, pend>>

MaxNumber ==
    CHOOSE n \in {0} \cup {number[o] : o \in Placed} :
        \A o \in Placed : number[o] <= n

\* MAX(order_number) + 1, then INSERT of the order.
InsertOrder(t) ==
    /\ pc[t] = "insert"
    /\ number' = [number EXCEPT ![t] = MaxNumber + 1]
    /\ pc' = [pc EXCEPT ![t] = IF req[t].kind = "pos" THEN "take" ELSE "commit"]
    /\ UNCHANGED <<shared, new, holder, req, line, snap, seen, taken, pend>>

-----------------------------------------------------------------------------
(* Cancellation: transition_order_status and cancel_pos_order *)

\* The unlocked select of the order; only an open order may be cancelled.
ReadOrder(t) ==
    LET o == req[t].order IN
    /\ pc[t] = "read" /\ req[t].kind = "cancel"
    /\ status[o] \in {"pending", "fulfilled"}
    /\ req' = [req EXCEPT ![t].lines = req[o].lines]
    /\ pc' = [pc EXCEPT ![t] = "mark"]
    /\ UNCHANGED <<shared, new, holder, number, line, snap, seen, taken, pend>>

\* 404, 409 or 422: no such order, or it is cancelled already.
RefuseCancel(t) ==
    /\ pc[t] = "read" /\ req[t].kind = "cancel"
    /\ status[req[t].order] \in {"none", "cancelled"}
    /\ Undo(t)

\* UPDATE orders SET status = 'cancelled' WHERE id = ...: locks the order row.
MarkCancelled(t) ==
    /\ pc[t] = "mark"
    /\ CanLock(t, req[t].order)
    /\ Lock(t, req[t].order)
    /\ pc' = [pc EXCEPT ![t] = "check"]
    /\ UNCHANGED <<shared, new, number, req, line, snap, seen, taken, pend>>

\* Mutant: no idempotency check.
NeverRestored(t, o, r) == FALSE

\* Whether order o already has a restore movement of row r that t can see.
Restored(t, o, r) ==
    \E m \in moves \cup pend[t] :
        m.reason = "order_cancel_restore" /\ m.order = o /\ m.row = r

\* restore_stock_for_cancelled_order, the two selects of one line: skip a
\* product that is not tracked and a row restored before.
CheckLine(t) ==
    LET p == Product(Here(t).row) IN
    /\ pc[t] = "check"
    /\ snap' = [snap EXCEPT ![t] = Load(t, {p})]
    /\ IF snap'[t][p] = "tracked" /\ ~Restored(t, req[t].order, Here(t).row)
       THEN pc' = [pc EXCEPT ![t] = "put"] /\ UNCHANGED line
       ELSE NextLine(t, "check", "commit")
    /\ UNCHANGED <<shared, new, holder, number, req, seen, taken, pend>>

-----------------------------------------------------------------------------
(* Restock: restock_product *)

ReadForRestock(t) ==
    /\ pc[t] = "read" /\ req[t].kind = "restock"
    /\ Product(Here(t).row) \in tracked
    /\ pc' = [pc EXCEPT ![t] = "put"]
    /\ UNCHANGED <<shared, new, holder, number, req, line, snap, seen, taken, pend>>

\* 422: cannot restock a product that does not track inventory.
RefuseRestock(t) ==
    /\ pc[t] = "read" /\ req[t].kind = "restock"
    /\ Product(Here(t).row) \notin tracked
    /\ Undo(t)

\* record_stock_movement without a guard, for a restore and for a restock.
PutBack(t) ==
    /\ pc[t] = "put"
    /\ CanLock(t, Here(t).row)
    /\ RecordMovement(t, Here(t).qty,
          IF req[t].kind = "cancel" THEN "order_cancel_restore"
          ELSE "manual_restock")
    /\ NextLine(t, "check", "commit")
    /\ UNCHANGED <<shared, number, req, snap, seen, taken>>

-----------------------------------------------------------------------------
(* PATCH of a product or variant: update_product, update_variant *)

\* The select of the row to edit.
ReadForEdit(t) ==
    /\ pc[t] = "read" /\ req[t].kind \in Edits
    /\ seen' = [seen EXCEPT ![t] = stock[Here(t).row]]
    /\ snap' = [snap EXCEPT ![t] = Load(t, {Product(Here(t).row)})]
    /\ pc' = [pc EXCEPT ![t] = "edit"]
    /\ UNCHANGED <<shared, new, holder, number, req, line, taken, pend>>

\* Columns the session flushes: those whose value differs from the loaded one.
ChangesQty(t) == Here(t).qty # seen[t]
ChangesTracking(t) ==
    \/ req[t].kind = "track" /\ snap[t][Product(Here(t).row)] = "untracked"
    \/ req[t].kind = "untrack" /\ snap[t][Product(Here(t).row)] = "tracked"

WriteEdit(t) ==
    /\ pc[t] = "edit"
    /\ IF ChangesQty(t) \/ ChangesTracking(t)
       THEN /\ CanLock(t, Here(t).row)
            /\ Lock(t, Here(t).row)
            /\ new' = [new EXCEPT ![Here(t).row] =
                          IF ChangesQty(t) THEN Here(t).qty ELSE @]
       ELSE UNCHANGED <<new, holder>>
    /\ pc' = [pc EXCEPT ![t] = "commit"]
    /\ UNCHANGED <<shared, number, req, line, snap, seen, taken, pend>>

-----------------------------------------------------------------------------
\* session.commit(): everything t wrote becomes visible, its locks are freed.
Commit(t) ==
    /\ pc[t] = "commit"
    /\ stock' = [r \in Rows |-> IF holder[r] = t THEN new[r] ELSE stock[r]]
    /\ \/ /\ req[t].kind \in Sales
          /\ status' = [status EXCEPT ![t] =
                           IF req[t].kind = "pos" THEN "fulfilled" ELSE "pending"]
       \/ /\ req[t].kind = "cancel"
          /\ status' = [status EXCEPT ![req[t].order] = "cancelled"]
       \/ /\ req[t].kind \in Edits \cup {"restock"}
          /\ UNCHANGED status
    /\ tracked' = IF req[t].kind \in Edits /\ ChangesTracking(t)
                  THEN IF req[t].kind = "track"
                       THEN tracked \cup {Product(Here(t).row)}
                       ELSE tracked \ {Product(Here(t).row)}
                  ELSE tracked
    /\ moves' = moves \cup pend[t]
    /\ EndSession(t)
    /\ UNCHANGED <<new, number, req, taken>>

\* session.rollback() on any other exception, or a lost connection.
Rollback(t) ==
    /\ pc[t] \notin {"idle", "done"}
    /\ Undo(t)

\* What t needs a lock of to go on, if anything.
Wanted(t) ==
    CASE \/ pc[t] = "take" /\ snap[t][Product(Here(t).row)] = "tracked" /\ Suffices(t)
         \/ pc[t] = "put"
         \/ pc[t] = "edit" /\ (ChangesQty(t) \/ ChangesTracking(t)) -> {Here(t).row}
      [] pc[t] = "number" -> {Number}
      [] pc[t] = "mark" -> {req[t].order}
      [] OTHER -> {}

\* The transactions t waits for.
WaitsFor(t) == {holder[x] : x \in Wanted(t)} \ {t, Nobody}

\* t waits, through others of ts, for itself.
InCycleOf(t, ts) ==
    LET reach[n \in 0..Cardinality(Txns)] ==
            IF n = 0 THEN WaitsFor(t) \cap ts
            ELSE reach[n-1] \cup (ts \cap UNION {WaitsFor(u) : u \in reach[n-1]})
    IN t \in reach[Cardinality(Txns)]
InCycle(t) == InCycleOf(t, Txns)

\* PostgreSQL's deadlock detector aborts one transaction of a cycle.
DeadlockAbort(t) ==
    /\ InCycle(t)
    /\ Undo(t)

Finished == (\A t \in Txns : pc[t] = "done") /\ UNCHANGED vars

Step(t) ==
    \/ ReadCatalog(t) \/ SkipLine(t) \/ TakeLine(t) \/ OutOfStock(t)
    \/ LockNumber(t) \/ InsertOrder(t)
    \/ ReadOrder(t) \/ RefuseCancel(t) \/ MarkCancelled(t) \/ CheckLine(t)
    \/ ReadForRestock(t) \/ RefuseRestock(t) \/ PutBack(t)
    \/ ReadForEdit(t) \/ WriteEdit(t)
    \/ Commit(t) \/ DeadlockAbort(t)

Next ==
    \/ \E t \in Txns : Begin(t) \/ Step(t) \/ Rollback(t)
    \/ Finished

Spec == Init /\ [][Next]_vars

\* A started request is run by its server process; a lock that stays free is
\* granted, and the detector acts on a cycle that stays.
FairSpec == Spec /\ \A t \in Txns : WF_vars(Step(t))
-----------------------------------------------------------------------------
Movements ==
    [by : Txns, line : Nat, row : Rows, delta : Int, order : Txns \cup {Nobody},
     reason : {"pos_sale", "order_cancel_restore", "manual_restock"}]

TypeOK ==
    /\ stock \in [Rows -> Int \cup {Null}]
    /\ new \in [Rows -> Int \cup {Null}]
    /\ tracked \subseteq Products
    /\ holder \in [Resources -> Txns \cup {Nobody}]
    /\ status \in [Txns -> {"none", "pending", "fulfilled", "cancelled"}]
    /\ number \in [Txns -> Nat]
    /\ moves \subseteq Movements
    /\ pc \in [Txns -> {"idle", "read", "take", "number", "insert", "mark",
                        "check", "put", "edit", "commit", "done"}]
    /\ req \in [Txns -> Request]
    /\ line \in [Txns -> Nat \ {0}]
    /\ snap \in [Txns -> [Products -> {"unread", "tracked", "untracked"}]]
    /\ seen \in [Txns -> Int \cup {Null}]
    /\ taken \in [Txns -> SUBSET Nat]
    /\ pend \in [Txns -> SUBSET Movements]

\* Two buyers never take the same unit (M5b: "Atomic stock decrement on order
\* submit. 409 on insufficient stock"): no committed or pending stock_qty is
\* negative, although no handler locks a row before it reads it.
NeverOversold ==
    \A r \in Rows : \A q \in {stock[r], new[r]} : q = Null \/ q >= 0

\* However many cancellations of an order race each other, a row of it is
\* restored at most once (the promise of uq_stock_movements_cancel_restore,
\* which is not part of this model: the check in the loop must do without it).
RestoredAtMostOnce ==
    \A m1, m2 \in moves :
        /\ m1.reason = "order_cancel_restore" /\ m2.reason = "order_cancel_restore"
        /\ m1.order = m2.order /\ m1.row = m2.row
        => m1 = m2

LineQty(o, r, ls) ==
    MapThenSumSet(LAMBDA i : req[o].lines[i].qty,
                  {i \in ls : req[o].lines[i].row = r})
MovedQty(r, ms) == MapThenSumSet(LAMBDA m : m.delta, {m \in ms : m.row = r})

\* What an order that is neither cancelled nor lost keeps off the shelf, in a
\* shop that tracks all its products: all its lines.
Sold == [o \in Txns |-> [r \in Rows |->
            IF status[o] \in {"pending", "fulfilled"}
            THEN LineQty(o, r, DOMAIN req[o].lines) ELSE 0]]

\* The books of the shop: sales, cancellations and restocks as atomic steps.
Book == INSTANCE StockBook WITH shelf <- stock, sold <- Sold, Orders <- Txns

\* Concurrent sales, cancellations and restocks amount to the same requests
\* executed whole, one after the other: no decrement or restore is lost, none
\* is applied in part, and a cancelled order gives back what it took.
Serializable == Book!Spec

\* The units of row r in the storefront's orders, which took them without a
\* movement.
Shipped(r) == MapThenSumSet(LAMBDA o : LineQty(o, r, taken[o]),
                            {o \in Placed : req[o].kind = "storefront"})

\* The rows that no product or variant edit is asked for.
Unedited ==
    {r \in Rows : \A q \in Requests : q.kind \in Edits =>
                      \A i \in DOMAIN q.lines : q.lines[i].row # r}

\* The books balance in both channels: a stock_qty nobody edits is what it was,
\* plus the audited movements, minus what the storefront orders took without one
\* (and a NULL stays NULL, although movements of its row are recorded).
StockReconciles ==
    \A r \in Unedited : stock[r] = Add(InitStock[r], MovedQty(r, moves) - Shipped(r))

\* inventory.py line 119, "restore stock for tracked items in a cancelled
\* order": a cancelled order gives back, row by row, all that its lines took.
CancelRestoresAll ==
    \A o \in Txns, r \in Rows :
        status[o] = "cancelled" =>
            LineQty(o, r, taken[o])
                <= MovedQty(r, {m \in moves : m.order = o
                                  /\ m.reason = "order_cancel_restore"})

\* The same docstring: a cancelled order gives back no more than it took.
CancelRestoresNoMore ==
    \A o \in Txns, r \in Rows :
        MovedQty(r, {m \in moves : m.order = o
                       /\ m.reason = "order_cancel_restore"})
            <= LineQty(o, r, taken[o])

\* numbering.py lines 22-27, "concurrent callers ... serialise safely": no
\* transactions wait for each other in a circle.
NoLockCycle == \A t \in Txns : ~InCycle(t)

\* POS sales take the number before any stock row and restocks take one row, so
\* among themselves, whatever their carts, they never wait in a circle.
TillNeverDeadlocks ==
    LET till == {t \in Txns : req[t].kind \in {"pos", "restock"}}
    IN  \A t \in till : ~InCycleOf(t, till)

\* Every request that has started ends, whatever locks the others hold.
RequestsEnd == \A t \in Txns : pc[t] = "read" ~> pc[t] = "done"
=============================================================================
