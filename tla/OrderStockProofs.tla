-------------------------- MODULE OrderStockProofs ---------------------------
(* Proofs about OrderStock for any requests over any products and variants:  *)
(* its types, that no stock becomes negative, that racing cancellations      *)
(* restore a row of an order once, that sales at the till do not deadlock,   *)
(* that stock and ledger balance, and that in a shop without edits the       *)
(* requests are serializable (the refinement of StockBook).                  *)
EXTENDS OrderStock, Sums

\* Where a transaction is in its request, and how far in its lines.
Selling == {"take", "number", "insert"}
Cancelling == {"mark", "check", "put", "commit"}

\* The statement c belongs to the handler of request q.
Fits(c, q) ==
    /\ c \in Selling => q.kind \in Sales
    /\ c \in {"mark", "check"} => q.kind = "cancel"
    /\ c = "put" => q.kind \in {"cancel", "restock"}
    /\ c = "edit" => q.kind \in Edits

\* A transaction is at a statement of its own handler, a cancellation has found
\* its order, and an order that is there belongs to a sale that has ended.
ControlOK ==
    \A t \in Txns :
        /\ Fits(pc[t], req[t])
        /\ req[t].kind = "cancel" => req[t].order \in Txns
        /\ pc[t] \in Cancelling /\ req[t].kind = "cancel"
              => status[req[t].order] # "none"
        /\ status[t] # "none" => pc[t] = "done" /\ req[t].kind \in Sales

\* The lines a handler loops over: there is one, with units to move.
HasLines(q) ==
    /\ Len(q.lines) > 0
    /\ q.kind \in Edits \cup {"restock"} => Len(q.lines) = 1
    /\ q.kind \notin Edits => \A i \in DOMAIN q.lines : q.lines[i].qty \in Nat \ {0}

\* A handler is at a line of its request.
LinesOK ==
    \A t \in Txns :
        /\ pc[t] \notin {"idle", "done"} /\ req[t].kind # "cancel" => HasLines(req[t])
        /\ pc[t] \in Cancelling \/ status[t] # "none" => HasLines(req[t])
        /\ pc[t] \in {"idle", "read", "done"} => line[t] = 1
        /\ pc[t] \in Selling \cup Cancelling \cup {"edit"}
              => line[t] \in DOMAIN req[t].lines

\* No stock is negative, and a row that nobody has locked is as committed.
StockOK ==
    \A r \in Rows :
        /\ stock[r] \in Quantity /\ new[r] \in Quantity
        /\ holder[r] = Nobody => new[r] = stock[r]

Basic == TypeOK /\ ControlOK /\ LinesOK /\ StockOK

-----------------------------------------------------------------------------
\* The line a transaction is at, typed.
LEMMA HereTyped ==
    ASSUME Basic, NEW t \in Txns,
           \/ pc[t] \in Selling \cup Cancelling \cup {"edit"}
           \/ pc[t] = "read" /\ req[t].kind # "cancel"
    PROVE  /\ line[t] \in DOMAIN req[t].lines
           /\ Here(t) = req[t].lines[line[t]]
           /\ Here(t).row \in Rows /\ Here(t).qty \in Quantity
           /\ req[t].kind \notin Edits => Here(t).qty \in Nat \ {0}
<1>1. req[t].lines \in Seq(Line) /\ HasLines(req[t])
  BY DEF Basic, TypeOK, Request, ControlOK, Fits, LinesOK, Sales, Edits, Selling,
         Cancelling
<1>2. line[t] \in DOMAIN req[t].lines
  BY <1>1 DEF Basic, LinesOK, HasLines
<1>3. req[t].lines[line[t]] \in Line
  BY <1>1, <1>2
<1> QED  BY <1>1, <1>2, <1>3 DEF Here, Line, HasLines

\* The product of a stock row.
LEMMA ProductTyped == ASSUME NEW r \in Rows PROVE Product(r) \in Products
BY StockAssumption DEF Product, Rows

\* A request that is read from the inputs keeps its type.
LEMMA LoadTyped ==
    ASSUME TypeOK, NEW t \in Txns, NEW ps
    PROVE  Load(t, ps) \in [Products -> {"unread", "tracked", "untracked"}]
BY DEF TypeOK, Load, Tracking

\* The loop over the lines stays on a line.
LEMMA NextLineTyped ==
    ASSUME TypeOK, NEW t \in Txns, NEW loop, NEW after,
           line[t] \in DOMAIN req[t].lines, NextLine(t, loop, after)
    PROVE  /\ line' \in [Txns -> Nat \ {0}]
           /\ line'[t] \in DOMAIN req[t].lines
           /\ pc'[t] \in {loop, after}
           /\ \A u \in Txns \ {t} : line'[u] = line[u] /\ pc'[u] = pc[u]
           /\ \E c \in {loop, after} : pc' = [pc EXCEPT ![t] = c]
<1>1. req[t].lines \in Seq(Line) /\ line \in [Txns -> Nat \ {0}]
  BY DEF TypeOK, Request
<1>2. CASE line[t] < Len(req[t].lines)
  <2>1. /\ line' = [line EXCEPT ![t] = @ + 1]
        /\ pc' = [pc EXCEPT ![t] = loop]
    BY <1>2 DEF NextLine
  <2>2. line[t] + 1 \in DOMAIN req[t].lines /\ line[t] + 1 \in Nat \ {0}
    BY <1>1, <1>2
  <2> QED  BY <1>1, <2>1, <2>2 DEF TypeOK
<1>3. CASE ~(line[t] < Len(req[t].lines))
  BY <1>1, <1>3 DEF NextLine, TypeOK
<1> QED  BY <1>2, <1>3

\* A handler goes on to statement c, at a line of its request.
LEMMA GoOn ==
    ASSUME Basic, NEW t \in Txns, pc[t] \notin {"idle", "done"}, HasLines(req[t]),
           NEW c, c \notin {"idle", "read", "done"}, pc' = [pc EXCEPT ![t] = c],
           Fits(c, req[t]),
           c \in Cancelling /\ req[t].kind = "cancel" => status[req[t].order] # "none",
           line'[t] \in DOMAIN req[t].lines,
           \A u \in Txns \ {t} : line'[u] = line[u],
           UNCHANGED <<req, status>>
    PROVE  ControlOK' /\ LinesOK'
<1>1. pc'[t] = c /\ \A u \in Txns \ {t} : pc'[u] = pc[u]
  BY DEF Basic, TypeOK
<1>2. ControlOK'
  BY <1>1 DEF Basic, ControlOK, Fits
<1>3. LinesOK'
  BY <1>1 DEF Basic, LinesOK, HasLines
<1> QED  BY <1>2, <1>3

-----------------------------------------------------------------------------
\* The invariant holds before the first request.
LEMMA InitBasic == Init => Basic
<1> SUFFICES ASSUME Init PROVE Basic
  OBVIOUS
<1>1. TypeOK
  <2>1. \A t \in Txns : req[t] \in Request
    BY DEF Init, Request, Kinds
  <2> QED  BY <2>1, StockAssumption
           DEF Init, TypeOK, Quantity, Unread, Resources, Movements
<1>2. ControlOK
  BY DEF Init, ControlOK, Fits, Selling, Cancelling
<1>3. LinesOK
  BY DEF Init, LinesOK, Selling, Cancelling
<1>4. StockOK
  BY StockAssumption DEF Init, StockOK
<1> QED  BY <1>1, <1>2, <1>3, <1>4 DEF Basic

\* The end of a transaction whose effects are undone.
LEMMA UndoBasic == ASSUME Basic, NEW t \in Txns, Undo(t) PROVE Basic'
<1>1. TypeOK'
  BY DEF Basic, TypeOK, Undo, EndSession, Released, Unread, shared, Resources, Rows
<1>2. ControlOK'
  BY DEF Basic, TypeOK, ControlOK, Fits, Undo, EndSession, shared, Selling, Cancelling
<1>3. LinesOK'
  BY DEF Basic, TypeOK, LinesOK, ControlOK, Undo, EndSession, shared, Selling,
         Cancelling, HasLines
<1>4. StockOK'
  BY StockAssumption DEF Basic, TypeOK, StockOK, Undo, EndSession, Released, shared, Resources, Rows
<1> QED  BY <1>1, <1>2, <1>3, <1>4 DEF Basic

\* A request that starts.
LEMMA BeginBasic == ASSUME Basic, NEW t \in Txns, Begin(t) PROVE Basic'
<1>1. PICK q \in Requests : req' = [req EXCEPT ![t] = q]
  BY DEF Begin
<1>2. q \in Request /\ (q.kind # "cancel" => HasLines(q))
      /\ (q.kind = "cancel" => q.order \in Txns)
  BY StockAssumption DEF Request, Kinds, HasLines, Sales, Edits
<1>3. TypeOK'
  BY <1>1, <1>2 DEF Basic, TypeOK, Begin, shared
<1>4. ControlOK'
  BY <1>1, <1>2 DEF Basic, TypeOK, ControlOK, Fits, Begin, shared, Selling, Cancelling
<1>5. LinesOK'
  BY <1>1, <1>2 DEF Basic, TypeOK, ControlOK, LinesOK, Begin, shared, Selling, Cancelling
<1>6. StockOK'
  BY DEF Basic, StockOK, Begin, shared
<1> QED  BY <1>3, <1>4, <1>5, <1>6 DEF Basic

\* Steps that only move a handler on: no lock, no stock, no lines.
LEMMA ReadBasic ==
    ASSUME Basic, NEW t \in Txns,
           ReadCatalog(t) \/ ReadForRestock(t) \/ ReadForEdit(t)
    PROVE  Basic'
<1>1. Here(t).row \in Rows /\ Here(t).qty \in Quantity
  BY HereTyped DEF ReadCatalog, ReadForRestock, ReadForEdit, Sales, Edits
<1>2. TypeOK'
  <2>1. CASE ReadCatalog(t)
    BY <2>1, LoadTyped DEF Basic, TypeOK, ReadCatalog, shared
  <2>2. CASE ReadForRestock(t)
    BY <2>2 DEF Basic, TypeOK, ReadForRestock, shared
  <2>3. CASE ReadForEdit(t)
    BY <2>3, <1>1, LoadTyped DEF Basic, TypeOK, ReadForEdit, shared
  <2> QED  BY <2>1, <2>2, <2>3
<1>3. /\ pc[t] = "read" /\ req[t].kind # "cancel" /\ UNCHANGED <<req, status, line>>
      /\ \E c \in {"number", "take", "put", "edit"} :
            pc' = [pc EXCEPT ![t] = c] /\ Fits(c, req[t])
  BY DEF ReadCatalog, ReadForRestock, ReadForEdit, shared, Fits, Selling, Sales, Edits
<1>4. HasLines(req[t]) /\ line[t] \in DOMAIN req[t].lines
  BY <1>3, HereTyped DEF Basic, LinesOK
<1>5. ControlOK' /\ LinesOK'
  BY <1>3, <1>4, GoOn
<1>6. StockOK'
  BY DEF Basic, StockOK, ReadCatalog, ReadForRestock, ReadForEdit, shared
<1> QED  BY <1>2, <1>5, <1>6 DEF Basic

\* The MAX select returns a number: of the orders there are, one has the largest.
LEMMA MaxNumberTyped == ASSUME TypeOK PROVE MaxNumber \in Nat
<1> DEFINE S == {0} \cup {number[o] : o \in Placed}
           IsMax(n) == \A o \in Placed : number[o] <= n
<1>1. S \in SUBSET Nat
  BY DEF TypeOK, Placed
<1>2. IsFiniteSet(Placed) /\ \A o \in Placed : number[o] \in Nat
  BY StockAssumption, FS_Subset DEF Placed, TypeOK
<1>3. \E n \in S : IsMax(n)
  <2>1. CASE Placed = {}
    BY <2>1
  <2>2. CASE Placed # {}
    BY <2>2, <1>2, FiniteMax
  <2> QED  BY <2>1, <2>2
<1>4. MaxNumber = CHOOSE n \in S : IsMax(n)
  BY DEF MaxNumber
<1> QED  BY <1>1, <1>3, <1>4

\* The advisory lock of the number and the insert of the order.
LEMMA NumberBasic ==
    ASSUME Basic, NEW t \in Txns, LockNumber(t) \/ InsertOrder(t)
    PROVE  Basic'
<1>1. CASE LockNumber(t)
  <2>1. TypeOK'
    BY <1>1, StockAssumption DEF Basic, TypeOK, LockNumber, Lock, shared, Resources
  <2>2. /\ pc[t] = "number" /\ req[t].kind \in Sales
        /\ HasLines(req[t]) /\ line[t] \in DOMAIN req[t].lines
    BY <1>1 DEF LockNumber, Basic, ControlOK, LinesOK, Fits, Selling, Sales
  <2>3. ControlOK' /\ LinesOK'
    BY <1>1, <2>2, GoOn DEF LockNumber, shared, Fits, Selling, Cancelling
  <2>4. StockOK'
    BY <1>1, StockAssumption DEF Basic, TypeOK, StockOK, LockNumber, Lock, shared, Resources
  <2> QED  BY <2>1, <2>3, <2>4 DEF Basic
<1>2. CASE InsertOrder(t)
  <2>1. TypeOK'
    BY <1>2, MaxNumberTyped DEF Basic, TypeOK, InsertOrder, shared
  <2>2. /\ pc[t] = "insert" /\ req[t].kind \in Sales /\ req[t].kind # "cancel"
        /\ HasLines(req[t]) /\ line[t] \in DOMAIN req[t].lines
    BY <1>2 DEF InsertOrder, Basic, ControlOK, LinesOK, Fits, Selling, Sales
  <2>3. PICK c \in {"take", "commit"} : pc' = [pc EXCEPT ![t] = c]
    BY <1>2 DEF InsertOrder
  <2>4. ControlOK' /\ LinesOK'
    BY <1>2, <2>2, <2>3, GoOn DEF InsertOrder, shared, Fits, Selling, Cancelling
  <2>5. StockOK'
    BY <1>2 DEF Basic, StockOK, InsertOrder, shared
  <2> QED  BY <2>1, <2>4, <2>5 DEF Basic
<1> QED  BY <1>1, <1>2

\* A transaction sees the row it may lock as its holder left it.
LEMMA VisibleIsNew ==
    ASSUME Basic, NEW t \in Txns, NEW r \in Rows, CanLock(t, r)
    PROVE  Visible(t, r) = new[r]
BY StockAssumption DEF Basic, StockOK, CanLock, Visible

\* A statement that locks row r and writes q to it.
LEMMA WriteRow ==
    ASSUME Basic, NEW t \in Txns, NEW r \in Rows, NEW q \in Quantity,
           Lock(t, r), new' = [new EXCEPT ![r] = q], UNCHANGED stock
    PROVE  /\ StockOK'
           /\ new' \in [Rows -> Int \cup {Null}]
           /\ holder' \in [Resources -> Txns \cup {Nobody}]
BY StockAssumption DEF Basic, TypeOK, StockOK, Lock, Resources, Quantity

\* The statements of the loop that takes stock.
LEMMA TakeBasic ==
    ASSUME Basic, NEW t \in Txns, SkipLine(t) \/ TakeLine(t)
    PROVE  Basic'
<1> DEFINE r == Here(t).row
<1>1. /\ pc[t] = "take" /\ req[t].kind \in Sales
      /\ r \in Rows /\ Here(t).qty \in Nat \ {0} /\ line[t] \in DOMAIN req[t].lines
  <2>1. pc[t] = "take" /\ pc[t] \in Selling /\ req[t].kind \in Sales
    BY DEF SkipLine, TakeLine, Basic, ControlOK, Fits, Selling
  <2> QED  BY <2>1, HereTyped DEF Sales, Edits
<1>2. NextLine(t, "take", AfterTake(t)) /\ AfterTake(t) \in {"commit", "number"}
  BY DEF SkipLine, TakeLine, AfterTake
<1>3. /\ line' \in [Txns -> Nat \ {0}] /\ line'[t] \in DOMAIN req[t].lines
      /\ pc'[t] \in {"take", "commit", "number"}
      /\ \A u \in Txns \ {t} : line'[u] = line[u] /\ pc'[u] = pc[u]
      /\ \E c \in {"take", "commit", "number"} : pc' = [pc EXCEPT ![t] = c]
  BY <1>1, <1>2, NextLineTyped DEF Basic
<1>4. TakeLine(t) => /\ StockOK'
                     /\ new' \in [Rows -> Int \cup {Null}]
                     /\ holder' \in [Resources -> Txns \cup {Nobody}]
  <2> SUFFICES ASSUME TakeLine(t) PROVE /\ StockOK'
                     /\ new' \in [Rows -> Int \cup {Null}]
                     /\ holder' \in [Resources -> Txns \cup {Nobody}]
    OBVIOUS
  <2>1. new[r] \in Quantity /\ new[r] # Null /\ new[r] >= Here(t).qty
    BY <1>1, VisibleIsNew DEF TakeLine, Suffices, Basic, StockOK
  <2>2. PICK q : q = new[r] - Here(t).qty
    OBVIOUS
  <2>3. q \in Quantity /\ q = new[r] + (-Here(t).qty)
    BY <1>1, <2>1, <2>2 DEF Quantity
  <2>4. Lock(t, r) /\ new' = [new EXCEPT ![r] = q] /\ UNCHANGED stock
    BY <2>1, <2>2, <2>3 DEF TakeLine, RecordMovement, Add, shared
  <2> QED  BY <1>1, <2>3, <2>4, WriteRow
<1>5. TypeOK'
  <2>1. pc' \in [Txns -> {"idle", "read", "take", "number", "insert", "mark",
                          "check", "put", "edit", "commit", "done"}]
    BY <1>3 DEF Basic, TypeOK
  <2>2. CASE SkipLine(t)
    BY <2>1, <2>2, <1>3 DEF Basic, TypeOK, SkipLine, shared
  <2>3. CASE TakeLine(t)
    <3>1. new[r] \in Int \cup {Null} /\ Here(t).qty \in Int
      BY <1>1 DEF Basic, TypeOK
    <3>2. Movement(t, -Here(t).qty, "pos_sale") \in Movements
      BY <1>1 DEF Basic, TypeOK, Movement, Movements, Sales
    <3>3. pend' \in [Txns -> SUBSET Movements]
      BY <2>3, <3>2 DEF TakeLine, RecordMovement, Basic, TypeOK
    <3>4. taken' \in [Txns -> SUBSET Nat]
      BY <2>3, <1>1 DEF TakeLine, Basic, TypeOK
    <3> QED  BY <2>1, <2>3, <1>3, <1>4, <3>3, <3>4 DEF Basic, TypeOK, TakeLine, shared
  <2> QED  BY <2>2, <2>3
<1>6. ControlOK' /\ LinesOK'
  <2>1. HasLines(req[t]) /\ UNCHANGED <<req, status>> /\ req[t].kind # "cancel"
    BY <1>1 DEF Basic, LinesOK, SkipLine, TakeLine, shared, Sales
  <2>2. PICK c \in {"take", "commit", "number"} : pc' = [pc EXCEPT ![t] = c]
    BY <1>3
  <2>3. Fits(c, req[t])
    BY <1>1 DEF Fits, Selling
  <2> QED  BY <1>1, <1>3, <2>1, <2>2, <2>3, GoOn
<1>7. StockOK'
  BY <1>4 DEF SkipLine, shared, Basic, StockOK
<1> QED  BY <1>5, <1>6, <1>7 DEF Basic

\* The read of the order a cancellation is for.
LEMMA ReadOrderBasic == ASSUME Basic, NEW t \in Txns, ReadOrder(t) PROVE Basic'
<1> DEFINE o == req[t].order
<1>1. /\ pc[t] = "read" /\ req[t].kind = "cancel" /\ o \in Txns
      /\ status[o] # "none" /\ o # t /\ HasLines(req[o]) /\ req[o].kind \in Sales
  BY DEF ReadOrder, Basic, ControlOK, LinesOK
<1>2. /\ req' = [req EXCEPT ![t].lines = req[o].lines]
      /\ pc' = [pc EXCEPT ![t] = "mark"] /\ UNCHANGED <<status, line>>
  BY DEF ReadOrder, shared
<1>3. /\ req'[t] = [kind |-> "cancel", lines |-> req[o].lines, order |-> o]
      /\ \A u \in Txns \ {t} : req'[u] = req[u]
      /\ req[o] \in Request
  <2>1. req[t] \in Request /\ req[o] \in Request
    BY <1>1 DEF Basic, TypeOK
  <2>2. req'[t] = [req[t] EXCEPT !.lines = req[o].lines]
        /\ \A u \in Txns \ {t} : req'[u] = req[u]
    BY <1>2 DEF Basic, TypeOK
  <2>3. [req[t] EXCEPT !.lines = req[o].lines]
            = [kind |-> "cancel", lines |-> req[o].lines, order |-> o]
    BY <1>1, <2>1 DEF Request
  <2> QED  BY <2>1, <2>2, <2>3
<1>4. req'[t] \in Request /\ HasLines(req'[t])
  BY <1>1, <1>3 DEF Request, Kinds, HasLines, Sales, Edits
<1>5. TypeOK'
  BY <1>2, <1>3, <1>4 DEF ReadOrder, Basic, TypeOK, shared
<1>6. ControlOK'
  BY <1>1, <1>2, <1>3 DEF Basic, TypeOK, ControlOK, Fits, Selling, Cancelling
<1>7. LinesOK'
  <2>1. line[t] = 1 /\ 1 \in DOMAIN req'[t].lines
    BY <1>1, <1>4 DEF Basic, LinesOK, HasLines, Request
  <2> QED  BY <2>1, <1>1, <1>2, <1>3, <1>4
           DEF Basic, TypeOK, LinesOK, Selling, Cancelling
<1>8. StockOK'
  BY DEF ReadOrder, Basic, StockOK, shared
<1> QED  BY <1>5, <1>6, <1>7, <1>8 DEF Basic

\* The UPDATE of the order's status.
LEMMA MarkBasic == ASSUME Basic, NEW t \in Txns, MarkCancelled(t) PROVE Basic'
<1>1. /\ pc[t] = "mark" /\ req[t].kind = "cancel" /\ req[t].order \in Txns
      /\ status[req[t].order] # "none"
      /\ HasLines(req[t]) /\ line[t] \in DOMAIN req[t].lines
  BY DEF MarkCancelled, Basic, ControlOK, LinesOK, Fits, Cancelling
<1>2. TypeOK'
  BY <1>1 DEF MarkCancelled, Lock, Basic, TypeOK, shared, Resources
<1>3. ControlOK' /\ LinesOK'
  BY <1>1, GoOn DEF MarkCancelled, shared, Fits, Selling, Cancelling
<1>4. StockOK'
  BY <1>1, StockAssumption
  DEF MarkCancelled, Lock, Basic, TypeOK, StockOK, shared, Resources, Rows
<1> QED  BY <1>2, <1>3, <1>4 DEF Basic

\* The idempotency check of a row to restore.
LEMMA CheckBasic == ASSUME Basic, NEW t \in Txns, CheckLine(t) PROVE Basic'
<1>1. /\ pc[t] = "check" /\ req[t].kind = "cancel" /\ req[t].order \in Txns
      /\ status[req[t].order] # "none"
      /\ HasLines(req[t]) /\ line[t] \in DOMAIN req[t].lines
  BY DEF CheckLine, Basic, ControlOK, LinesOK, Fits, Cancelling
<1>2. /\ line' \in [Txns -> Nat \ {0}] /\ line'[t] \in DOMAIN req[t].lines
      /\ \A u \in Txns \ {t} : line'[u] = line[u]
      /\ \E c \in {"put", "check", "commit"} : pc' = [pc EXCEPT ![t] = c]
  <2>1. CASE NextLine(t, "check", "commit")
    BY <2>1, <1>1, NextLineTyped DEF Basic
  <2>2. CASE pc' = [pc EXCEPT ![t] = "put"] /\ UNCHANGED line
    BY <2>2, <1>1 DEF Basic, TypeOK
  <2> QED  BY <2>1, <2>2 DEF CheckLine
<1>3. TypeOK'
  <2>1. snap' \in [Txns -> [Products -> {"unread", "tracked", "untracked"}]]
    <3> DEFINE ld == Load(t, {Product(Here(t).row)})
    <3>1. ld \in [Products -> {"unread", "tracked", "untracked"}]
      BY LoadTyped DEF Basic
    <3>2. snap' = [snap EXCEPT ![t] = ld]
      BY DEF CheckLine
    <3> QED  BY <3>1, <3>2 DEF Basic, TypeOK
  <2>2. UNCHANGED <<stock, tracked, status, moves, new, holder, number, req, seen,
                    taken, pend>>
    BY DEF CheckLine, shared
  <2>3. pc' \in [Txns -> {"idle", "read", "take", "number", "insert", "mark",
                          "check", "put", "edit", "commit", "done"}]
    BY <1>2 DEF Basic, TypeOK
  <2> QED  BY <1>2, <2>1, <2>2, <2>3 DEF Basic, TypeOK
<1>4. ControlOK' /\ LinesOK'
  <2>1. PICK c \in {"put", "check", "commit"} : pc' = [pc EXCEPT ![t] = c]
    BY <1>2
  <2>2. Fits(c, req[t])
    BY <1>1 DEF Fits, Selling
  <2>3. UNCHANGED <<req, status>>
    BY DEF CheckLine, shared
  <2> QED  BY <1>1, <1>2, <2>1, <2>2, <2>3, GoOn
<1>5. StockOK'
  BY DEF CheckLine, Basic, StockOK, shared
<1> QED  BY <1>3, <1>4, <1>5 DEF Basic

\* The increment of a restore or of a restock.
LEMMA PutBasic == ASSUME Basic, NEW t \in Txns, PutBack(t) PROVE Basic'
<1> DEFINE r == Here(t).row
           reason == IF req[t].kind = "cancel" THEN "order_cancel_restore"
                     ELSE "manual_restock"
<1>1. /\ pc[t] = "put" /\ req[t].kind \in {"cancel", "restock"}
      /\ r \in Rows /\ Here(t).qty \in Nat \ {0} /\ line[t] \in DOMAIN req[t].lines
      /\ HasLines(req[t])
  <2>1. pc[t] = "put" /\ pc[t] \in Cancelling /\ req[t].kind \in {"cancel", "restock"}
    BY DEF PutBack, Basic, ControlOK, Fits, Cancelling
  <2> QED  BY <2>1, HereTyped DEF Edits, Basic, LinesOK
<1>2. /\ line' \in [Txns -> Nat \ {0}] /\ line'[t] \in DOMAIN req[t].lines
      /\ \A u \in Txns \ {t} : line'[u] = line[u]
      /\ \E c \in {"check", "commit"} : pc' = [pc EXCEPT ![t] = c]
  BY <1>1, NextLineTyped DEF PutBack, Basic
<1>3. /\ StockOK'
      /\ new' \in [Rows -> Int \cup {Null}]
      /\ holder' \in [Resources -> Txns \cup {Nobody}]
  <2>1. Add(new[r], Here(t).qty) \in Quantity
    BY <1>1 DEF Add, Quantity, Basic, StockOK
  <2>2. Lock(t, r) /\ new' = [new EXCEPT ![r] = Add(new[r], Here(t).qty)]
        /\ UNCHANGED stock
    BY <1>1 DEF PutBack, RecordMovement, shared, Basic, TypeOK
  <2> QED  BY <1>1, <2>1, <2>2, WriteRow
<1>4. TypeOK'
  <2>1. Movement(t, Here(t).qty, reason) \in Movements
    <3>1. req[t].order \in Txns \cup {Nobody} /\ line[t] \in Nat /\ Here(t).qty \in Int
      BY <1>1 DEF Basic, TypeOK, Request
    <3>2. reason \in {"pos_sale", "order_cancel_restore", "manual_restock"}
      OBVIOUS
    <3> HIDE DEF reason
    <3> QED  BY <1>1, <3>1, <3>2 DEF Movement, Movements
  <2>2. pend' \in [Txns -> SUBSET Movements]
    BY <2>1 DEF PutBack, RecordMovement, Basic, TypeOK
  <2>3. pc' \in [Txns -> {"idle", "read", "take", "number", "insert", "mark",
                          "check", "put", "edit", "commit", "done"}]
    BY <1>2 DEF Basic, TypeOK
  <2>4. UNCHANGED <<stock, tracked, status, moves, number, req, snap, seen, taken>>
    BY DEF PutBack, shared
  <2> QED  BY <1>2, <1>3, <2>2, <2>3, <2>4 DEF Basic, TypeOK
<1>5. ControlOK' /\ LinesOK'
  <2>1. PICK c \in {"check", "commit"} : pc' = [pc EXCEPT ![t] = c]
    BY <1>2
  <2>2. c = "commit" \/ req[t].kind = "cancel"
    <3>1. CASE req[t].kind = "restock"
      <4>1. line[t] = 1 /\ Len(req[t].lines) = 1
        BY <1>1, <3>1 DEF HasLines, Basic, TypeOK, Request
      <4>2. pc' = [pc EXCEPT ![t] = "commit"]
        BY <4>1 DEF PutBack, NextLine
      <4> QED  BY <2>1, <4>2, <1>1 DEF Basic, TypeOK
    <3> QED  BY <1>1, <3>1
  <2>3. Fits(c, req[t])
    BY <2>1, <2>2 DEF Fits, Selling
  <2>4. UNCHANGED <<req, status>>
    BY DEF PutBack, shared
  <2>5. req[t].kind = "cancel" => status[req[t].order] # "none"
    BY <1>1 DEF Basic, ControlOK, Cancelling
  <2> QED  BY <1>1, <1>2, <2>1, <2>3, <2>4, <2>5, GoOn
<1> QED  BY <1>3, <1>4, <1>5 DEF Basic

\* The UPDATE of an edit of a product.
LEMMA EditBasic == ASSUME Basic, NEW t \in Txns, WriteEdit(t) PROVE Basic'
<1> DEFINE r == Here(t).row
<1>1. /\ pc[t] = "edit" /\ req[t].kind \in Edits /\ HasLines(req[t])
      /\ r \in Rows /\ Here(t).qty \in Quantity /\ line[t] \in DOMAIN req[t].lines
  <2>1. pc[t] = "edit" /\ req[t].kind \in Edits
    BY DEF WriteEdit, Basic, ControlOK, Fits
  <2> QED  BY <2>1, HereTyped DEF Basic, LinesOK, Edits
<1>2. /\ StockOK'
      /\ new' \in [Rows -> Int \cup {Null}]
      /\ holder' \in [Resources -> Txns \cup {Nobody}]
  <2>1. CASE ChangesQty(t) \/ ChangesTracking(t)
    <3> DEFINE q == IF ChangesQty(t) THEN Here(t).qty ELSE new[r]
    <3>1. q \in Quantity
      BY <1>1 DEF Basic, StockOK
    <3>2. Lock(t, r) /\ new' = [new EXCEPT ![r] = q] /\ UNCHANGED stock
      BY <2>1 DEF WriteEdit, shared, Basic, TypeOK
    <3> HIDE DEF q
    <3> QED  BY <1>1, <3>1, <3>2, WriteRow
  <2>2. CASE ~(ChangesQty(t) \/ ChangesTracking(t))
    BY <2>2 DEF WriteEdit, shared, Basic, TypeOK, StockOK
  <2> QED  BY <2>1, <2>2
<1>3. /\ pc' = [pc EXCEPT ![t] = "commit"]
      /\ UNCHANGED <<stock, tracked, status, moves, number, req, line, snap, seen,
                     taken, pend>>
  BY DEF WriteEdit, shared
<1>4. TypeOK'
  BY <1>2, <1>3 DEF Basic, TypeOK
<1>5. ControlOK' /\ LinesOK'
  BY <1>1, <1>3, GoOn DEF Fits, Selling, Edits
<1> QED  BY <1>2, <1>4, <1>5 DEF Basic

\* The commit: private rows become the committed ones.
LEMMA CommitBasic == ASSUME Basic, NEW t \in Txns, Commit(t) PROVE Basic'
<1>1. /\ pc[t] = "commit" /\ HasLines(req[t])
      /\ req[t].kind = "cancel" =>
            req[t].order \in Txns /\ status[req[t].order] # "none"
  BY DEF Commit, Basic, ControlOK, LinesOK, Cancelling
<1>2. /\ status' \in [Txns -> {"none", "pending", "fulfilled", "cancelled"}]
      /\ \A o \in Txns : status'[o] # "none" =>
            status[o] # "none" \/ (o = t /\ req[t].kind \in Sales)
      /\ \A o \in Txns : status[o] # "none" => status'[o] # "none"
  <2>0. status \in [Txns -> {"none", "pending", "fulfilled", "cancelled"}]
    BY DEF Basic, TypeOK
  <2>1. CASE req[t].kind \in Sales
    <3>1. \E s \in {"pending", "fulfilled"} : status' = [status EXCEPT ![t] = s]
      BY <2>1 DEF Commit, Sales, Edits
    <3> QED  BY <2>0, <2>1, <3>1
  <2>2. CASE req[t].kind = "cancel"
    <3>1. status' = [status EXCEPT ![req[t].order] = "cancelled"]
      BY <2>2 DEF Commit, Sales, Edits
    <3> QED  BY <2>0, <2>2, <3>1, <1>1
  <2>3. CASE req[t].kind \in Edits \cup {"restock"}
    <3>1. status' = status
      BY <2>3 DEF Commit, Sales, Edits
    <3> QED  BY <2>0, <3>1
  <2> QED  BY <2>1, <2>2, <2>3 DEF Basic, TypeOK, Request, Kinds
<1>3. tracked' \subseteq Products
  BY HereTyped, ProductTyped, <1>1 DEF Commit, Basic, TypeOK, Edits, Cancelling
<1>4. /\ stock' = [r \in Rows |-> IF holder[r] = t THEN new[r] ELSE stock[r]]
      /\ moves' = moves \cup pend[t]
      /\ EndSession(t) /\ UNCHANGED <<new, number, req, taken>>
  BY DEF Commit
<1>5. TypeOK'
  BY <1>2, <1>3, <1>4 DEF Basic, TypeOK, EndSession, Released, Unread, Resources, Rows
<1>6. ControlOK'
  <2>1. /\ pc'[t] = "done" /\ \A u \in Txns \ {t} : pc'[u] = pc[u]
        /\ req' = req
    BY <1>4 DEF EndSession, Basic, TypeOK
  <2>2. ASSUME NEW u \in Txns
        PROVE  /\ Fits(pc'[u], req'[u])
               /\ req'[u].kind = "cancel" => req'[u].order \in Txns
               /\ pc'[u] \in Cancelling /\ req'[u].kind = "cancel"
                     => status'[req'[u].order] # "none"
               /\ status'[u] # "none" => pc'[u] = "done" /\ req'[u].kind \in Sales
    <3>1. CASE u = t
      BY <1>2, <2>1, <3>1 DEF Basic, ControlOK, Fits, Selling, Cancelling
    <3>2. CASE u # t
      BY <1>2, <2>1, <3>2 DEF Basic, ControlOK
    <3> QED  BY <3>1, <3>2
  <2> QED  BY <2>2 DEF ControlOK, Fits
<1>7. LinesOK'
  BY <1>1, <1>2, <1>4 DEF Basic, TypeOK, LinesOK, EndSession, Selling, Cancelling
<1>8. StockOK'
  BY <1>4, StockAssumption
  DEF Basic, TypeOK, StockOK, EndSession, Released, Resources, Rows
<1> QED  BY <1>5, <1>6, <1>7, <1>8 DEF Basic

\* Every step keeps the types, the control and the stock of the invariant.
LEMMA StepBasic == Basic /\ [Next]_vars => Basic'
<1> SUFFICES ASSUME Basic, [Next]_vars PROVE Basic'
  OBVIOUS
<1>1. ASSUME NEW t \in Txns, Begin(t) PROVE Basic'
  BY <1>1, BeginBasic
<1>2. ASSUME NEW t \in Txns, Step(t) PROVE Basic'
  <2>1. CASE ReadCatalog(t) \/ ReadForRestock(t) \/ ReadForEdit(t)
    BY <2>1, ReadBasic
  <2>2. CASE LockNumber(t) \/ InsertOrder(t)
    BY <2>2, NumberBasic
  <2>3. CASE SkipLine(t) \/ TakeLine(t)
    BY <2>3, TakeBasic
  <2>4. CASE OutOfStock(t) \/ RefuseCancel(t) \/ RefuseRestock(t) \/ DeadlockAbort(t)
    BY <2>4, UndoBasic DEF OutOfStock, RefuseCancel, RefuseRestock, DeadlockAbort
  <2>5. CASE ReadOrder(t) \/ MarkCancelled(t) \/ CheckLine(t)
    BY <2>5, ReadOrderBasic, MarkBasic, CheckBasic
  <2>6. CASE PutBack(t) \/ WriteEdit(t) \/ Commit(t)
    BY <2>6, PutBasic, EditBasic, CommitBasic
  <2> QED  BY <1>2, <2>1, <2>2, <2>3, <2>4, <2>5, <2>6 DEF Step
<1>3. ASSUME NEW t \in Txns, Rollback(t) PROVE Basic'
  BY <1>3, UndoBasic DEF Rollback
<1>4. CASE UNCHANGED vars
  BY <1>4 DEF vars, Basic, TypeOK, ControlOK, LinesOK, StockOK
<1> QED  BY <1>1, <1>2, <1>3, <1>4 DEF Next, Finished

\* Every run of the model has the types of TypeOK, for any requests.
THEOREM Types == Spec => []TypeOK
<1>1. Basic => TypeOK
  BY DEF Basic
<1> QED  BY <1>1, InitBasic, StepBasic, PTL DEF Spec

\* No unit is sold twice: whatever sales, cancellations, restocks and edits of
\* stock and tracking run at once, no stock_qty becomes negative.
THEOREM NoOverselling == Spec => []NeverOversold
<1>1. Basic => NeverOversold
  BY DEF Basic, StockOK, NeverOversold, Quantity
<1> QED  BY <1>1, InitBasic, StepBasic, PTL DEF Spec

-----------------------------------------------------------------------------
(* Restores of a cancelled order. The idempotency check of the restore loop  *)
(* reads without a lock; what makes it sound is that a cancellation holds    *)
(* the lock of the order's row from its UPDATE to its end.                   *)

IsRestore(m) == m.reason = "order_cancel_restore"

\* t is past the UPDATE of the order it cancels.
Restoring(t) == pc[t] \in {"check", "put", "commit"} /\ req[t].kind = "cancel"

\* A cancellation holds its order's row, only it has restores of that order
\* pending, none is doubled, and what it is about to restore is not yet.
RestoreOK ==
    /\ RestoredAtMostOnce
    /\ \A t \in Txns :
        /\ Restoring(t) => holder[req[t].order] = t
        /\ \A m \in pend[t] : IsRestore(m) => Restoring(t) /\ m.order = req[t].order
        /\ \A m1, m2 \in moves \cup pend[t] :
              /\ IsRestore(m1) /\ IsRestore(m2)
              /\ m1.order = m2.order /\ m1.row = m2.row
              => m1 = m2
        /\ pc[t] = "put" /\ req[t].kind = "cancel"
              => ~ Restored(t, req[t].order, Here(t).row)

Inv == Basic /\ RestoreOK

\* There is no restore before the first request.
LEMMA InitRestore == Init => RestoreOK
BY DEF Init, RestoreOK, RestoredAtMostOnce, Restoring

\* Steps that begin, add and commit no restore.
LEMMA NoRestore ==
    ASSUME RestoreOK, moves' = moves,
           \A u \in Txns : \A m \in pend'[u] :
              IsRestore(m) => m \in pend[u] /\ Restoring(u)',
           \A u \in Txns : Restoring(u)' =>
              /\ Restoring(u) /\ req'[u] = req[u]
              /\ holder'[req[u].order] = holder[req[u].order],
           \A u \in Txns : pc'[u] = "put" /\ req'[u].kind = "cancel" =>
              pc[u] = "put" /\ line'[u] = line[u]
    PROVE  RestoreOK'
<1>1. RestoredAtMostOnce'
  BY DEF RestoreOK, RestoredAtMostOnce
<1>2. ASSUME NEW u \in Txns
      PROVE  /\ Restoring(u)' => holder'[req'[u].order] = u
             /\ \A m \in pend'[u] : IsRestore(m) =>
                   Restoring(u)' /\ m.order = req'[u].order
             /\ \A m1, m2 \in moves' \cup pend'[u] :
                   /\ IsRestore(m1) /\ IsRestore(m2)
                   /\ m1.order = m2.order /\ m1.row = m2.row
                   => m1 = m2
  BY DEF RestoreOK
<1>3. ASSUME NEW u \in Txns, pc'[u] = "put", req'[u].kind = "cancel"
      PROVE  ~ Restored(u, req[u].order, Here(u).row)'
  <2>1. Restoring(u)'
    BY <1>3 DEF Restoring
  <2>2. /\ pc[u] = "put" /\ req[u].kind = "cancel"
        /\ req'[u] = req[u] /\ Here(u)' = Here(u)
    BY <1>3, <2>1 DEF Here
  <2> QED  BY <2>2 DEF RestoreOK, Restored, IsRestore
<1> QED  BY <1>1, <1>2, <1>3 DEF RestoreOK, IsRestore, Restored

\* A step of a transaction that is not restoring before or after it, and that
\* takes no lock another transaction holds.
LEMMA StepAside ==
    ASSUME Inv, NEW t \in Txns, moves' = moves, ~Restoring(t)',
           \A m \in pend'[t] : ~IsRestore(m),
           \A u \in Txns \ {t} : /\ pc'[u] = pc[u] /\ req'[u] = req[u]
                                 /\ line'[u] = line[u] /\ pend'[u] = pend[u],
           \A x \in Txns : holder[x] \notin {t, Nobody} => holder'[x] = holder[x]
    PROVE  RestoreOK'
<1>1. RestoreOK
  BY DEF Inv
<1>2. \A u \in Txns : \A m \in pend'[u] :
         IsRestore(m) => m \in pend[u] /\ Restoring(u)'
  BY <1>1 DEF RestoreOK, Restoring
<1>3. \A u \in Txns : Restoring(u)' => u # t /\ Restoring(u) /\ req'[u] = req[u]
  BY DEF Restoring
<1>4. \A u \in Txns : Restoring(u)' => holder'[req[u].order] = holder[req[u].order]
  <2> SUFFICES ASSUME NEW u \in Txns, Restoring(u)'
               PROVE  holder'[req[u].order] = holder[req[u].order]
    OBVIOUS
  <2>1. u # t /\ Restoring(u) /\ req[u].kind = "cancel"
    BY <1>3 DEF Restoring
  <2>2. holder[req[u].order] = u /\ req[u].order \in Txns
    BY <1>1, <2>1 DEF RestoreOK, Inv, Basic, ControlOK
  <2> QED  BY <2>1, <2>2, StockAssumption
<1>5. \A u \in Txns : pc'[u] = "put" /\ req'[u].kind = "cancel" =>
         pc[u] = "put" /\ line'[u] = line[u]
  BY DEF Restoring
<1> QED  BY <1>1, <1>2, <1>3, <1>4, <1>5, NoRestore

\* A rollback drops the restores it had pending.
LEMMA UndoRestore == ASSUME Inv, NEW t \in Txns, Undo(t) PROVE RestoreOK'
<1>1. /\ pc'[t] = "done" /\ pend'[t] = {} /\ moves' = moves
      /\ \A u \in Txns \ {t} : /\ pc'[u] = pc[u] /\ req'[u] = req[u]
                               /\ line'[u] = line[u] /\ pend'[u] = pend[u]
      /\ \A x \in Txns : holder[x] \notin {t, Nobody} => holder'[x] = holder[x]
  BY DEF Undo, EndSession, Released, Resources, shared, Inv, Basic, TypeOK
<1> QED  BY <1>1, StepAside DEF Restoring

\* A request that starts has restored nothing.
LEMMA BeginRestore == ASSUME Inv, NEW t \in Txns, Begin(t) PROVE RestoreOK'
<1>1. /\ pc'[t] = "read" /\ pend' = pend /\ moves' = moves /\ holder' = holder
      /\ \A u \in Txns \ {t} : /\ pc'[u] = pc[u] /\ req'[u] = req[u]
                               /\ line'[u] = line[u] /\ pend'[u] = pend[u]
  BY DEF Begin, shared, Inv, Basic, TypeOK
<1>2. \A m \in pend'[t] : ~IsRestore(m)
  BY <1>1 DEF Inv, RestoreOK, Restoring, Begin
<1> QED  BY <1>1, <1>2, StepAside DEF Restoring

\* Statements of sales, restocks and edits before their commit.
LEMMA OtherRestore ==
    ASSUME Inv, NEW t \in Txns,
           \/ ReadCatalog(t) \/ SkipLine(t) \/ TakeLine(t) \/ LockNumber(t)
           \/ InsertOrder(t) \/ ReadForRestock(t) \/ ReadForEdit(t) \/ WriteEdit(t)
    PROVE  RestoreOK'
<1>1. /\ req[t].kind # "cancel" /\ req' = req /\ moves' = moves
      /\ pc[t] \in {"read", "take", "number", "insert", "edit"}
  BY DEF ReadCatalog, SkipLine, TakeLine, LockNumber, InsertOrder, ReadForRestock,
         ReadForEdit, WriteEdit, shared, Inv, Basic, ControlOK, Fits, Selling, Sales, Edits
<1>2. \A u \in Txns \ {t} : /\ pc'[u] = pc[u] /\ req'[u] = req[u]
                            /\ line'[u] = line[u] /\ pend'[u] = pend[u]
  BY <1>1 DEF ReadCatalog, SkipLine, TakeLine, LockNumber, InsertOrder, ReadForRestock,
         ReadForEdit, WriteEdit, NextLine, RecordMovement, Inv, Basic, TypeOK
<1>3. \A x \in Txns : holder'[x] = holder[x]
  <2>1. CASE ReadCatalog(t) \/ SkipLine(t) \/ InsertOrder(t) \/ ReadForRestock(t)
             \/ ReadForEdit(t)
    BY <2>1 DEF ReadCatalog, SkipLine, InsertOrder, ReadForRestock, ReadForEdit
  <2>2. CASE LockNumber(t)
    BY <2>2, StockAssumption DEF LockNumber, Lock, Inv, Basic, TypeOK, Resources
  <2>3. CASE TakeLine(t) \/ WriteEdit(t)
    <3>1. Here(t).row \in Rows
      BY <2>3, HereTyped DEF TakeLine, WriteEdit, Inv, Selling, Edits
    <3>2. holder' \in {holder, [holder EXCEPT ![Here(t).row] = t]}
      BY <2>3 DEF TakeLine, WriteEdit, Lock, RecordMovement
    <3> QED  BY <3>1, <3>2, StockAssumption DEF Inv, Basic, TypeOK, Resources
  <2> QED  BY <2>1, <2>2, <2>3
<1>4. \A m \in pend[t] : ~IsRestore(m)
  BY <1>1 DEF Inv, RestoreOK, Restoring
<1>5. \A m \in pend'[t] : ~IsRestore(m)
  <2>1. CASE TakeLine(t)
    <3>1. pend'[t] \subseteq pend[t] \cup {Movement(t, -Here(t).qty, "pos_sale")}
      BY <2>1 DEF TakeLine, RecordMovement, Inv, Basic, TypeOK
    <3> QED  BY <1>4, <3>1 DEF Movement, IsRestore
  <2>2. CASE ~TakeLine(t)
    BY <1>4, <2>2 DEF ReadCatalog, SkipLine, LockNumber, InsertOrder, ReadForRestock,
                      ReadForEdit, WriteEdit
  <2> QED  BY <2>1, <2>2
<1> QED  BY <1>1, <1>2, <1>3, <1>5, StepAside DEF Restoring

\* A cancellation that has read its order has restored nothing yet.
LEMMA ReadOrderRestore == ASSUME Inv, NEW t \in Txns, ReadOrder(t) PROVE RestoreOK'
<1>1. /\ pc[t] = "read" /\ pc'[t] = "mark"
      /\ pend' = pend /\ moves' = moves /\ holder' = holder
      /\ \A u \in Txns \ {t} : /\ pc'[u] = pc[u] /\ req'[u] = req[u]
                               /\ line'[u] = line[u] /\ pend'[u] = pend[u]
  BY DEF ReadOrder, shared, Inv, Basic, TypeOK
<1>2. \A m \in pend'[t] : ~IsRestore(m)
  BY <1>1 DEF Inv, RestoreOK, Restoring
<1> QED  BY <1>1, <1>2, StepAside DEF Restoring

\* The UPDATE of the order waits for any other cancellation of it to end.
LEMMA MarkRestore == ASSUME Inv, NEW t \in Txns, MarkCancelled(t) PROVE RestoreOK'
<1> DEFINE o == req[t].order
<1>1. /\ pc[t] = "mark" /\ req[t].kind = "cancel" /\ o \in Txns
      /\ pc'[t] = "check" /\ \A u \in Txns \ {t} : pc'[u] = pc[u]
      /\ holder[o] \in {t, Nobody} /\ holder'[o] = t
      /\ \A x \in Txns \ {o} : holder'[x] = holder[x]
      /\ req' = req /\ line' = line /\ pend' = pend /\ moves' = moves
  BY DEF MarkCancelled, CanLock, Lock, shared, Inv, Basic, TypeOK, ControlOK, Fits,
         Resources
<1>2. /\ \A m \in pend[t] : ~IsRestore(m)
      /\ \A u \in Txns \ {t} : Restoring(u) =>
            req[u].order # o /\ req[u].order \in Txns
  BY <1>1, StockAssumption DEF Inv, RestoreOK, Restoring, Basic, ControlOK
<1>3. RestoredAtMostOnce'
  BY <1>1 DEF Inv, RestoreOK, RestoredAtMostOnce
<1>4. ASSUME NEW u \in Txns
      PROVE  /\ Restoring(u)' => holder'[req'[u].order] = u
             /\ \A m \in pend'[u] : IsRestore(m) =>
                   Restoring(u)' /\ m.order = req'[u].order
             /\ \A m1, m2 \in moves' \cup pend'[u] :
                   /\ IsRestore(m1) /\ IsRestore(m2)
                   /\ m1.order = m2.order /\ m1.row = m2.row
                   => m1 = m2
             /\ pc'[u] = "put" /\ req'[u].kind = "cancel"
                   => ~ Restored(u, req[u].order, Here(u).row)'
  <2>1. CASE u = t
    BY <1>1, <1>2, <2>1 DEF Inv, RestoreOK, Restoring
  <2>2. CASE u # t
    BY <1>1, <1>2, <2>2 DEF Inv, RestoreOK, Restoring, Restored, Here
  <2> QED  BY <2>1, <2>2
<1> QED  BY <1>3, <1>4 DEF RestoreOK, IsRestore, Restored

\* The idempotency check: what it lets through is not restored yet.
LEMMA CheckRestore == ASSUME Inv, NEW t \in Txns, CheckLine(t) PROVE RestoreOK'
<1>1. /\ pc[t] = "check" /\ req[t].kind = "cancel" /\ Restoring(t)
      /\ \A u \in Txns \ {t} : pc'[u] = pc[u] /\ line'[u] = line[u]
      /\ req' = req /\ holder' = holder /\ pend' = pend /\ moves' = moves
  <2>1. pc[t] = "check" /\ req[t].kind = "cancel"
    BY DEF CheckLine, Inv, Basic, ControlOK, Fits
  <2>2. line[t] \in DOMAIN req[t].lines
    BY <2>1 DEF Inv, Basic, LinesOK, Cancelling
  <2>3. \A u \in Txns \ {t} : pc'[u] = pc[u] /\ line'[u] = line[u]
    BY <2>2, NextLineTyped DEF CheckLine, Inv, Basic, TypeOK
  <2> QED  BY <2>1, <2>3 DEF CheckLine, shared, Restoring
<1>2. pc'[t] = "put" => line'[t] = line[t] /\ ~ Restored(t, req[t].order, Here(t).row)
  BY <1>1 DEF CheckLine, NextLine, Inv, Basic, TypeOK
<1>3. pc'[t] \in {"put", "check", "commit"}
  BY <1>1 DEF CheckLine, NextLine, Inv, Basic, TypeOK
<1>4. RestoredAtMostOnce'
  BY <1>1 DEF Inv, RestoreOK, RestoredAtMostOnce
<1>5. ASSUME NEW u \in Txns
      PROVE  /\ Restoring(u)' => holder'[req'[u].order] = u
             /\ \A m \in pend'[u] : IsRestore(m) =>
                   Restoring(u)' /\ m.order = req'[u].order
             /\ \A m1, m2 \in moves' \cup pend'[u] :
                   /\ IsRestore(m1) /\ IsRestore(m2)
                   /\ m1.order = m2.order /\ m1.row = m2.row
                   => m1 = m2
             /\ pc'[u] = "put" /\ req'[u].kind = "cancel"
                   => ~ Restored(u, req[u].order, Here(u).row)'
  <2>1. CASE u = t
    <3>1. Restoring(u)' /\ Restoring(u)
      BY <1>1, <1>3, <2>1 DEF Restoring
    <3>2. pc'[u] = "put" => ~ Restored(u, req[u].order, Here(u).row)'
      BY <1>1, <1>2, <2>1 DEF Restored, Here
    <3> QED  BY <1>1, <2>1, <3>1, <3>2 DEF Inv, RestoreOK
  <2>2. CASE u # t
    BY <1>1, <2>2 DEF Inv, RestoreOK, Restoring, Restored, Here
  <2> QED  BY <2>1, <2>2
<1> QED  BY <1>4, <1>5 DEF RestoreOK, IsRestore, Restored

\* The restore of one row: the check has found no other of it.
LEMMA PutRestore == ASSUME Inv, NEW t \in Txns, PutBack(t) PROVE RestoreOK'
<1> DEFINE o == req[t].order
           r == Here(t).row
<1>1. /\ pc[t] = "put" /\ r \in Rows /\ req[t].kind \in {"cancel", "restock"}
      /\ \A u \in Txns \ {t} : /\ pc'[u] = pc[u] /\ line'[u] = line[u]
                               /\ pend'[u] = pend[u]
      /\ \A x \in Txns : holder'[x] = holder[x]
      /\ pc'[t] \in {"check", "commit"} /\ req' = req /\ moves' = moves
  <2>1. pc[t] = "put" /\ req[t].kind \in {"cancel", "restock"}
    BY DEF PutBack, Inv, Basic, ControlOK, Fits
  <2>2. r \in Rows /\ line[t] \in DOMAIN req[t].lines
    BY <2>1, HereTyped DEF Inv, Cancelling
  <2>3. /\ pc'[t] \in {"check", "commit"}
        /\ \A u \in Txns \ {t} : pc'[u] = pc[u] /\ line'[u] = line[u]
    BY <2>2, NextLineTyped DEF PutBack, Inv, Basic
  <2>4. \A x \in Txns : holder'[x] = holder[x]
    BY <2>2, StockAssumption
    DEF PutBack, RecordMovement, Lock, Inv, Basic, TypeOK, Resources
  <2>5. \A u \in Txns \ {t} : pend'[u] = pend[u]
    BY DEF PutBack, RecordMovement, Inv, Basic, TypeOK
  <2> QED  BY <2>1, <2>2, <2>3, <2>4, <2>5 DEF PutBack, shared
<1>2. CASE req[t].kind = "restock"
  <2>1. pend'[t] = pend[t] \cup {Movement(t, Here(t).qty, "manual_restock")}
    BY <1>2 DEF PutBack, RecordMovement, Inv, Basic, TypeOK
  <2>2. \A m \in pend'[t] : ~IsRestore(m)
    BY <1>2, <2>1 DEF Movement, IsRestore, Inv, RestoreOK, Restoring
  <2> QED  BY <1>1, <1>2, <2>2, StepAside DEF Restoring
<1>3. CASE req[t].kind = "cancel"
  <2> DEFINE m0 == Movement(t, Here(t).qty, "order_cancel_restore")
  <2>1. pend'[t] = pend[t] \cup {m0}
    BY <1>3 DEF PutBack, RecordMovement, Inv, Basic, TypeOK
  <2>2. m0.order = o /\ m0.row = r /\ IsRestore(m0)
    BY <1>3 DEF Movement, IsRestore
  <2>3. \A m \in moves \cup pend[t] : IsRestore(m) /\ m.order = o => m.row # r
    BY <1>1, <1>3 DEF Inv, RestoreOK, Restored, IsRestore
  <2>4. RestoredAtMostOnce'
    BY <1>1 DEF Inv, RestoreOK, RestoredAtMostOnce
  <2>5. ASSUME NEW u \in Txns
        PROVE  /\ Restoring(u)' => holder'[req'[u].order] = u
               /\ \A m \in pend'[u] : IsRestore(m) =>
                     Restoring(u)' /\ m.order = req'[u].order
               /\ \A m1, m2 \in moves' \cup pend'[u] :
                     /\ IsRestore(m1) /\ IsRestore(m2)
                     /\ m1.order = m2.order /\ m1.row = m2.row
                     => m1 = m2
               /\ pc'[u] = "put" /\ req'[u].kind = "cancel"
                     => ~ Restored(u, req[u].order, Here(u).row)'
    <3>1. CASE u = t
      <4> HIDE DEF m0, o, r
      <4>1. Restoring(u) /\ Restoring(u)' /\ pc'[u] # "put"
        BY <1>1, <1>3, <3>1 DEF Restoring
      <4>2. /\ holder[o] = t /\ o \in Txns
            /\ \A m \in pend[t] : IsRestore(m) => m.order = o
            /\ \A m1, m2 \in moves \cup pend[t] :
                  /\ IsRestore(m1) /\ IsRestore(m2)
                  /\ m1.order = m2.order /\ m1.row = m2.row
                  => m1 = m2
        BY <3>1, <4>1, <1>3 DEF Inv, RestoreOK, Basic, ControlOK, o
      <4>3. \A m1, m2 \in moves' \cup pend'[t] :
               /\ IsRestore(m1) /\ IsRestore(m2)
               /\ m1.order = m2.order /\ m1.row = m2.row
               => m1 = m2
        BY <1>1, <2>1, <2>2, <2>3, <4>2
      <4>4. holder'[o] = t /\ req'[t].order = o
        BY <1>1, <4>2 DEF o
      <4> QED  BY <1>1, <2>1, <2>2, <3>1, <4>1, <4>2, <4>3, <4>4
    <3>2. CASE u # t
      <4>1. /\ pc'[u] = pc[u] /\ req'[u] = req[u] /\ line'[u] = line[u]
            /\ pend'[u] = pend[u] /\ Restoring(u)' = Restoring(u) /\ moves' = moves
            /\ Restored(u, req[u].order, Here(u).row)'
                  = Restored(u, req[u].order, Here(u).row)
        BY <1>1, <3>2 DEF Restoring, Restored, Here
      <4>2. Restoring(u) => req[u].order \in Txns
        BY DEF Restoring, Inv, Basic, ControlOK
      <4> QED  BY <1>1, <4>1, <4>2 DEF Inv, RestoreOK
    <3> QED  BY <3>1, <3>2
  <2> QED  BY <2>4, <2>5 DEF RestoreOK, IsRestore, Restored
<1> QED  BY <1>1, <1>2, <1>3

\* What a commit adds to the movements is of an order no other transaction is
\* restoring.
LEMMA CommitRestore == ASSUME Inv, NEW t \in Txns, Commit(t) PROVE RestoreOK'
<1>1. /\ pc[t] = "commit" /\ pc'[t] = "done" /\ pend'[t] = {}
      /\ \A u \in Txns \ {t} : /\ pc'[u] = pc[u] /\ line'[u] = line[u]
                               /\ pend'[u] = pend[u]
      /\ \A x \in Txns : holder[x] # t => holder'[x] = holder[x]
      /\ req' = req /\ moves' = moves \cup pend[t]
  BY DEF Commit, EndSession, Released, Resources, Inv, Basic, TypeOK
<1>2. RestoredAtMostOnce'
  BY <1>1 DEF Inv, RestoreOK, RestoredAtMostOnce, IsRestore
<1>3. ASSUME NEW u \in Txns, u # t, Restoring(u)
      PROVE  /\ req[u].order \in Txns /\ holder[req[u].order] = u
             /\ \A m \in pend[t] : IsRestore(m) => m.order # req[u].order
  BY <1>3 DEF Inv, RestoreOK, Basic, ControlOK, Restoring
<1>4. ASSUME NEW u \in Txns
      PROVE  /\ Restoring(u)' => holder'[req'[u].order] = u
             /\ \A m \in pend'[u] : IsRestore(m) =>
                   Restoring(u)' /\ m.order = req'[u].order
             /\ \A m1, m2 \in moves' \cup pend'[u] :
                   /\ IsRestore(m1) /\ IsRestore(m2)
                   /\ m1.order = m2.order /\ m1.row = m2.row
                   => m1 = m2
             /\ pc'[u] = "put" /\ req'[u].kind = "cancel"
                   => ~ Restored(u, req[u].order, Here(u).row)'
  <2>1. CASE u = t
    BY <1>1, <1>2, <2>1 DEF Restoring, RestoredAtMostOnce, IsRestore
  <2>2. CASE u # t
    <3>1. /\ pc'[u] = pc[u] /\ req'[u] = req[u] /\ line'[u] = line[u]
          /\ pend'[u] = pend[u] /\ Restoring(u)' = Restoring(u) /\ Here(u)' = Here(u)
      BY <1>1, <2>2 DEF Restoring, Here
    <3>2. Restoring(u) => holder'[req[u].order] = u
      BY <1>1, <1>3, <2>2
    <3>3. \A m \in pend[u] : IsRestore(m) => Restoring(u) /\ m.order = req[u].order
      BY DEF Inv, RestoreOK
    <3>4. ASSUME NEW m1 \in moves' \cup pend[u], NEW m2 \in moves' \cup pend[u],
                 IsRestore(m1), IsRestore(m2), m1.order = m2.order, m1.row = m2.row
          PROVE  m1 = m2
      <4>1. CASE m1 \in moves \cup pend[u] /\ m2 \in moves \cup pend[u]
        BY <3>4, <4>1 DEF Inv, RestoreOK
      <4>2. CASE m1 \in moves \cup pend[t] /\ m2 \in moves \cup pend[t]
        BY <3>4, <4>2 DEF Inv, RestoreOK
      <4>3. CASE (m1 \in pend[t] /\ m2 \in pend[u]) \/ (m1 \in pend[u] /\ m2 \in pend[t])
        BY <1>3, <2>2, <3>3, <3>4, <4>3
      <4> QED  BY <1>1, <4>1, <4>2, <4>3
    <3>5. pc[u] = "put" /\ req[u].kind = "cancel"
             => ~ Restored(u, req[u].order, Here(u).row)'
      <4> SUFFICES ASSUME pc[u] = "put", req[u].kind = "cancel"
                   PROVE  ~ Restored(u, req[u].order, Here(u).row)'
        OBVIOUS
      <4>1. ~ Restored(u, req[u].order, Here(u).row) /\ Restoring(u)
        BY DEF Inv, RestoreOK, Restoring
      <4> QED  BY <1>1, <1>3, <2>2, <3>1, <4>1 DEF Restored, IsRestore
    <3> QED  BY <1>1, <3>1, <3>2, <3>3, <3>4, <3>5
  <2> QED  BY <2>1, <2>2
<1> QED  BY <1>2, <1>4 DEF RestoreOK, IsRestore, Restored

\* Every step keeps the restores of an order's row unique.
LEMMA StepRestore == Inv /\ [Next]_vars => RestoreOK'
<1> SUFFICES ASSUME Inv, [Next]_vars PROVE RestoreOK'
  OBVIOUS
<1>1. ASSUME NEW t \in Txns, Begin(t) PROVE RestoreOK'
  BY <1>1, BeginRestore
<1>2. ASSUME NEW t \in Txns, Step(t) PROVE RestoreOK'
  <2>1. CASE \/ ReadCatalog(t) \/ SkipLine(t) \/ TakeLine(t) \/ LockNumber(t)
             \/ InsertOrder(t) \/ ReadForRestock(t) \/ ReadForEdit(t) \/ WriteEdit(t)
    BY <2>1, OtherRestore
  <2>2. CASE OutOfStock(t) \/ RefuseCancel(t) \/ RefuseRestock(t) \/ DeadlockAbort(t)
    BY <2>2, UndoRestore DEF OutOfStock, RefuseCancel, RefuseRestock, DeadlockAbort
  <2>3. CASE ReadOrder(t) \/ MarkCancelled(t) \/ CheckLine(t) \/ PutBack(t) \/ Commit(t)
    BY <2>3, ReadOrderRestore, MarkRestore, CheckRestore, PutRestore, CommitRestore
  <2> QED  BY <1>2, <2>1, <2>2, <2>3 DEF Step
<1>3. ASSUME NEW t \in Txns, Rollback(t) PROVE RestoreOK'
  BY <1>3, UndoRestore DEF Rollback
<1>4. CASE UNCHANGED vars
  BY <1>4 DEF vars, Inv, RestoreOK, RestoredAtMostOnce, Restoring, Restored, Here
<1> QED  BY <1>1, <1>2, <1>3, <1>4 DEF Next, Finished

\* However many cancellations of one order race each other, each of its rows is
\* restored at most once: the lock of the order's row orders their checks.
THEOREM RestoredOnce == Spec => []RestoredAtMostOnce
<1>1. Init => Inv
  BY InitBasic, InitRestore DEF Inv
<1>2. Inv /\ [Next]_vars => Inv'
  BY StepBasic, StepRestore DEF Inv
<1>3. Inv => RestoredAtMostOnce
  BY DEF Inv, RestoreOK
<1> QED  BY <1>1, <1>2, <1>3, PTL DEF Spec

-----------------------------------------------------------------------------
(* Waiting at the till. A POS sale takes the advisory lock of the number     *)
(* before any row and no other POS sale owns a lock then; a restock owns     *)
(* nothing while it waits for its one row.                                   *)

Owns(t) == \E x \in Resources : holder[x] = t

\* A request that is not running owns no lock; at the till, only one past its
\* last wait does, or the POS sale that has the number.
LockOK ==
    \A t \in Txns :
        /\ Owns(t) => pc[t] \notin {"idle", "read", "done"}
        /\ Owns(t) /\ req[t].kind = "pos" => pc[t] \in {"insert", "take", "commit"}
        /\ Owns(t) /\ req[t].kind = "restock" => pc[t] = "commit"
        /\ req[t].kind = "pos" /\ pc[t] \in {"insert", "take", "commit"}
              => holder[Number] = t

\* Nobody owns a lock before the first request.
LEMMA InitLock == Init => LockOK
BY StockAssumption DEF Init, LockOK, Owns

\* A step of t takes and frees only locks of its own: those of the others stay.
LEMMA OneLocks ==
    ASSUME LockOK, NEW t \in Txns,
           \A u \in Txns \ {t} : pc'[u] = pc[u] /\ req'[u] = req[u],
           \A x \in Resources : holder'[x] # holder[x] =>
              holder[x] \in {t, Nobody} /\ holder'[x] \in {t, Nobody},
           Owns(t)' => pc'[t] \notin {"idle", "read", "done"},
           Owns(t)' /\ req'[t].kind = "pos" => pc'[t] \in {"insert", "take", "commit"},
           Owns(t)' /\ req'[t].kind = "restock" => pc'[t] = "commit",
           req'[t].kind = "pos" /\ pc'[t] \in {"insert", "take", "commit"}
              => holder'[Number] = t
    PROVE  LockOK'
<1>1. Number \in Resources
  BY DEF Resources
<1>2. ASSUME NEW u \in Txns \ {t}
      PROVE  Owns(u)' = Owns(u) /\ (holder[Number] = u => holder'[Number] = u)
  BY <1>1, StockAssumption DEF Owns
<1> QED  BY <1>2 DEF LockOK

\* A step that keeps the locks, and the owner's place among the statements.
LEMMA SameLocks ==
    ASSUME Basic, LockOK, NEW t \in Txns, NEW c, pc' = [pc EXCEPT ![t] = c],
           UNCHANGED holder, req'[t].kind = req[t].kind,
           \A u \in Txns \ {t} : req'[u] = req[u],
           Owns(t) => c \notin {"idle", "read", "done"},
           Owns(t) /\ req[t].kind = "pos" => c \in {"insert", "take", "commit"},
           Owns(t) /\ req[t].kind = "restock" => c = "commit",
           req[t].kind = "pos" /\ c \in {"insert", "take", "commit"}
              => holder[Number] = t
    PROVE  LockOK'
<1>1. pc'[t] = c /\ \A u \in Txns \ {t} : pc'[u] = pc[u]
  BY DEF Basic, TypeOK
<1>2. Owns(t)' = Owns(t)
  BY DEF Owns
<1> QED  BY <1>1, <1>2, OneLocks

\* The end of a request frees its locks.
LEMMA EndLocks ==
    ASSUME Basic, LockOK, NEW t \in Txns, EndSession(t), UNCHANGED req
    PROVE  LockOK'
<1>1. pc'[t] = "done" /\ \A u \in Txns \ {t} : pc'[u] = pc[u]
  BY DEF EndSession, Basic, TypeOK
<1>2. ~ Owns(t)'
  BY StockAssumption DEF EndSession, Released, Owns
<1>3. \A x \in Resources : holder'[x] # holder[x] =>
         holder[x] \in {t, Nobody} /\ holder'[x] \in {t, Nobody}
  BY DEF EndSession, Released
<1> QED  BY <1>1, <1>2, <1>3, OneLocks

\* A statement that locks x and goes on to c.
LEMMA TakesLock ==
    ASSUME Basic, LockOK, NEW t \in Txns, NEW x \in Resources, CanLock(t, x), Lock(t, x),
           NEW c, pc' = [pc EXCEPT ![t] = c], UNCHANGED req,
           c \notin {"idle", "read", "done"},
           req[t].kind = "pos" =>
              /\ c \in {"insert", "take", "commit"}
              /\ x = Number \/ pc[t] \in {"insert", "take", "commit"},
           req[t].kind = "restock" => c = "commit"
    PROVE  LockOK'
<1>1. pc'[t] = c /\ \A u \in Txns \ {t} : pc'[u] = pc[u]
  BY DEF Basic, TypeOK
<1>2. holder'[x] = t /\ \A y \in Resources \ {x} : holder'[y] = holder[y]
  BY DEF Lock, Basic, TypeOK
<1>3. \A y \in Resources : holder'[y] # holder[y] =>
         holder[y] \in {t, Nobody} /\ holder'[y] \in {t, Nobody}
  BY <1>2 DEF CanLock
<1>4. req[t].kind = "pos" => holder'[Number] = t
  BY <1>2 DEF LockOK, Resources
<1> QED  BY <1>1, <1>3, <1>4, OneLocks

\* Every step keeps the order in which the till takes its locks.
LEMMA StepLock == Basic /\ LockOK /\ [Next]_vars => LockOK'
<1> SUFFICES ASSUME Basic, LockOK, [Next]_vars PROVE LockOK'
  OBVIOUS
<1>1. ASSUME NEW t \in Txns, Begin(t) PROVE LockOK'
  <2>1. pc'[t] = "read" /\ \A u \in Txns \ {t} : pc'[u] = pc[u] /\ req'[u] = req[u]
    BY <1>1 DEF Begin, Basic, TypeOK
  <2>2. ~ Owns(t)' /\ holder' = holder
    BY <1>1 DEF Begin, LockOK, Owns
  <2> QED  BY <2>1, <2>2, OneLocks
<1>2. ASSUME NEW t \in Txns, Step(t) PROVE LockOK'
  <2>1. CASE ReadCatalog(t) \/ ReadForRestock(t) \/ ReadForEdit(t)
    <3>1. pc[t] = "read" /\ ~ Owns(t) /\ UNCHANGED <<holder, req>>
      BY <2>1 DEF ReadCatalog, ReadForRestock, ReadForEdit, LockOK
    <3>2. PICK c \in {"number", "take", "put", "edit"} : pc' = [pc EXCEPT ![t] = c]
                /\ (req[t].kind = "pos" => c \in {"number", "put", "edit"})
      BY <2>1 DEF ReadCatalog, ReadForRestock, ReadForEdit
    <3> QED  BY <3>1, <3>2, SameLocks
  <2>2. CASE ReadOrder(t)
    <3>1. /\ pc[t] = "read" /\ ~ Owns(t) /\ UNCHANGED holder
          /\ pc' = [pc EXCEPT ![t] = "mark"] /\ req'[t].kind = req[t].kind
          /\ \A u \in Txns \ {t} : req'[u] = req[u]
      BY <2>2 DEF ReadOrder, LockOK, Basic, TypeOK, Request
    <3> QED  BY <3>1, SameLocks
  <2>3. CASE SkipLine(t)
    <3>1. pc[t] = "take" /\ req[t].kind \in Sales /\ UNCHANGED <<holder, req>>
      BY <2>3 DEF SkipLine, Basic, ControlOK, Fits, Selling
    <3>2. PICK c \in {"take", AfterTake(t)} : pc' = [pc EXCEPT ![t] = c]
      BY <2>3, <3>1, HereTyped, NextLineTyped DEF SkipLine, Basic, Selling
    <3>3. c \in {"take", "commit", "number"} /\ (req[t].kind = "pos" => c # "number")
      BY <3>2 DEF AfterTake
    <3> QED  BY <3>1, <3>2, <3>3, SameLocks DEF LockOK, Sales
  <2>4. CASE InsertOrder(t)
    <3>1. pc[t] = "insert" /\ req[t].kind \in Sales /\ UNCHANGED <<holder, req>>
      BY <2>4 DEF InsertOrder, Basic, ControlOK, Fits, Selling
    <3>2. PICK c \in {"take", "commit"} : pc' = [pc EXCEPT ![t] = c]
      BY <2>4 DEF InsertOrder
    <3> QED  BY <3>1, <3>2, SameLocks DEF LockOK, Sales
  <2>5. CASE CheckLine(t)
    <3>1. pc[t] = "check" /\ req[t].kind = "cancel" /\ UNCHANGED <<holder, req>>
      BY <2>5 DEF CheckLine, Basic, ControlOK, Fits
    <3>2. PICK c \in {"put", "check", "commit"} : pc' = [pc EXCEPT ![t] = c]
      BY <2>5, <3>1, HereTyped, NextLineTyped DEF CheckLine, Basic, Cancelling
    <3> QED  BY <3>1, <3>2, SameLocks
  <2>6. CASE TakeLine(t)
    <3>1. pc[t] = "take" /\ req[t].kind \in Sales /\ UNCHANGED req
      BY <2>6 DEF TakeLine, Basic, ControlOK, Fits, Selling
    <3>2. Here(t).row \in Resources
      BY <3>1, HereTyped DEF Selling, Resources
    <3>3. CanLock(t, Here(t).row) /\ Lock(t, Here(t).row)
      BY <2>6 DEF TakeLine, RecordMovement
    <3>4. PICK c \in {"take", AfterTake(t)} : pc' = [pc EXCEPT ![t] = c]
      BY <2>6, <3>1, HereTyped, NextLineTyped DEF TakeLine, Basic, Selling
    <3>5. c \in {"take", "commit", "number"} /\ (req[t].kind = "pos" => c # "number")
      BY <3>4 DEF AfterTake
    <3> QED  BY <3>1, <3>2, <3>3, <3>4, <3>5, TakesLock DEF Sales
  <2>7. CASE LockNumber(t)
    <3>1. pc[t] = "number" /\ req[t].kind \in Sales /\ UNCHANGED req /\ Number \in Resources
      BY <2>7 DEF LockNumber, Basic, ControlOK, Fits, Selling, Resources
    <3> QED  BY <2>7, <3>1, TakesLock DEF LockNumber, Sales
  <2>8. CASE MarkCancelled(t)
    <3>1. pc[t] = "mark" /\ req[t].kind = "cancel" /\ UNCHANGED req /\ req[t].order \in Resources
      BY <2>8 DEF MarkCancelled, Basic, ControlOK, Fits, Resources
    <3> QED  BY <2>8, <3>1, TakesLock DEF MarkCancelled
  <2>9. CASE PutBack(t)
    <3>1. pc[t] = "put" /\ req[t].kind \in {"cancel", "restock"} /\ UNCHANGED req
      BY <2>9 DEF PutBack, Basic, ControlOK, Fits
    <3>2. Here(t).row \in Resources /\ line[t] \in DOMAIN req[t].lines
      BY <3>1, HereTyped DEF Cancelling, Resources
    <3>3. CanLock(t, Here(t).row) /\ Lock(t, Here(t).row)
      BY <2>9 DEF PutBack, RecordMovement
    <3>4. PICK c \in {"check", "commit"} : pc' = [pc EXCEPT ![t] = c]
      BY <2>9, <3>2, NextLineTyped DEF PutBack, Basic
    <3>5. req[t].kind = "restock" => c = "commit"
      <4>1. SUFFICES ASSUME req[t].kind = "restock" PROVE pc'[t] = "commit"
        BY <3>4 DEF Basic, TypeOK
      <4>2. line[t] = 1 /\ Len(req[t].lines) = 1
        BY <3>1, <3>2, <4>1 DEF HasLines, Basic, LinesOK, TypeOK, Request, Cancelling
      <4> QED  BY <2>9, <4>2 DEF PutBack, NextLine, Basic, TypeOK
    <3> QED  BY <3>1, <3>2, <3>3, <3>4, <3>5, TakesLock
  <2>10. CASE WriteEdit(t)
    <3>1. /\ pc[t] = "edit" /\ req[t].kind \in Edits /\ UNCHANGED req
          /\ pc' = [pc EXCEPT ![t] = "commit"]
      BY <2>10 DEF WriteEdit, Basic, ControlOK, Fits
    <3>2. Here(t).row \in Resources
      BY <3>1, HereTyped DEF Resources
    <3>3. UNCHANGED holder \/ (CanLock(t, Here(t).row) /\ Lock(t, Here(t).row))
      BY <2>10 DEF WriteEdit
    <3> QED  BY <3>1, <3>2, <3>3, SameLocks, TakesLock DEF Edits
  <2>11. CASE OutOfStock(t) \/ RefuseCancel(t) \/ RefuseRestock(t) \/ DeadlockAbort(t)
              \/ Commit(t)
    BY <2>11, EndLocks DEF OutOfStock, RefuseCancel, RefuseRestock, DeadlockAbort, Undo, Commit
  <2> QED  BY <1>2, <2>1, <2>2, <2>3, <2>4, <2>5, <2>6, <2>7, <2>8, <2>9, <2>10, <2>11 DEF Step
<1>3. ASSUME NEW t \in Txns, Rollback(t) PROVE LockOK'
  BY <1>3, EndLocks DEF Rollback, Undo
<1>4. CASE UNCHANGED vars
  BY <1>4 DEF vars, LockOK, Owns
<1> QED  BY <1>1, <1>2, <1>3, <1>4 DEF Next, Finished

\* A cycle of waiting stays in any set of transactions that is closed under it.
LEMMA CycleInClosed ==
    ASSUME NEW t, NEW ts, NEW S, WaitsFor(t) \cap ts \subseteq S,
           \A u \in S : WaitsFor(u) \cap ts \subseteq S, InCycleOf(t, ts)
    PROVE  t \in S
<1> DEFINE N == Cardinality(Txns)
           More(r) == r \cup (ts \cap UNION {WaitsFor(u) : u \in r})
           Steps(f, n) == f = [k \in 0..n |-> IF k = 0 THEN WaitsFor(t) \cap ts
                                              ELSE More(f[k-1])]
           reach[n \in 0..Cardinality(Txns)] ==
               IF n = 0 THEN WaitsFor(t) \cap ts
               ELSE reach[n-1] \cup (ts \cap UNION {WaitsFor(u) : u \in reach[n-1]})
<1>1. N \in Nat
  BY StockAssumption, FS_CardinalityType
<1>2. t \in reach[N]
  BY DEF InCycleOf
<1>3. \E f : Steps(f, N)
  <2> DEFINE D == {n \in Nat : ~ \E f : Steps(f, n)}
  <2> SUFFICES ASSUME N \in D PROVE FALSE
    BY <1>1
  <2> HIDE DEF N, More
  <2>1. PICK n \in D : \A j \in D : n <= j
    <3> HIDE DEF D
    <3>1. D \in SUBSET Nat
      BY DEF D
    <3> QED  BY <3>1, Least
  <2>2. CASE n = 0
    <3>1. Steps([k \in 0..0 |-> WaitsFor(t) \cap ts], 0)
      OBVIOUS
    <3> QED  BY <2>2, <3>1
  <2>3. CASE n # 0
    <3>1. n - 1 \in Nat /\ n - 1 \notin D
      <4>1. n \in Nat
        BY <2>1
      <4>2. n - 1 \in Nat /\ ~ (n <= n - 1)
        BY <4>1, <2>3
      <4> HIDE DEF D
      <4> QED  BY <2>1, <4>2
    <3>2. PICK f : Steps(f, n - 1)
      BY <3>1
    <3> DEFINE g == [k \in 0..n |-> IF k = n THEN More(f[n-1]) ELSE f[k]]
    <3>3. ASSUME NEW k \in 0..n
          PROVE  g[k] = IF k = 0 THEN WaitsFor(t) \cap ts ELSE More(g[k-1])
      <4>1. CASE k = n
        <5>1. n - 1 \in 0..n /\ n - 1 # n /\ g[n-1] = f[n-1]
          BY <3>1, <2>3
        <5> QED  BY <4>1, <5>1, <2>3
      <4>2. CASE k # n
        <5>1. k \in 0..(n-1) /\ g[k] = f[k]
          BY <4>2, <3>1
        <5>2. k # 0 => k - 1 \in 0..n /\ k - 1 # n /\ g[k-1] = f[k-1]
          BY <5>1, <3>1
        <5>3. f[k] = IF k = 0 THEN WaitsFor(t) \cap ts ELSE More(f[k-1])
          BY <3>2, <5>1
        <5> HIDE DEF g
        <5> QED  BY <5>1, <5>2, <5>3
      <4> QED  BY <4>1, <4>2
    <3>4. Steps(g, n)
      <4>1. g = [k \in 0..n |-> g[k]]
        OBVIOUS
      <4> HIDE DEF g
      <4> QED  BY <3>3, <4>1
    <3> QED  BY <2>1, <3>4
  <2> QED  BY <2>2, <2>3
<1>4. Steps(reach, N)
  <2> HIDE DEF N
  <2>1. reach = CHOOSE f : Steps(f, N)
    BY DEF N
  <2> HIDE DEF reach, Steps
  <2> QED  BY <1>3, <2>1
<1>5. \A n \in 0..N : reach[n] \subseteq S
  <2> HIDE DEF reach, N
  <2> DEFINE D == {n \in 0..N : ~ (reach[n] \subseteq S)}
  <2> SUFFICES ASSUME D # {} PROVE FALSE
    OBVIOUS
  <2>1. PICK n \in D : \A j \in D : n <= j
    <3> HIDE DEF D
    <3>1. D \in SUBSET Nat
      BY <1>1 DEF D
    <3> QED  BY <3>1, Least
  <2>2. CASE n = 0
    BY <1>1, <1>4, <2>1, <2>2
  <2>3. CASE n # 0
    <3>1. n - 1 \in 0..N /\ n \in 0..N /\ n - 1 \notin D
      BY <1>1, <2>1, <2>3
    <3>2. reach[n-1] \subseteq S
      BY <3>1
    <3>3. reach[n] = More(reach[n-1])
      BY <1>4, <2>3, <3>1
    <3> QED  BY <2>1, <3>2, <3>3
  <2> QED  BY <2>2, <2>3
<1> QED  BY <1>1, <1>2, <1>5

\* At the till those who are waited for either wait for nothing, or own no lock
\* that anyone there waits for.
LEMMA TillWaits ==
    ASSUME Basic, LockOK, NEW till, till = {t \in Txns : req[t].kind \in {"pos", "restock"}},
           NEW t \in till
    PROVE  ~ InCycleOf(t, till)
<1>1. ASSUME NEW u \in till, NEW v \in WaitsFor(u) \cap till
      PROVE  v \in till /\ v # u /\ Owns(v)
  <2>1. PICK x \in Wanted(u) : v = holder[x]
    BY DEF WaitsFor
  <2>2. u \in Txns /\ req[u].kind \in {"pos", "restock"} /\ v # u
    BY DEF WaitsFor
  <2>3. pc[u] \in {"take", "put", "number"}
    BY <2>1, <2>2 DEF Wanted, Basic, ControlOK, Fits, Edits
  <2>4. x \in Resources
    BY <2>1, <2>2, <2>3, HereTyped DEF Wanted, Selling, Cancelling, Resources
  <2> QED  BY <2>1, <2>2, <2>4 DEF Owns
<1>2. CASE Owns(t)
  <2> DEFINE S == {u \in till : req[u].kind = "restock" /\ pc[u] = "commit"}
  <2>1. \A u \in till : pc[u] \in {"insert", "commit"} => WaitsFor(u) = {}
    BY DEF WaitsFor, Wanted
  <2>2. (WaitsFor(t) \cap till \subseteq S /\ t \in till \ S) \/ WaitsFor(t) = {}
    <3>1. CASE req[t].kind = "restock"
      BY <1>2, <2>1, <3>1 DEF LockOK
    <3>2. CASE req[t].kind = "pos"
      <4>1. holder[Number] = t
        BY <1>2, <3>2 DEF LockOK
      <4>2. \A v \in WaitsFor(t) \cap till : v \in S
        BY <1>1, <4>1 DEF LockOK
      <4> QED  BY <3>2, <4>2
    <3> QED  BY <3>1, <3>2
  <2>3. \A u \in S : WaitsFor(u) \cap till \subseteq S
    BY <2>1
  <2> HIDE DEF S
  <2>4. CASE WaitsFor(t) \cap till \subseteq S /\ t \in till \ S
    BY <2>3, <2>4, CycleInClosed
  <2>5. CASE WaitsFor(t) = {}
    <3>1. WaitsFor(t) \cap till \subseteq {}
      BY <2>5
    <3> QED  BY <3>1, CycleInClosed
  <2> QED  BY <2>2, <2>4, <2>5
<1>3. CASE ~ Owns(t)
  <2> DEFINE S == {u \in till : Owns(u)}
  <2>1. \A u \in till : WaitsFor(u) \cap till \subseteq S
    BY <1>1
  <2>2. S \subseteq till /\ t \notin S
    BY <1>3
  <2> HIDE DEF S
  <2> QED  BY <2>1, <2>2, CycleInClosed
<1> QED  BY <1>2, <1>3

\* POS sales and restocks never wait for each other in a circle, whatever their
\* carts and however many run: the number is a lock they take in one order.
THEOREM TillIsDeadlockFree == Spec => []TillNeverDeadlocks
<1>1. Init => Basic /\ LockOK
  BY InitBasic, InitLock
<1>2. Basic /\ LockOK /\ [Next]_vars => (Basic /\ LockOK)'
  BY StepBasic, StepLock
<1>3. Basic /\ LockOK => TillNeverDeadlocks
  BY TillWaits DEF TillNeverDeadlocks
<1> QED  BY <1>1, <1>2, <1>3, PTL DEF Spec

-----------------------------------------------------------------------------
Loops == {"take", "check", "put"}

\* t has written nothing yet.
Fresh(t) == \/ pc[t] \in {"idle", "read", "mark"}
            \/ pc[t] \in {"number", "insert"} /\ req[t].kind = "pos"

\* Whose writes there are: a sale's lines and the movements of a request are of
\* rows it has locked and of lines it has passed.
OwnTxn(t) ==
    /\ Fresh(t) => taken[t] = {} /\ pend[t] = {}
    /\ pc[t] = "done" => pend[t] = {}
    /\ req[t].kind = "storefront" => pend[t] = {}
    /\ taken[t] # {} => req[t].kind \in Sales
    /\ \A i \in taken[t] :
          /\ i \in DOMAIN req[t].lines
          /\ status[t] = "none" => holder[req[t].lines[i].row] = t
          /\ pc[t] \in Loops => i < line[t]
    /\ \A m \in pend[t] :
          /\ m.by = t /\ holder[m.row] = t
          /\ pc[t] \in Loops => m.line < line[t]
    /\ IsFiniteSet(pend[t])
    /\ req[t].kind \in Edits => req[t] \in Requests

\* A committed movement is of a request that has ended.
OwnOK ==
    /\ \A t \in Txns : OwnTxn(t)
    /\ IsFiniteSet(moves) /\ \A m \in moves : pc[m.by] = "done"

\* The lines of a request are of stock rows.
LEMMA LineOf ==
    ASSUME NEW q \in Request, NEW i \in DOMAIN q.lines
    PROVE  i \in Nat \ {0} /\ q.lines[i] \in Line /\ q.lines[i].row \in Rows
<1>1. q.lines \in Seq(Line)
  BY DEF Request
<1>2. i \in Nat \ {0} /\ q.lines[i] \in Line
  BY <1>1
<1> QED  BY <1>2 DEF Line

LEMMA InitOwn == Init => OwnOK
BY FS_EmptySet DEF Init, OwnOK, OwnTxn, Edits, Loops

\* A step of t leaves alone what the others have written.
LEMMA OneOwns ==
    ASSUME Basic, OwnOK, NEW t \in Txns, pc[t] # "done",
           \A u \in Txns \ {t} :
              /\ pc'[u] = pc[u] /\ req'[u] = req[u] /\ line'[u] = line[u]
              /\ taken'[u] = taken[u] /\ pend'[u] = pend[u]
              /\ status[u] # "none" => status'[u] # "none",
           \A r \in Rows : holder[r] \notin {t, Nobody} => holder'[r] = holder[r],
           moves' = moves \/ (moves' = moves \cup pend[t] /\ pc'[t] = "done"),
           OwnTxn(t)'
    PROVE  OwnOK'
<1>1. ASSUME NEW u \in Txns \ {t} PROVE OwnTxn(u)'
  <2>1. OwnTxn(u) /\ req[u] \in Request /\ u # Nobody
    BY StockAssumption DEF OwnOK, Basic, TypeOK
  <2>2. \A i \in taken[u] : req[u].lines[i].row \in Rows
    BY <2>1, LineOf DEF OwnTxn
  <2>3. \A m \in pend[u] : m.row \in Rows
    BY DEF Basic, TypeOK, Movements
  <2> QED  BY <2>1, <2>2, <2>3 DEF OwnTxn, Fresh
<1>2. IsFiniteSet(moves')
  <2>1. IsFiniteSet(moves) /\ IsFiniteSet(pend[t])
    BY DEF OwnOK, OwnTxn
  <2>2. IsFiniteSet(moves \cup pend[t])
    BY <2>1, FS_Union
  <2> QED  BY <2>1, <2>2
<1>3. ASSUME NEW m \in moves' PROVE pc'[m.by] = "done"
  <2>1. CASE m \in moves
    BY <2>1 DEF OwnOK, Basic, TypeOK, Movements
  <2>2. CASE m \notin moves
    BY <2>2 DEF OwnOK, OwnTxn
  <2> QED  BY <2>1, <2>2
<1> QED  BY <1>1, <1>2, <1>3 DEF OwnOK

\* A step that writes neither a line of a sale nor a movement.
LEMMA SameOwns ==
    ASSUME Basic, OwnOK, NEW t \in Txns, NEW c, pc' = [pc EXCEPT ![t] = c],
           pc[t] # "done", c # "done",
           \A u \in Txns \ {t} : req'[u] = req[u] /\ line'[u] = line[u],
           UNCHANGED <<taken, pend, status, moves>>,
           \A r \in Rows : holder[r] # Nobody => holder'[r] = holder[r],
           Fresh(t) \/ (req'[t] = req[t] /\ c \notin {"idle", "read", "mark"}
                          /\ (c \in {"number", "insert"} => req[t].kind # "pos")
                          /\ (c \in Loops => /\ pc[t] \in Loops
                                             /\ line'[t] >= line[t] /\ line'[t] \in Nat)),
           req'[t].kind \in Edits => req'[t] \in Requests
    PROVE  OwnOK'
<1>1. pc'[t] = c /\ \A u \in Txns \ {t} : pc'[u] = pc[u]
  BY DEF Basic, TypeOK
<1>2. OwnTxn(t) /\ req[t] \in Request /\ t # Nobody
  BY StockAssumption DEF OwnOK, Basic, TypeOK
<1>3. \A i \in taken[t] : req[t].lines[i].row \in Rows
  BY <1>2, LineOf DEF OwnTxn
<1>4. \A m \in pend[t] : m.row \in Rows /\ m.line \in Nat
  BY DEF Basic, TypeOK, Movements
<1>5. CASE Fresh(t)
  <2>1. OwnTxn(t)'
    BY <1>1, <1>2, <1>5 DEF OwnTxn
  <2> QED  BY <1>1, <2>1, OneOwns
<1>6. CASE ~ Fresh(t)
  <2>1. \A i \in taken[t] : i \in Nat
    BY <1>2, LineOf DEF OwnTxn
  <2>2. c \in Loops => /\ line'[t] >= line[t] /\ pc[t] \in Loops
                    /\ line[t] \in Nat /\ line'[t] \in Nat
    BY <1>6 DEF Basic, TypeOK
  <2>3. /\ req'[t] = req[t] /\ taken'[t] = taken[t] /\ pend'[t] = pend[t]
        /\ status'[t] = status[t] /\ ~ Fresh(t)'
    BY <1>1, <1>6 DEF Fresh
  <2>4. \A i \in taken[t] : pc'[t] \in Loops => i < line'[t]
    <3>1. ASSUME NEW i \in taken[t], c \in Loops PROVE i < line'[t]
      <4>1. i < line[t] /\ line'[t] >= line[t]
        BY <1>2, <2>2, <3>1 DEF OwnTxn
      <4> QED  BY <2>1, <2>2, <3>1, <4>1
    <3> QED  BY <1>1, <3>1
  <2>5. \A m \in pend[t] : pc'[t] \in Loops => m.line < line'[t]
    BY <1>1, <1>2, <1>4, <2>2 DEF OwnTxn
  <2>6. OwnTxn(t)'
    BY <1>1, <1>2, <1>3, <1>4, <2>3, <2>4, <2>5 DEF OwnTxn
  <2> QED  BY <1>1, <2>6, OneOwns
<1> QED  BY <1>5, <1>6

\* The loop goes on to a later line, or leaves the line where it is.
LEMMA NextLineMore ==
    ASSUME Basic, NEW t \in Txns, NEW loop, NEW after, after \notin Loops,
           line[t] \in DOMAIN req[t].lines, NextLine(t, loop, after)
    PROVE  /\ line[t] \in Nat /\ line'[t] \in Nat /\ line'[t] >= line[t]
           /\ pc'[t] \in Loops => line'[t] > line[t]
<1>1. line \in [Txns -> Nat \ {0}] /\ pc \in [Txns -> {"idle", "read", "take", "number",
         "insert", "mark", "check", "put", "edit", "commit", "done"}]
  BY DEF Basic, TypeOK
<1>2. CASE line[t] < Len(req[t].lines)
  BY <1>1, <1>2 DEF NextLine
<1>3. CASE ~(line[t] < Len(req[t].lines))
  BY <1>1, <1>3 DEF NextLine
<1> QED  BY <1>2, <1>3

\* The end of a request: without the commit it has written nothing.
LEMMA EndOwn ==
    ASSUME Basic, OwnOK, NEW t \in Txns, pc[t] # "done", Undo(t) \/ Commit(t)
    PROVE  OwnOK'
<1>1. EndSession(t) /\ req' = req
  BY DEF Undo, Commit
<1>2. /\ pc'[t] = "done" /\ pend'[t] = {}
      /\ \A u \in Txns \ {t} : pc'[u] = pc[u] /\ line'[u] = line[u] /\ pend'[u] = pend[u]
  BY <1>1 DEF EndSession, Basic, TypeOK
<1>3. \A r \in Rows : holder[r] \notin {t, Nobody} => holder'[r] = holder[r]
  BY <1>1 DEF EndSession, Released, Resources
<1>4. OwnTxn(t)
  BY DEF OwnOK
<1>5. /\ moves' = moves \/ (moves' = moves \cup pend[t] /\ pc'[t] = "done")
      /\ \A u \in Txns \ {t} : /\ taken'[u] = taken[u]
                               /\ status[u] # "none" => status'[u] # "none"
      /\ taken'[t] \subseteq taken[t]
      /\ taken'[t] # {} => status'[t] # "none"
  <2>1. CASE Undo(t)
    BY <1>2, <2>1 DEF Undo, shared, Basic, TypeOK
  <2>2. CASE Commit(t)
    <3>1. taken' = taken /\ moves' = moves \cup pend[t]
      BY <2>2 DEF Commit
    <3>2. CASE req[t].kind \in Sales
      <4>1. \E s \in {"pending", "fulfilled"} : status' = [status EXCEPT ![t] = s]
        BY <2>2, <3>2 DEF Commit, Sales, Edits
      <4> QED  BY <1>2, <3>1, <4>1 DEF Basic, TypeOK
    <3>3. CASE req[t].kind \notin Sales
      <4>1. taken[t] = {}
        BY <1>4, <3>3 DEF OwnTxn
      <4>2. status' = status \/ status' = [status EXCEPT ![req[t].order] = "cancelled"]
        BY <2>2, <3>3 DEF Commit
      <4> QED  BY <1>2, <3>1, <4>1, <4>2 DEF Basic, TypeOK
    <3> QED  BY <3>2, <3>3
  <2> QED  BY <2>1, <2>2
<1>6. OwnTxn(t)'
  BY <1>1, <1>2, <1>4, <1>5, FS_EmptySet DEF OwnTxn, Fresh, Loops
<1> QED  BY <1>1, <1>2, <1>3, <1>5, <1>6, OneOwns

\* The decrement of a line.
LEMMA TakeOwn == ASSUME Basic, OwnOK, NEW t \in Txns, TakeLine(t) PROVE OwnOK'
<1> DEFINE r == Here(t).row
<1>1. /\ pc[t] = "take" /\ req[t].kind \in Sales /\ line[t] \in DOMAIN req[t].lines
      /\ r \in Rows /\ Here(t) = req[t].lines[line[t]]
      /\ req' = req /\ moves' = moves /\ status' = status
  <2>1. pc[t] = "take" /\ req[t].kind \in Sales
    BY DEF TakeLine, Basic, ControlOK, Fits, Selling
  <2> QED  BY <2>1, HereTyped DEF Selling, TakeLine, shared
<1>2. PICK c \in {"take", "commit", "number"} :
         pc' = [pc EXCEPT ![t] = c] /\ (req[t].kind = "pos" => c # "number")
  <2>1. PICK c \in {"take", AfterTake(t)} : pc' = [pc EXCEPT ![t] = c]
    <3>1. NextLine(t, "take", AfterTake(t)) /\ TypeOK
      BY DEF TakeLine, Basic
    <3> QED  BY <1>1, <3>1, NextLineTyped
  <2> QED  BY <2>1 DEF AfterTake
<1>3. /\ line[t] \in Nat /\ line'[t] \in Nat /\ line'[t] >= line[t]
      /\ c \in Loops => line'[t] > line[t]
      /\ \A u \in Txns \ {t} : line'[u] = line[u]
  <2>1. NextLine(t, "take", AfterTake(t)) /\ AfterTake(t) \notin Loops
    BY DEF TakeLine, AfterTake, Loops
  <2>2. pc'[t] = c
    BY <1>2 DEF Basic, TypeOK
  <2> QED  BY <1>1, <2>1, <2>2, NextLineMore, NextLineTyped DEF Basic
<1>4. /\ taken'[t] = taken[t] \cup {line[t]}
      /\ \A u \in Txns \ {t} : taken'[u] = taken[u] /\ pend'[u] = pend[u]
      /\ Lock(t, r) /\ CanLock(t, r)
      /\ IF req[t].kind = "pos" THEN pend'[t] = pend[t] \cup {Movement(t, -Here(t).qty, "pos_sale")}
         ELSE pend'[t] = pend[t]
  BY DEF TakeLine, RecordMovement, Basic, TypeOK
<1>5. /\ holder'[r] = t
      /\ \A x \in Rows \ {r} : holder'[x] = holder[x]
      /\ \A x \in Rows : holder[x] \notin {t, Nobody} => holder'[x] = holder[x]
  BY <1>1, <1>4 DEF Lock, CanLock, Basic, TypeOK, Resources
<1>6. OwnTxn(t)'
  <2>1. OwnTxn(t)
    BY DEF OwnOK
  <2>2. pc'[t] = c /\ ~ Fresh(t)'
    BY <1>1, <1>2 DEF Fresh, Basic, TypeOK
  <2>3. ASSUME NEW i \in taken'[t]
        PROVE  /\ i \in DOMAIN req[t].lines
               /\ status[t] = "none" => holder'[req[t].lines[i].row] = t
               /\ c \in Loops => i < line'[t]
    <3>1. CASE i = line[t]
      BY <1>1, <1>3, <1>5, <3>1
    <3>2. CASE i # line[t]
      <4>1. i \in taken[t]
        BY <1>4, <3>2
      <4>2. /\ i \in DOMAIN req[t].lines /\ i < line[t]
            /\ status[t] = "none" => holder[req[t].lines[i].row] = t
        BY <1>1, <2>1, <4>1 DEF OwnTxn, Loops
      <4>3. i \in Nat /\ req[t].lines[i].row \in Rows
        BY <4>2, LineOf DEF Basic, TypeOK
      <4> QED  BY <1>3, <1>5, <4>2, <4>3
    <3> QED  BY <3>1, <3>2
  <2>4. ASSUME NEW m \in pend'[t]
        PROVE  m.by = t /\ holder'[m.row] = t /\ (c \in Loops => m.line < line'[t])
    <3>1. CASE m \in pend[t]
      <4>1. m.by = t /\ holder[m.row] = t /\ m.line < line[t]
        BY <1>1, <2>1, <3>1 DEF OwnTxn, Loops
      <4>2. m.line \in Nat /\ m.row \in Rows
        BY <3>1 DEF Basic, TypeOK, Movements
      <4> QED  BY <1>3, <1>5, <4>1, <4>2
    <3>2. CASE m \notin pend[t]
      <4>1. m.by = t /\ m.row = r /\ m.line = line[t]
        BY <1>4, <3>2 DEF Movement
      <4> QED  BY <1>3, <1>5, <4>1
    <3> QED  BY <3>1, <3>2
  <2>5. IsFiniteSet(pend'[t])
    BY <1>4, <2>1, FS_AddElement DEF OwnTxn
  <2>6. req[t].kind = "storefront" => pend'[t] = {}
    BY <1>4, <2>1 DEF OwnTxn
  <2> HIDE DEF r
  <2> QED  BY <1>1, <1>2, <2>1, <2>2, <2>3, <2>4, <2>5, <2>6 DEF OwnTxn, Edits, Sales
<1>7. \A u \in Txns \ {t} : pc'[u] = pc[u]
  BY <1>2 DEF Basic, TypeOK
<1> QED  BY <1>1, <1>3, <1>4, <1>5, <1>6, <1>7, OneOwns

\* The increment of a restore or of a restock.
LEMMA PutOwn == ASSUME Basic, OwnOK, NEW t \in Txns, PutBack(t) PROVE OwnOK'
<1> DEFINE r == Here(t).row
           m0 == Movement(t, Here(t).qty, IF req[t].kind = "cancel"
                                          THEN "order_cancel_restore" ELSE "manual_restock")
<1>1. /\ pc[t] = "put" /\ req[t].kind \in {"cancel", "restock"}
      /\ line[t] \in DOMAIN req[t].lines /\ r \in Rows
      /\ req' = req /\ moves' = moves /\ status' = status /\ taken' = taken
  <2>1. pc[t] = "put" /\ req[t].kind \in {"cancel", "restock"}
    BY DEF PutBack, Basic, ControlOK, Fits
  <2> QED  BY <2>1, HereTyped DEF Cancelling, PutBack, shared
<1>2. PICK c \in {"check", "commit"} : pc' = [pc EXCEPT ![t] = c]
  BY <1>1, NextLineTyped DEF PutBack, Basic
<1>3. /\ line[t] \in Nat /\ line'[t] \in Nat /\ line'[t] >= line[t]
      /\ c \in Loops => line'[t] > line[t]
      /\ \A u \in Txns \ {t} : line'[u] = line[u]
  <2>1. NextLine(t, "check", "commit")
    BY DEF PutBack
  <2>2. pc'[t] = c /\ "commit" \notin Loops
    BY <1>2 DEF Basic, TypeOK, Loops
  <2> QED  BY <1>1, <2>1, <2>2, NextLineMore, NextLineTyped DEF Basic
<1>4. /\ pend'[t] = pend[t] \cup {m0}
      /\ \A u \in Txns \ {t} : pend'[u] = pend[u]
      /\ Lock(t, r) /\ CanLock(t, r)
  BY DEF PutBack, RecordMovement, Basic, TypeOK
<1>5. /\ holder'[r] = t
      /\ \A x \in Rows \ {r} : holder'[x] = holder[x]
      /\ \A x \in Rows : holder[x] \notin {t, Nobody} => holder'[x] = holder[x]
  BY <1>1, <1>4 DEF Lock, CanLock, Basic, TypeOK, Resources
<1>6. OwnTxn(t)'
  <2>1. OwnTxn(t) /\ taken[t] = {}
    BY <1>1 DEF OwnOK, OwnTxn, Sales
  <2>2. pc'[t] = c /\ ~ Fresh(t)'
    BY <1>1, <1>2 DEF Fresh, Basic, TypeOK
  <2>3. m0.by = t /\ m0.row = r /\ m0.line = line[t]
    BY DEF Movement
  <2>4. ASSUME NEW m \in pend'[t]
        PROVE  m.by = t /\ holder'[m.row] = t /\ (c \in Loops => m.line < line'[t])
    <3>1. CASE m \in pend[t]
      <4>1. m.by = t /\ holder[m.row] = t /\ m.line < line[t]
        BY <1>1, <2>1, <3>1 DEF OwnTxn, Loops
      <4>2. m.line \in Nat /\ m.row \in Rows
        BY <3>1 DEF Basic, TypeOK, Movements
      <4> QED  BY <1>3, <1>5, <4>1, <4>2
    <3>2. CASE m \notin pend[t]
      <4>1. m = m0
        BY <1>4, <3>2
      <4> HIDE DEF m0
      <4> QED  BY <1>3, <1>5, <2>3, <4>1
    <3> QED  BY <3>1, <3>2
  <2>5. IsFiniteSet(pend'[t])
    BY <1>4, <2>1, FS_AddElement DEF OwnTxn
  <2> HIDE DEF r, m0
  <2> QED  BY <1>1, <1>2, <2>1, <2>2, <2>4, <2>5 DEF OwnTxn, Edits, Sales
<1>7. \A u \in Txns \ {t} : pc'[u] = pc[u]
  BY <1>2 DEF Basic, TypeOK
<1> QED  BY <1>1, <1>3, <1>4, <1>5, <1>6, <1>7, OneOwns

\* The statements that write neither a line of a sale nor a movement.
LEMMA OtherOwn ==
    ASSUME Basic, OwnOK, NEW t \in Txns,
           \/ ReadCatalog(t) \/ SkipLine(t) \/ LockNumber(t) \/ InsertOrder(t)
           \/ ReadOrder(t) \/ MarkCancelled(t) \/ CheckLine(t)
           \/ ReadForRestock(t) \/ ReadForEdit(t) \/ WriteEdit(t)
    PROVE  OwnOK'
<1>1. UNCHANGED <<taken, pend, status, moves>>
  BY DEF ReadCatalog, SkipLine, LockNumber, InsertOrder, ReadOrder, MarkCancelled,
         CheckLine, ReadForRestock, ReadForEdit, WriteEdit, shared
<1>2. req[t].kind \in Edits => req[t] \in Requests
  BY DEF OwnOK, OwnTxn
<1>3. CASE ReadCatalog(t) \/ ReadForRestock(t) \/ ReadForEdit(t)
  <2>1. Fresh(t) /\ pc[t] = "read" /\ UNCHANGED <<holder, req, line>>
    BY <1>3 DEF ReadCatalog, ReadForRestock, ReadForEdit, Fresh
  <2>2. PICK c \in {"number", "take", "put", "edit"} : pc' = [pc EXCEPT ![t] = c]
    BY <1>3 DEF ReadCatalog, ReadForRestock, ReadForEdit
  <2> QED  BY <1>1, <1>2, <2>1, <2>2, SameOwns
<1>4. CASE ReadOrder(t)
  <2>1. /\ Fresh(t) /\ pc[t] = "read" /\ pc' = [pc EXCEPT ![t] = "mark"]
        /\ UNCHANGED <<holder, line>> /\ req'[t].kind = "cancel"
        /\ \A u \in Txns \ {t} : req'[u] = req[u]
    BY <1>4 DEF ReadOrder, Fresh, Basic, TypeOK, Request
  <2> QED  BY <1>1, <2>1, SameOwns DEF Edits
<1>5. CASE MarkCancelled(t)
  <2>1. /\ Fresh(t) /\ pc[t] = "mark" /\ pc' = [pc EXCEPT ![t] = "check"]
        /\ UNCHANGED <<req, line>>
    BY <1>5 DEF MarkCancelled, Fresh
  <2>2. req[t].order \in Txns
    BY <1>5 DEF MarkCancelled, Basic, ControlOK, Fits
  <2>3. \A r \in Rows : holder'[r] = holder[r]
    BY <1>5, <2>2, StockAssumption DEF MarkCancelled, Lock, Basic, TypeOK, Resources
  <2> QED  BY <1>1, <1>2, <2>1, <2>3, SameOwns
<1>6. CASE LockNumber(t) \/ InsertOrder(t)
  <2>1. pc[t] \in {"number", "insert"} /\ UNCHANGED <<req, line>> /\ line[t] \in Nat
    BY <1>6 DEF LockNumber, InsertOrder, Basic, TypeOK
  <2>2. PICK c \in {"insert", "take", "commit"} :
           /\ pc' = [pc EXCEPT ![t] = c]
           /\ c = "take" => req[t].kind = "pos"
    BY <1>6 DEF LockNumber, InsertOrder
  <2>3. \A r \in Rows : holder'[r] = holder[r]
    BY <1>6, StockAssumption DEF LockNumber, InsertOrder, Lock, Basic, TypeOK, Resources
  <2>4. Fresh(t) \/ (req[t].kind # "pos" /\ c \in {"insert", "commit"})
    BY <2>1, <2>2 DEF Fresh
  <2> QED  BY <1>1, <1>2, <2>1, <2>2, <2>3, <2>4, SameOwns DEF Loops
<1>7. CASE SkipLine(t) \/ CheckLine(t)
  <2>1. /\ pc[t] \in {"take", "check"} /\ UNCHANGED <<req, holder>>
        /\ line[t] \in DOMAIN req[t].lines
    BY <1>7, HereTyped DEF SkipLine, CheckLine, Selling, Cancelling
  <2>2. CASE pc' = [pc EXCEPT ![t] = "put"] /\ UNCHANGED line
    <3>1. line'[t] \in Nat /\ line'[t] >= line[t] /\ pc[t] \in Loops /\ pc[t] # "done"
      BY <2>1, <2>2 DEF Basic, TypeOK, Loops
    <3> QED  BY <1>1, <1>2, <2>1, <2>2, <3>1, SameOwns
  <2>3. CASE SkipLine(t) /\ NextLine(t, "take", AfterTake(t))
    <3>1. req[t].kind \in Sales /\ AfterTake(t) \notin Loops
      BY <2>3 DEF SkipLine, Basic, ControlOK, Fits, Selling, AfterTake, Loops
    <3>2. PICK c \in {"take", AfterTake(t)} : pc' = [pc EXCEPT ![t] = c]
      BY <2>1, <2>3, NextLineTyped DEF Basic
    <3>3. /\ line'[t] \in Nat /\ line'[t] >= line[t]
          /\ \A u \in Txns \ {t} : line'[u] = line[u]
      BY <2>1, <2>3, <3>1, NextLineMore, NextLineTyped DEF Basic
    <3>4. c \in {"take", "commit", "number"} /\ (c = "number" => req[t].kind # "pos")
      BY <3>2 DEF AfterTake
    <3>5. pc[t] \in Loops /\ pc[t] # "done"
      BY <2>1 DEF Loops
    <3> QED  BY <1>1, <1>2, <2>1, <3>2, <3>3, <3>4, <3>5, SameOwns
  <2>4. CASE CheckLine(t) /\ NextLine(t, "check", "commit")
    <3>1. PICK c \in {"check", "commit"} : pc' = [pc EXCEPT ![t] = c]
      BY <2>1, <2>4, NextLineTyped DEF Basic
    <3>2. /\ line'[t] \in Nat /\ line'[t] >= line[t]
          /\ \A u \in Txns \ {t} : line'[u] = line[u]
      BY <2>1, <2>4, NextLineMore, NextLineTyped DEF Basic, Loops
    <3>3. pc[t] \in Loops /\ pc[t] # "done"
      BY <2>1 DEF Loops
    <3> QED  BY <1>1, <1>2, <2>1, <3>1, <3>2, <3>3, SameOwns
  <2> QED  BY <1>7, <2>2, <2>3, <2>4 DEF SkipLine, CheckLine
<1>8. CASE WriteEdit(t)
  <2>1. /\ pc[t] = "edit" /\ pc' = [pc EXCEPT ![t] = "commit"] /\ UNCHANGED <<req, line>>
    BY <1>8 DEF WriteEdit
  <2>2. Here(t).row \in Rows
    BY <2>1, HereTyped
  <2>3. \A r \in Rows : holder[r] # Nobody => holder'[r] = holder[r]
    BY <1>8, <2>2 DEF WriteEdit, Lock, CanLock, Basic, TypeOK, Resources
  <2> QED  BY <1>1, <1>2, <2>1, <2>3, SameOwns DEF Loops
<1> QED  BY <1>3, <1>4, <1>5, <1>6, <1>7, <1>8

\* Who is undone or commits has not ended: in a cycle one waits for a lock.
LEMMA AbortedRuns ==
    ASSUME NEW t \in Txns,
           \/ OutOfStock(t) \/ RefuseCancel(t) \/ RefuseRestock(t) \/ DeadlockAbort(t)
           \/ Commit(t) \/ Rollback(t)
    PROVE  pc[t] # "done"
<1>1. pc[t] = "done" => ~ DeadlockAbort(t)
  <2> SUFFICES ASSUME pc[t] = "done", InCycleOf(t, Txns) PROVE FALSE
    BY DEF DeadlockAbort, InCycle
  <2>1. WaitsFor(t) \cap Txns \subseteq {}
    BY DEF WaitsFor, Wanted
  <2> QED  BY <2>1, CycleInClosed
<1> QED  BY <1>1 DEF OutOfStock, RefuseCancel, RefuseRestock, Commit, Rollback

\* A request that starts has written nothing.
LEMMA BeginOwn == ASSUME Basic, OwnOK, NEW t \in Txns, Begin(t) PROVE OwnOK'
<1>1. PICK q \in Requests : req' = [req EXCEPT ![t] = q]
  BY DEF Begin
<1>2. /\ Fresh(t) /\ pc[t] # "done" /\ pc' = [pc EXCEPT ![t] = "read"]
      /\ UNCHANGED <<taken, pend, status, moves, holder, line>>
      /\ req'[t] \in Requests /\ \A u \in Txns \ {t} : req'[u] = req[u]
  BY <1>1 DEF Begin, Fresh, shared, Basic, TypeOK
<1> QED  BY <1>2, SameOwns

\* Every step keeps whose writes there are.
LEMMA StepOwn == Basic /\ OwnOK /\ [Next]_vars => OwnOK'
<1> SUFFICES ASSUME Basic, OwnOK, [Next]_vars PROVE OwnOK'
  OBVIOUS
<1>1. ASSUME NEW t \in Txns, Begin(t) PROVE OwnOK'
  BY <1>1, BeginOwn
<1>2. ASSUME NEW t \in Txns, Step(t) \/ Rollback(t) PROVE OwnOK'
  <2>1. CASE \/ ReadCatalog(t) \/ SkipLine(t) \/ LockNumber(t) \/ InsertOrder(t)
             \/ ReadOrder(t) \/ MarkCancelled(t) \/ CheckLine(t)
             \/ ReadForRestock(t) \/ ReadForEdit(t) \/ WriteEdit(t)
    BY <2>1, OtherOwn
  <2>2. CASE \/ OutOfStock(t) \/ RefuseCancel(t) \/ RefuseRestock(t) \/ DeadlockAbort(t)
             \/ Commit(t) \/ Rollback(t)
    <3>1. Undo(t) \/ Commit(t)
      BY <2>2 DEF OutOfStock, RefuseCancel, RefuseRestock, DeadlockAbort, Rollback
    <3>2. pc[t] # "done"
      BY <2>2, AbortedRuns
    <3> QED  BY <3>1, <3>2, EndOwn
  <2>3. CASE TakeLine(t) \/ PutBack(t)
    BY <2>3, TakeOwn, PutOwn
  <2> QED  BY <1>2, <2>1, <2>2, <2>3 DEF Step
<1>3. CASE UNCHANGED vars
  BY <1>3 DEF vars, OwnOK, OwnTxn, Fresh
<1> QED  BY <1>1, <1>2, <1>3 DEF Next, Finished

-----------------------------------------------------------------------------
Qty(lines, r, is) == MapThenSumSet(LAMBDA i : lines[i].qty, {i \in is : lines[i].row = r})
ShippedOf(rq, tk, r, os) == MapThenSumSet(LAMBDA o : Qty(rq[o].lines, r, tk[o]), os)

\* The storefront orders there are.
Online == {o \in Placed : req[o].kind = "storefront"}

LEMMA ShippedIs == \A r : Shipped(r) = ShippedOf(req, taken, r, Online)
BY DEF Shipped, ShippedOf, LineQty, Qty, Online

LEMMA ShippedNext == (\A r : Shipped(r) = ShippedOf(req, taken, r, Online))'
BY ShippedIs, PTL

\* Each of the three sums as a sum of a function.
LEMMA QtyIs ==
    ASSUME NEW lines, NEW r, NEW is \in SUBSET DOMAIN lines
    PROVE  Qty(lines, r, is)
              = Sum([i \in DOMAIN lines |-> lines[i].qty], {i \in is : lines[i].row = r})
<1> DEFINE f == [i \in DOMAIN lines |-> lines[i].qty]
           S == {i \in is : lines[i].row = r}
           U(it) == it = [s \in SUBSET S |-> IF s = {} THEN 0
                             ELSE lines[AnyOf(s)].qty + it[s \ {AnyOf(s)}]]
<1>1. \A s \in SUBSET S : s # {} => f[AnyOf(s)] = lines[AnyOf(s)].qty
  BY AnyOfIn
<1>2. \A it : U(it) <=> Unfolds(it, f, S)
  BY <1>1 DEF Unfolds
<1>3. (CHOOSE it : U(it)) = (CHOOSE it : Unfolds(it, f, S))
  <2> HIDE DEF U, f
  <2> QED  BY <1>2
<1>4. Qty(lines, r, is) = (CHOOSE it : U(it))[S]
  BY DEF Qty, MapThenSumSet, MapThenFoldSet, AnyOf
<1> QED  BY <1>3, <1>4, SumUnfolds

LEMMA MovedIs ==
    ASSUME NEW r, NEW ms \in SUBSET Movements
    PROVE  MovedQty(r, ms) = Sum([m \in Movements |-> m.delta], {m \in ms : m.row = r})
<1> DEFINE f == [m \in Movements |-> m.delta]
           S == {m \in ms : m.row = r}
           U(it) == it = [s \in SUBSET S |-> IF s = {} THEN 0
                             ELSE AnyOf(s).delta + it[s \ {AnyOf(s)}]]
<1>1. \A s \in SUBSET S : s # {} => f[AnyOf(s)] = AnyOf(s).delta
  BY AnyOfIn
<1>2. \A it : U(it) <=> Unfolds(it, f, S)
  BY <1>1 DEF Unfolds
<1>3. (CHOOSE it : U(it)) = (CHOOSE it : Unfolds(it, f, S))
  <2> HIDE DEF U, f
  <2> QED  BY <1>2
<1>4. MovedQty(r, ms) = (CHOOSE it : U(it))[S]
  BY DEF MovedQty, MapThenSumSet, MapThenFoldSet, AnyOf
<1> QED  BY <1>3, <1>4, SumUnfolds

LEMMA ShippedOfIs ==
    ASSUME NEW rq, NEW tk, NEW r, NEW T, NEW os \in SUBSET T
    PROVE  ShippedOf(rq, tk, r, os) = Sum([o \in T |-> Qty(rq[o].lines, r, tk[o])], os)
<1> DEFINE f == [o \in T |-> Qty(rq[o].lines, r, tk[o])]
           U(it) == it = [s \in SUBSET os |-> IF s = {} THEN 0
                             ELSE Qty(rq[AnyOf(s)].lines, r, tk[AnyOf(s)])
                                     + it[s \ {AnyOf(s)}]]
<1>1. \A s \in SUBSET os : s # {} => f[AnyOf(s)] = Qty(rq[AnyOf(s)].lines, r, tk[AnyOf(s)])
  BY AnyOfIn
<1>2. \A it : U(it) <=> Unfolds(it, f, os)
  BY <1>1 DEF Unfolds
<1>3. (CHOOSE it : U(it)) = (CHOOSE it : Unfolds(it, f, os))
  <2> HIDE DEF U, f
  <2> QED  BY <1>2
<1>4. ShippedOf(rq, tk, r, os) = (CHOOSE it : U(it))[os]
  BY DEF ShippedOf, MapThenSumSet, MapThenFoldSet, AnyOf
<1> QED  BY <1>3, <1>4, SumUnfolds

\* The units of a row in some lines of a request.
LEMMA QtyAdd ==
    ASSUME NEW lines \in Seq(Line), NEW r, NEW is \in SUBSET DOMAIN lines,
           \A i \in DOMAIN lines : lines[i].qty \in Int
    PROVE  /\ Qty(lines, r, is) \in Int
           /\ (\A i \in is : lines[i].row # r) => Qty(lines, r, is) = 0
           /\ \A i \in DOMAIN lines \ is :
                 Qty(lines, r, is \cup {i})
                    = Qty(lines, r, is) + (IF lines[i].row = r THEN lines[i].qty ELSE 0)
<1> DEFINE f == [i \in DOMAIN lines |-> lines[i].qty]
           S(js) == {i \in js : lines[i].row = r}
<1>1. IsFiniteSet(DOMAIN lines)
  BY FS_Interval
<1>2. \A js \in SUBSET DOMAIN lines : IsFiniteSet(S(js)) /\ Qty(lines, r, js) = Sum(f, S(js))
  BY <1>1, FS_Subset, QtyIs
<1>3. \A i \in DOMAIN lines : f[i] = lines[i].qty /\ f[i] \in Int
  OBVIOUS
<1>4. S(is) = {} <=> \A i \in is : lines[i].row # r
  OBVIOUS
<1>5. S(is) \subseteq DOMAIN lines
  OBVIOUS
<1>6. ASSUME NEW i \in DOMAIN lines \ is
      PROVE  /\ is \cup {i} \in SUBSET DOMAIN lines /\ i \notin S(is)
             /\ S(is \cup {i}) = IF lines[i].row = r THEN S(is) \cup {i} ELSE S(is)
  OBVIOUS
<1> HIDE DEF f, S
<1>7. Sum(f, S(is)) \in Int
  BY <1>2, <1>3, <1>5, SumTyped
<1>8. ASSUME NEW i \in DOMAIN lines \ is
      PROVE  Sum(f, S(is) \cup {i}) = Sum(f, S(is)) + f[i]
  <2>1. IsFiniteSet(S(is)) /\ i \notin S(is) /\ \A x \in S(is) \cup {i} : f[x] \in Int
    BY <1>2, <1>3, <1>5, <1>6
  <2> QED  BY <2>1, SumAdd
<1>9. (\A i \in is : lines[i].row # r) => Qty(lines, r, is) = 0
  BY <1>2, <1>4, SumEmpty
<1>10. ASSUME NEW i \in DOMAIN lines \ is
       PROVE  Qty(lines, r, is \cup {i})
                 = Qty(lines, r, is) + (IF lines[i].row = r THEN lines[i].qty ELSE 0)
  <2>1. PICK z \in Int : z = Sum(f, S(is)) /\ Qty(lines, r, is) = z
    BY <1>2, <1>7
  <2>2. Qty(lines, r, is \cup {i}) = Sum(f, S(is \cup {i}))
    BY <1>2, <1>6
  <2>3. CASE lines[i].row = r
    BY <1>3, <1>6, <1>8, <2>1, <2>2, <2>3
  <2>4. CASE lines[i].row # r
    <3>1. Qty(lines, r, is \cup {i}) = z
      BY <1>6, <2>1, <2>2, <2>4
    <3> QED  BY <2>1, <2>4, <3>1
  <2> QED  BY <2>3, <2>4
<1> QED  BY <1>2, <1>7, <1>9, <1>10

\* Units a sale or a restock asks for are never negative.
LEMMA QtyNat ==
    ASSUME NEW lines \in Seq(Line), NEW r, \A i \in DOMAIN lines : lines[i].qty \in Nat
    PROVE  /\ Qty(lines, r, DOMAIN lines) \in Nat
           /\ Qty(lines, r, DOMAIN lines) > 0 => \E i \in DOMAIN lines : lines[i].row = r
<1> DEFINE f == [i \in DOMAIN lines |-> lines[i].qty]
           S == {i \in DOMAIN lines : lines[i].row = r}
<1>1. Qty(lines, r, DOMAIN lines) = Sum(f, S)
  BY QtyIs
<1>2. IsFiniteSet(S) /\ \A i \in S : f[i] \in Nat
  BY FS_Interval, FS_Subset
<1>3. (\A i \in DOMAIN lines : lines[i].row # r) => S = {}
  OBVIOUS
<1> HIDE DEF f, S
<1>4. Sum(f, S) \in Nat
  BY <1>2, SumNat
<1>5. S = {} => Sum(f, S) = 0
  BY SumEmpty
<1> QED  BY <1>1, <1>3, <1>4, <1>5

\* The units some movements added to a row.
LEMMA MovedAdd ==
    ASSUME NEW r, NEW ms \in SUBSET Movements, IsFiniteSet(ms)
    PROVE  /\ MovedQty(r, ms) \in Int
           /\ (\A m \in ms : m.row # r) => MovedQty(r, ms) = 0
           /\ \A m \in Movements \ ms :
                 MovedQty(r, ms \cup {m})
                    = MovedQty(r, ms) + (IF m.row = r THEN m.delta ELSE 0)
<1> DEFINE f == [m \in Movements |-> m.delta]
           S(ns) == {m \in ns : m.row = r}
<1>1. \A ns \in SUBSET Movements : MovedQty(r, ns) = Sum(f, S(ns))
  BY MovedIs
<1>2. \A m \in Movements : f[m] = m.delta /\ f[m] \in Int
  BY DEF Movements
<1>3. S(ms) = {} <=> \A m \in ms : m.row # r
  OBVIOUS
<1>4. S(ms) \subseteq Movements /\ IsFiniteSet(S(ms))
  BY FS_Subset
<1>5. ASSUME NEW m \in Movements \ ms
      PROVE  /\ ms \cup {m} \in SUBSET Movements /\ m \notin S(ms)
             /\ S(ms \cup {m}) = IF m.row = r THEN S(ms) \cup {m} ELSE S(ms)
  OBVIOUS
<1> HIDE DEF f, S
<1>6. Sum(f, S(ms)) \in Int
  BY <1>2, <1>4, SumTyped
<1>7. ASSUME NEW m \in Movements \ ms
      PROVE  Sum(f, S(ms) \cup {m}) = Sum(f, S(ms)) + f[m]
  <2>1. IsFiniteSet(S(ms)) /\ m \notin S(ms) /\ \A x \in S(ms) \cup {m} : f[x] \in Int
    BY <1>2, <1>4, <1>5
  <2> QED  BY <2>1, SumAdd
<1>8. (\A m \in ms : m.row # r) => MovedQty(r, ms) = 0
  BY <1>1, <1>3, SumEmpty
<1>9. ASSUME NEW m \in Movements \ ms
      PROVE  MovedQty(r, ms \cup {m})
                = MovedQty(r, ms) + (IF m.row = r THEN m.delta ELSE 0)
  <2>1. PICK z \in Int : z = Sum(f, S(ms)) /\ MovedQty(r, ms) = z
    BY <1>1, <1>6
  <2>2. MovedQty(r, ms \cup {m}) = Sum(f, S(ms \cup {m}))
    BY <1>1, <1>5
  <2>3. CASE m.row = r
    BY <1>2, <1>5, <1>7, <2>1, <2>2, <2>3
  <2>4. CASE m.row # r
    <3>1. MovedQty(r, ms \cup {m}) = z
      BY <1>5, <2>1, <2>2, <2>4
    <3> QED  BY <2>1, <2>4, <3>1
  <2> QED  BY <2>3, <2>4
<1> QED  BY <1>1, <1>6, <1>8, <1>9

LEMMA MovedUnion ==
    ASSUME NEW r, NEW ms \in SUBSET Movements, NEW ns \in SUBSET Movements,
           IsFiniteSet(ms), IsFiniteSet(ns), ms \cap ns = {}
    PROVE  MovedQty(r, ms \cup ns) = MovedQty(r, ms) + MovedQty(r, ns)
<1> DEFINE f == [m \in Movements |-> m.delta]
           S(ks) == {m \in ks : m.row = r}
<1>1. \A ks \in SUBSET Movements : MovedQty(r, ks) = Sum(f, S(ks))
  BY MovedIs
<1>2. \A m \in Movements : f[m] \in Int
  BY DEF Movements
<1>3. /\ S(ms \cup ns) = S(ms) \cup S(ns) /\ S(ms) \cap S(ns) = {}
      /\ S(ms) \cup S(ns) \subseteq Movements
  OBVIOUS
<1>4. IsFiniteSet(S(ms)) /\ IsFiniteSet(S(ns))
  BY FS_Subset
<1> HIDE DEF f, S
<1>5. Sum(f, S(ms) \cup S(ns)) = Sum(f, S(ms)) + Sum(f, S(ns))
  BY <1>2, <1>3, <1>4, SumDisjoint
<1>6. ms \cup ns \in SUBSET Movements
  OBVIOUS
<1> QED  BY <1>1, <1>3, <1>5, <1>6

\* The units in some storefront orders, in one more, and in the same ones of
\* another state.
LEMMA ShippedTyped ==
    ASSUME NEW rq, NEW tk, NEW r, NEW os, IsFiniteSet(os),
           \A x \in os : Qty(rq[x].lines, r, tk[x]) \in Int
    PROVE  ShippedOf(rq, tk, r, os) \in Int
<1> DEFINE f == [x \in os |-> Qty(rq[x].lines, r, tk[x])]
<1>1. ShippedOf(rq, tk, r, os) = Sum(f, os)
  BY ShippedOfIs
<1>2. \A x \in os : f[x] \in Int
  OBVIOUS
<1> HIDE DEF f
<1> QED  BY <1>1, <1>2, SumTyped

LEMMA ShippedAdd ==
    ASSUME NEW rq, NEW tk, NEW r, NEW os, IsFiniteSet(os), NEW o, o \notin os,
           \A x \in os \cup {o} : Qty(rq[x].lines, r, tk[x]) \in Int
    PROVE  ShippedOf(rq, tk, r, os \cup {o})
              = ShippedOf(rq, tk, r, os) + Qty(rq[o].lines, r, tk[o])
<1> DEFINE T == os \cup {o}
           f == [x \in T |-> Qty(rq[x].lines, r, tk[x])]
<1>1. /\ ShippedOf(rq, tk, r, os) = Sum(f, os)
      /\ ShippedOf(rq, tk, r, T) = Sum(f, T)
  BY ShippedOfIs
<1>2. f[o] = Qty(rq[o].lines, r, tk[o]) /\ \A x \in T : f[x] \in Int
  OBVIOUS
<1> HIDE DEF f
<1>3. Sum(f, T) = Sum(f, os) + f[o]
  BY <1>2, SumAdd
<1> QED  BY <1>1, <1>2, <1>3

LEMMA ShippedSame ==
    ASSUME NEW rq, NEW tk, NEW r, NEW os, IsFiniteSet(os), NEW rq2, NEW tk2,
           \A x \in os : Qty(rq[x].lines, r, tk[x]) = Qty(rq2[x].lines, r, tk2[x])
    PROVE  ShippedOf(rq, tk, r, os) = ShippedOf(rq2, tk2, r, os)
<1> DEFINE f == [x \in os |-> Qty(rq[x].lines, r, tk[x])]
           g == [x \in os |-> Qty(rq2[x].lines, r, tk2[x])]
<1>1. ShippedOf(rq, tk, r, os) = Sum(f, os) /\ ShippedOf(rq2, tk2, r, os) = Sum(g, os)
  BY ShippedOfIs
<1>2. \A x \in os : f[x] = g[x]
  OBVIOUS
<1> HIDE DEF f, g
<1> QED  BY <1>1, <1>2, SumSame

-----------------------------------------------------------------------------
\* What request q has done to row r: the movements pd, and the lines tk of a
\* storefront order.
OwnOf(q, tk, pd, r) ==
    MovedQty(r, pd) - (IF q.kind = "storefront" THEN Qty(q.lines, r, tk) ELSE 0)
Own(t, r) == OwnOf(req[t], taken[t], pend[t], r)

\* A row nobody edits is what it was plus what has been booked, and its holder
\* has changed it by what the holder will book.
BooksOK ==
    \A r \in Unedited :
        /\ stock[r] = Add(InitStock[r], MovedQty(r, moves) - Shipped(r))
        /\ \A t \in Txns : holder[r] = t => new[r] = Add(stock[r], Own(t, r))

\* Nothing written is nothing to book.
LEMMA NothingBooked ==
    ASSUME NEW q, NEW r PROVE MovedQty(r, {}) = 0 /\ Qty(q, r, {}) = 0 /\ OwnOf(q, {}, {}, r) = 0
<1>1. MovedQty(r, {}) = 0
  BY MovedAdd, FS_EmptySet
<1>2. \A ls : Qty(ls, r, {}) = 0
  <2> TAKE ls
  <2>1. Qty(ls, r, {}) = Sum([i \in DOMAIN ls |-> ls[i].qty], {i \in {} : ls[i].row = r})
    BY QtyIs
  <2>2. {i \in {} : ls[i].row = r} = {}
    OBVIOUS
  <2> QED  BY <2>1, <2>2, SumEmpty
<1> QED  BY <1>1, <1>2 DEF OwnOf

\* The quantities of a sale's lines.
LEMMA SaleLines ==
    ASSUME Basic, NEW t \in Txns, req[t].kind \in Sales,
           pc[t] \notin {"idle", "done"} \/ status[t] # "none"
    PROVE  /\ req[t].lines \in Seq(Line)
           /\ \A i \in DOMAIN req[t].lines : req[t].lines[i].qty \in Nat \ {0}
BY DEF Basic, TypeOK, LinesOK, HasLines, Request, Sales, Edits

\* What a running request has done to a row is a number, 0 if it has not locked it.
LEMMA OwnTyped ==
    ASSUME Basic, OwnOK, NEW t \in Txns, pc[t] \notin {"idle", "done"}, NEW r \in Rows
    PROVE  Own(t, r) \in Int /\ (holder[r] # t => Own(t, r) = 0)
<1>1. OwnTxn(t) /\ status[t] = "none"
  BY DEF OwnOK, Basic, ControlOK
<1>2. /\ MovedQty(r, pend[t]) \in Int
      /\ holder[r] # t => MovedQty(r, pend[t]) = 0
  <2>1. pend[t] \in SUBSET Movements /\ IsFiniteSet(pend[t])
    BY <1>1 DEF OwnTxn, Basic, TypeOK
  <2>2. holder[r] # t => \A m \in pend[t] : m.row # r
    BY <1>1 DEF OwnTxn
  <2> QED  BY <2>1, <2>2, MovedAdd
<1>3. req[t].kind = "storefront" =>
         /\ Qty(req[t].lines, r, taken[t]) \in Int
         /\ holder[r] # t => Qty(req[t].lines, r, taken[t]) = 0
  <2> SUFFICES ASSUME req[t].kind = "storefront"
               PROVE  /\ Qty(req[t].lines, r, taken[t]) \in Int
                      /\ holder[r] # t => Qty(req[t].lines, r, taken[t]) = 0
    OBVIOUS
  <2>1. /\ req[t].lines \in Seq(Line) /\ taken[t] \in SUBSET DOMAIN req[t].lines
        /\ \A i \in DOMAIN req[t].lines : req[t].lines[i].qty \in Int
    BY <1>1, SaleLines DEF OwnTxn, Sales
  <2>2. holder[r] # t => \A i \in taken[t] : req[t].lines[i].row # r
    BY <1>1 DEF OwnTxn
  <2> QED  BY <2>1, <2>2, QtyAdd
<1> QED  BY <1>2, <1>3 DEF Own, OwnOf

\* The row a request may lock is what was committed and what it has done.
LEMMA NewIsOwn ==
    ASSUME Basic, OwnOK, BooksOK, NEW t \in Txns, pc[t] \notin {"idle", "done"},
           NEW r \in Unedited, CanLock(t, r)
    PROVE  r \in Rows /\ new[r] = Add(stock[r], Own(t, r))
<1>1. r \in Rows
  BY DEF Unedited
<1>2. CASE holder[r] = t
  BY <1>1, <1>2 DEF BooksOK
<1>3. CASE holder[r] # t
  <2>1. holder[r] = Nobody /\ new[r] = stock[r] /\ stock[r] \in Quantity
    BY <1>1, <1>3 DEF CanLock, Basic, StockOK
  <2>2. Own(t, r) = 0
    BY <1>1, <1>3, OwnTyped
  <2> QED  BY <1>1, <2>1, <2>2 DEF Add, Quantity
<1> QED  BY <1>2, <1>3

\* A storefront order has ended, and its units are a number.
LEMMA OnlineTyped ==
    ASSUME Basic, OwnOK
    PROVE  /\ IsFiniteSet(Online) /\ Online \subseteq Txns
           /\ \A o \in Online : pc[o] = "done"
           /\ \A o \in Online, r \in Rows : Qty(req[o].lines, r, taken[o]) \in Int
<1>1. IsFiniteSet(Online) /\ Online \subseteq Txns
  BY StockAssumption, FS_Subset DEF Online, Placed
<1>2. ASSUME NEW o \in Online, NEW r \in Rows
      PROVE pc[o] = "done" /\ Qty(req[o].lines, r, taken[o]) \in Int
  <2>1. /\ o \in Txns /\ status[o] # "none" /\ req[o].kind \in Sales
        /\ OwnTxn(o) /\ pc[o] = "done"
    BY DEF Online, Placed, Sales, OwnOK, Basic, ControlOK
  <2>2. taken[o] \in SUBSET DOMAIN req[o].lines
    BY <2>1 DEF OwnTxn
  <2>3. /\ req[o].lines \in Seq(Line)
        /\ \A i \in DOMAIN req[o].lines : req[o].lines[i].qty \in Int
    BY <2>1, SaleLines
  <2> QED  BY <2>1, <2>2, <2>3, QtyAdd
<1>3. ASSUME NEW o \in Online PROVE pc[o] = "done"
  BY DEF Online, Placed, Basic, ControlOK
<1> QED  BY <1>1, <1>2, <1>3

\* A step that neither commits nor places an order leaves the books balanced.
LEMMA BooksSame ==
    ASSUME Basic, OwnOK, BooksOK, NEW t \in Txns, pc[t] # "done",
           UNCHANGED <<stock, status, moves>>,
           \A u \in Txns \ {t} :
              req'[u] = req[u] /\ taken'[u] = taken[u] /\ pend'[u] = pend[u],
           \A r \in Unedited : \A u \in Txns \ {t} :
              holder'[r] = u => holder[r] = u /\ new'[r] = new[r],
           \A r \in Unedited : holder'[r] = t
              => new'[r] = Add(stock[r], OwnOf(req'[t], taken'[t], pend'[t], r))
    PROVE  BooksOK'
<1> SUFFICES ASSUME NEW r \in Unedited
             PROVE  /\ stock'[r] = Add(InitStock[r], MovedQty(r, moves') - Shipped(r)')
                    /\ \A u \in Txns : holder'[r] = u => new'[r] = Add(stock'[r], Own(u, r)')
  BY DEF BooksOK
<1>1. /\ Shipped(r) = ShippedOf(req, taken, r, Online)
      /\ Shipped(r)' = ShippedOf(req', taken', r, Online')
  BY ShippedIs, ShippedNext
<1>2. t \notin Placed /\ Placed' = Placed
  BY DEF Placed, Basic, ControlOK
<1>3. Online' = Online
  BY <1>2 DEF Online, Placed
<1>4. ShippedOf(req', taken', r, Online) = ShippedOf(req, taken, r, Online)
  <2>1. IsFiniteSet(Online)
    BY OnlineTyped
  <2>2. \A o \in Online : req'[o] = req[o] /\ taken'[o] = taken[o]
    BY <1>2 DEF Online, Placed
  <2> PICK rq, tk : rq = req' /\ tk = taken'
    OBVIOUS
  <2> QED  BY <2>1, <2>2, ShippedSame
<1>5. stock'[r] = Add(InitStock[r], MovedQty(r, moves') - Shipped(r)')
  BY <1>1, <1>3, <1>4 DEF BooksOK
<1>6. ASSUME NEW u \in Txns, holder'[r] = u PROVE new'[r] = Add(stock'[r], Own(u, r)')
  <2>1. Own(u, r)' = OwnOf(req'[u], taken'[u], pend'[u], r)
    BY DEF Own
  <2> QED  BY <1>6, <2>1 DEF BooksOK, Own
<1> QED  BY <1>5, <1>6

\* Nothing is booked before the first request.
LEMMA InitBooks == Init => BooksOK
<1> SUFFICES ASSUME Init, NEW r \in Unedited
             PROVE  /\ stock[r] = Add(InitStock[r], MovedQty(r, moves) - Shipped(r))
                    /\ \A t \in Txns : holder[r] # t
  BY DEF BooksOK
<1>1. r \in Rows /\ InitStock[r] \in Quantity
  BY StockAssumption DEF Unedited
<1>2. MovedQty(r, moves) = 0
  BY NothingBooked DEF Init
<1>3. Shipped(r) = 0
  <2>1. Online = {}
    BY DEF Init, Online, Placed
  <2>2. ShippedOf(req, taken, r, {}) = Sum([o \in Txns |-> Qty(req[o].lines, r, taken[o])], {})
    BY ShippedOfIs
  <2> QED  BY <2>1, <2>2, SumEmpty, ShippedIs
<1>4. stock[r] = Add(InitStock[r], 0 - 0)
  BY <1>1 DEF Init, Add, Quantity
<1> QED  BY <1>1, <1>2, <1>3, <1>4, StockAssumption DEF Init, Resources

\* The end without commit leaves nothing to book.
LEMMA UndoBooks ==
    ASSUME Basic, OwnOK, BooksOK, NEW t \in Txns, pc[t] # "done", Undo(t)
    PROVE  BooksOK'
<1>1. /\ UNCHANGED <<stock, status, moves, req>>
      /\ \A u \in Txns \ {t} : taken'[u] = taken[u] /\ pend'[u] = pend[u]
      /\ holder' = Released(t)
      /\ new' = [r \in Rows |-> IF holder[r] = t THEN stock[r] ELSE new[r]]
  BY DEF Undo, EndSession, shared, Basic, TypeOK
<1>2. \A r \in Unedited : r \in Rows /\ r \in Resources
  BY DEF Unedited, Resources
<1>3. \A r \in Unedited : /\ holder'[r] # t
                          /\ \A u \in Txns \ {t} :
                                holder'[r] = u => holder[r] = u /\ new'[r] = new[r]
  BY <1>1, <1>2, StockAssumption DEF Released
<1> QED  BY <1>1, <1>3, BooksSame

\* The statements that write neither stock nor a movement of an unedited row.
LEMMA OtherBooks ==
    ASSUME Basic, OwnOK, BooksOK, NEW t \in Txns,
           \/ Begin(t) \/ ReadCatalog(t) \/ SkipLine(t) \/ LockNumber(t) \/ InsertOrder(t)
           \/ ReadOrder(t) \/ MarkCancelled(t) \/ CheckLine(t)
           \/ ReadForRestock(t) \/ ReadForEdit(t) \/ WriteEdit(t)
    PROVE  BooksOK'
<1>1. UNCHANGED <<stock, status, moves, taken, pend>> /\ pc[t] # "done"
  BY DEF Begin, ReadCatalog, SkipLine, LockNumber, InsertOrder, ReadOrder, MarkCancelled,
         CheckLine, ReadForRestock, ReadForEdit, WriteEdit, shared
<1>2. \A u \in Txns \ {t} : req'[u] = req[u]
  BY DEF Begin, ReadCatalog, SkipLine, LockNumber, InsertOrder, ReadOrder, MarkCancelled,
         CheckLine, ReadForRestock, ReadForEdit, WriteEdit, Basic, TypeOK
<1>3. \A r \in Unedited : r \in Rows /\ r \in Resources /\ r \notin Txns \cup {Number}
  BY StockAssumption DEF Unedited, Resources
<1>4. \A r \in Unedited : holder'[r] = holder[r] /\ new'[r] = new[r]
  <2>1. CASE WriteEdit(t)
    <3>1. OwnTxn(t) /\ pc[t] = "edit"
      BY <2>1 DEF OwnOK, WriteEdit
    <3>2. req[t] \in Requests /\ req[t].kind \in Edits /\ line[t] \in DOMAIN req[t].lines
      BY <3>1, HereTyped DEF OwnTxn, Basic, ControlOK, Fits
    <3>3. Here(t).row \notin Unedited
      BY <3>2 DEF Unedited, Here
    <3> QED  BY <2>1, <3>3, <1>3 DEF WriteEdit, Lock, Basic, TypeOK
  <2>2. CASE LockNumber(t)
    BY <2>2, <1>3 DEF LockNumber, Lock, Basic, TypeOK
  <2>3. CASE MarkCancelled(t)
    <3>1. req[t].order \in Txns
      BY <2>3 DEF MarkCancelled, Basic, ControlOK, Fits
    <3> QED  BY <2>3, <3>1, <1>3 DEF MarkCancelled, Lock, Basic, TypeOK
  <2>4. CASE \/ Begin(t) \/ ReadCatalog(t) \/ SkipLine(t) \/ InsertOrder(t)
             \/ ReadOrder(t) \/ CheckLine(t) \/ ReadForRestock(t) \/ ReadForEdit(t)
    BY <2>4 DEF Begin, ReadCatalog, SkipLine, InsertOrder, ReadOrder,
                CheckLine, ReadForRestock, ReadForEdit
  <2> QED  BY <2>1, <2>2, <2>3, <2>4
<1>5. \A r \in Unedited : OwnOf(req'[t], taken'[t], pend'[t], r) = Own(t, r)
  <2>1. CASE Begin(t) \/ ReadOrder(t)
    <3>1. Fresh(t)
      BY <2>1 DEF Begin, ReadOrder, Fresh
    <3>2. taken[t] = {} /\ pend[t] = {}
      BY <3>1 DEF OwnOK, OwnTxn
    <3> QED  BY <1>1, <3>2, NothingBooked DEF Own
  <2>2. CASE ~(Begin(t) \/ ReadOrder(t))
    <3>1. req' = req
      BY <2>2 DEF ReadCatalog, SkipLine, LockNumber, InsertOrder, MarkCancelled,
                  CheckLine, ReadForRestock, ReadForEdit, WriteEdit
    <3> QED  BY <1>1, <3>1 DEF Own
  <2> QED  BY <2>1, <2>2
<1>6. \A r \in Unedited : holder'[r] = t
         => new'[r] = Add(stock[r], OwnOf(req'[t], taken'[t], pend'[t], r))
  BY <1>4, <1>5 DEF BooksOK
<1> QED  BY <1>1, <1>2, <1>4, <1>6, BooksSame

\* The movement of the line a request is at is a new one of its own.
LEMMA MovementNew ==
    ASSUME Basic, OwnOK, NEW t \in Txns, pc[t] \in {"take", "put"},
           NEW d \in Int, NEW why \in {"pos_sale", "order_cancel_restore", "manual_restock"}
    PROVE  /\ Movement(t, d, why) \in Movements \ pend[t]
           /\ Movement(t, d, why).row = Here(t).row /\ Movement(t, d, why).delta = d
<1>1. /\ line[t] \in DOMAIN req[t].lines /\ Here(t).row \in Rows
      /\ line[t] \in Nat /\ req[t] \in Request
      /\ req[t].kind = "cancel" => req[t].order \in Txns
  BY HereTyped DEF Selling, Cancelling, Basic, TypeOK, ControlOK
<1>2. Movement(t, d, why) \in Movements
  BY <1>1 DEF Movement, Movements
<1>3. \A m \in pend[t] : m.line < line[t] /\ m.line \in Nat
  BY DEF OwnOK, OwnTxn, Loops, Basic, TypeOK, Movements
<1>4. Movement(t, d, why).line = line[t]
  BY DEF Movement
<1>5. Movement(t, d, why) \notin pend[t]
  BY <1>1, <1>3, <1>4
<1> QED  BY <1>2, <1>5 DEF Movement

\* A statement that locks the row of the line t is at, and books on it what it
\* changes it by.
LEMMA WriteBooks ==
    ASSUME Basic, OwnOK, BooksOK, NEW t \in Txns, pc[t] \in {"take", "put"},
           NEW d \in Int, CanLock(t, Here(t).row), Lock(t, Here(t).row),
           new' = [new EXCEPT ![Here(t).row] = Add(@, d)],
           UNCHANGED <<stock, status, moves, req>>,
           \A u \in Txns \ {t} : taken'[u] = taken[u] /\ pend'[u] = pend[u],
           \A r \in Rows : OwnOf(req[t], taken'[t], pend'[t], r)
                              = Own(t, r) + (IF r = Here(t).row THEN d ELSE 0)
    PROVE  BooksOK'
<1> DEFINE x == Here(t).row
<1>1. x \in Rows
  BY HereTyped DEF Selling, Cancelling
<1>2. /\ holder'[x] = t /\ new'[x] = Add(new[x], d)
      /\ \A r \in Rows \ {x} : holder'[r] = holder[r] /\ new'[r] = new[r]
  BY <1>1 DEF Lock, Basic, TypeOK, Resources
<1>3. ASSUME NEW r \in Unedited, holder'[r] = t
      PROVE  new'[r] = Add(stock[r], OwnOf(req[t], taken'[t], pend'[t], r))
  <2>1. r \in Rows /\ Own(t, r) \in Int /\ stock[r] \in Int \cup {Null} /\ Null \notin Int
    BY OwnTyped, StockAssumption DEF Unedited, Basic, TypeOK
  <2>2. CASE r = x
    <3>1. new[r] = Add(stock[r], Own(t, r))
      BY <2>2, NewIsOwn
    <3>2. OwnOf(req[t], taken'[t], pend'[t], r) = Own(t, r) + d
      BY <2>1, <2>2
    <3>3. Add(Add(stock[r], Own(t, r)), d) = Add(stock[r], Own(t, r) + d)
      BY <2>1 DEF Add
    <3> QED  BY <1>2, <2>2, <3>1, <3>2, <3>3
  <2>3. CASE r # x
    <3>1. OwnOf(req[t], taken'[t], pend'[t], r) = Own(t, r) + 0
      BY <2>1, <2>3
    <3>2. OwnOf(req[t], taken'[t], pend'[t], r) = Own(t, r)
      BY <2>1, <3>1
    <3>3. new'[r] = new[r] /\ holder[r] = t
      BY <1>2, <1>3, <2>1, <2>3
    <3> QED  BY <3>2, <3>3 DEF BooksOK
  <2> QED  BY <2>2, <2>3
<1>4. \A r \in Unedited : \A u \in Txns \ {t} :
         holder'[r] = u => holder[r] = u /\ new'[r] = new[r]
  BY <1>2 DEF Unedited
<1> HIDE DEF x
<1> QED  BY <1>3, <1>4, BooksSame

\* The decrement of a line books its units: as a movement, or as taken.
LEMMA TakeBooks == ASSUME Basic, OwnOK, BooksOK, NEW t \in Txns, TakeLine(t) PROVE BooksOK'
<1> DEFINE x == Here(t).row
           n == Here(t).qty
           m0 == Movement(t, -n, "pos_sale")
<1>1. /\ pc[t] = "take" /\ req[t].kind \in Sales /\ line[t] \in DOMAIN req[t].lines
      /\ x \in Rows /\ n \in Nat \ {0} /\ Here(t) = req[t].lines[line[t]]
  <2>1. pc[t] = "take" /\ req[t].kind \in Sales
    BY DEF TakeLine, Basic, ControlOK, Fits, Selling
  <2> QED  BY <2>1, HereTyped DEF Selling, Sales, Edits
<1>2. /\ CanLock(t, x) /\ Lock(t, x) /\ UNCHANGED <<stock, status, moves, req>>
      /\ taken' = [taken EXCEPT ![t] = @ \cup {line[t]}]
      /\ \A u \in Txns \ {t} : taken'[u] = taken[u] /\ pend'[u] = pend[u]
      /\ IF req[t].kind = "pos" THEN pend'[t] = pend[t] \cup {m0} ELSE pend' = pend
  BY DEF TakeLine, RecordMovement, shared, Basic, TypeOK
<1>3. new' = [new EXCEPT ![x] = Add(@, -n)]
  <2>1. CASE req[t].kind = "pos"
    BY <2>1 DEF TakeLine, RecordMovement
  <2>2. CASE req[t].kind # "pos"
    <3>1. new[x] # Null /\ new[x] \in Int
      <4>1. Visible(t, x) = new[x]
        BY <1>1, <1>2, VisibleIsNew
      <4>2. Visible(t, x) # Null
        BY DEF TakeLine, Suffices
      <4> QED  BY <1>1, <4>1, <4>2 DEF Basic, TypeOK
    <3>2. new[x] - n = Add(new[x], -n)
      BY <1>1, <3>1 DEF Add
    <3>3. new' = [new EXCEPT ![x] = @ - n]
      BY <2>2 DEF TakeLine
    <3> HIDE DEF x, n
    <3> QED  BY <3>2, <3>3
  <2> QED  BY <2>1, <2>2
<1>4. ASSUME NEW r \in Rows
      PROVE  OwnOf(req[t], taken'[t], pend'[t], r) = Own(t, r) + (IF r = x THEN -n ELSE 0)
  <2>1. OwnTxn(t) /\ taken'[t] = taken[t] \cup {line[t]}
    BY <1>2 DEF OwnOK, Basic, TypeOK
  <2>2. PICK a \in Int : a = MovedQty(r, pend[t])
    BY <2>1, MovedAdd DEF OwnTxn, Basic, TypeOK
  <2>3. CASE req[t].kind = "pos"
    <3>1. m0 \in Movements \ pend[t] /\ m0.row = x /\ m0.delta = -n
      BY <1>1, MovementNew
    <3>2. MovedQty(r, pend'[t]) = a + (IF r = x THEN -n ELSE 0)
      <4>1. pend[t] \in SUBSET Movements /\ IsFiniteSet(pend[t])
        BY <2>1 DEF OwnTxn, Basic, TypeOK
      <4> HIDE DEF m0, x, n
      <4>2. MovedQty(r, pend[t] \cup {m0}) = a + (IF m0.row = r THEN m0.delta ELSE 0)
        BY <2>2, <3>1, <4>1, MovedAdd
      <4> QED  BY <1>2, <2>3, <3>1, <4>2
    <3>3. OwnOf(req[t], taken'[t], pend'[t], r) = MovedQty(r, pend'[t]) - 0 /\ Own(t, r) = a - 0
      BY <2>2, <2>3 DEF Own, OwnOf
    <3> HIDE DEF x, n
    <3> QED  BY <1>1, <2>2, <3>2, <3>3
  <2>4. CASE req[t].kind # "pos"
    <3>1. req[t].kind = "storefront" /\ pend'[t] = pend[t]
      BY <1>1, <1>2, <2>4 DEF Sales
    <3>2. /\ req[t].lines \in Seq(Line) /\ taken[t] \in SUBSET DOMAIN req[t].lines
          /\ \A i \in DOMAIN req[t].lines : req[t].lines[i].qty \in Int
          /\ line[t] \in DOMAIN req[t].lines \ taken[t]
      <4>1. \A i \in taken[t] : i \in DOMAIN req[t].lines /\ i < line[t]
        BY <1>1, <2>1 DEF OwnTxn, Loops
      <4>2. line[t] \in Nat
        BY DEF Basic, TypeOK
      <4> QED  BY <1>1, <4>1, <4>2, SaleLines
    <3>3. PICK b \in Int : b = Qty(req[t].lines, r, taken[t])
      BY <3>2, QtyAdd
    <3>4. Qty(req[t].lines, r, taken'[t]) = b + (IF x = r THEN n ELSE 0)
      <4> PICK i : i = line[t]
        OBVIOUS
      <4>1. Qty(req[t].lines, r, taken[t] \cup {i})
               = b + (IF req[t].lines[i].row = r THEN req[t].lines[i].qty ELSE 0)
        BY <3>2, <3>3, QtyAdd
      <4> QED  BY <1>1, <2>1, <4>1
    <3>5. /\ OwnOf(req[t], taken'[t], pend'[t], r) = a - (b + (IF x = r THEN n ELSE 0))
          /\ Own(t, r) = a - b
      BY <2>2, <3>1, <3>3, <3>4 DEF Own, OwnOf
    <3> HIDE DEF x, n
    <3> QED  BY <1>1, <2>2, <3>3, <3>5
  <2> QED  BY <2>3, <2>4
<1>5. -n \in Int
  BY <1>1
<1> QED  BY <1>1, <1>2, <1>3, <1>4, <1>5, WriteBooks

\* The increment of a restore or of a restock books its units as a movement.
LEMMA PutBooks == ASSUME Basic, OwnOK, BooksOK, NEW t \in Txns, PutBack(t) PROVE BooksOK'
<1> DEFINE x == Here(t).row
           n == Here(t).qty
           why == IF req[t].kind = "cancel" THEN "order_cancel_restore" ELSE "manual_restock"
           m0 == Movement(t, n, why)
<1>1. /\ pc[t] = "put" /\ req[t].kind \in {"cancel", "restock"}
      /\ x \in Rows /\ n \in Nat
  <2>1. pc[t] = "put" /\ req[t].kind \in {"cancel", "restock"}
    BY DEF PutBack, Basic, ControlOK, Fits
  <2> QED  BY <2>1, HereTyped DEF Cancelling, Edits
<1>2. /\ CanLock(t, x) /\ Lock(t, x) /\ UNCHANGED <<stock, status, moves, req>>
      /\ taken' = taken /\ pend'[t] = pend[t] \cup {m0}
      /\ \A u \in Txns \ {t} : pend'[u] = pend[u]
      /\ new' = [new EXCEPT ![x] = Add(@, n)]
  BY DEF PutBack, RecordMovement, shared, Basic, TypeOK
<1>3. m0 \in Movements \ pend[t] /\ m0.row = x /\ m0.delta = n
  BY <1>1, MovementNew
<1>4. pend[t] \in SUBSET Movements /\ IsFiniteSet(pend[t])
  BY DEF OwnOK, OwnTxn, Basic, TypeOK
<1>5. ASSUME NEW r \in Rows
      PROVE  OwnOf(req[t], taken'[t], pend'[t], r) = Own(t, r) + (IF r = x THEN n ELSE 0)
  <2>1. PICK a \in Int : a = MovedQty(r, pend[t])
    BY <1>4, MovedAdd
  <2>2. MovedQty(r, pend'[t]) = a + (IF r = x THEN n ELSE 0)
    <3> HIDE DEF m0, x, n
    <3>1. MovedQty(r, pend[t] \cup {m0}) = a + (IF m0.row = r THEN m0.delta ELSE 0)
      BY <1>3, <1>4, <2>1, MovedAdd
    <3> QED  BY <1>2, <1>3, <3>1
  <2>3. /\ OwnOf(req[t], taken'[t], pend'[t], r) = MovedQty(r, pend'[t]) - 0
        /\ Own(t, r) = a - 0
    BY <1>1, <2>1 DEF Own, OwnOf
  <2> HIDE DEF x, n
  <2> QED  BY <1>1, <2>1, <2>2, <2>3
<1>6. n \in Int
  BY <1>1
<1> QED  BY <1>1, <1>2, <1>5, <1>6, WriteBooks

\* The orders there are after a commit: one more if it is a sale's.
LEMMA CommitPlaces ==
    ASSUME Basic, OwnOK, NEW t \in Txns, Commit(t)
    PROVE  /\ t \notin Placed /\ UNCHANGED <<req, taken>>
           /\ req[t].kind \in Sales => /\ Placed' = Placed \cup {t} /\ status'[t] # "cancelled"
                                       /\ \A o \in Txns \ {t} : status'[o] = status[o]
           /\ req[t].kind = "cancel" => /\ Placed' = Placed /\ req[t].order \in Placed
                                        /\ status'[req[t].order] = "cancelled"
                                        /\ \A o \in Txns \ {req[t].order} : status'[o] = status[o]
           /\ req[t].kind \notin Sales \cup {"cancel"} => status' = status
<1>1. /\ pc[t] = "commit" /\ status[t] = "none" /\ UNCHANGED <<req, taken>>
      /\ req[t].kind = "cancel" => req[t].order \in Txns /\ status[req[t].order] # "none"
  BY DEF Commit, Basic, ControlOK, Cancelling
<1>2. CASE req[t].kind \in Sales
  <2>1. PICK s \in {"pending", "fulfilled"} : status' = [status EXCEPT ![t] = s]
    BY <1>2 DEF Commit, Sales, Edits
  <2> QED  BY <1>1, <1>2, <2>1 DEF Sales, Placed, Basic, TypeOK
<1>3. CASE req[t].kind = "cancel"
  <2>1. status' = [status EXCEPT ![req[t].order] = "cancelled"]
    BY <1>3 DEF Commit, Sales, Edits
  <2> QED  BY <1>1, <1>3, <2>1 DEF Sales, Placed, Basic, TypeOK
<1>4. CASE req[t].kind \notin Sales \cup {"cancel"}
  BY <1>1, <1>4 DEF Commit, Placed
<1> QED  BY <1>2, <1>3, <1>4

\* A commit changes the rows by what its request has done to them.
LEMMA CommitStock ==
    ASSUME Basic, OwnOK, BooksOK, NEW t \in Txns, Commit(t), NEW r \in Unedited
    PROVE  stock'[r] = Add(stock[r], Own(t, r)) /\ Own(t, r) \in Int
<1>1. r \in Rows /\ pc[t] = "commit" /\ Own(t, r) \in Int
  BY OwnTyped DEF Commit, Unedited
<1>2. stock'[r] = IF holder[r] = t THEN new[r] ELSE stock[r]
  BY <1>1 DEF Commit
<1>3. CASE holder[r] = t
  BY <1>1, <1>2, <1>3 DEF BooksOK
<1>4. CASE holder[r] # t
  <2>1. Own(t, r) = 0 /\ stock[r] \in Int \cup {Null}
    BY <1>1, <1>4, OwnTyped DEF Basic, TypeOK
  <2> QED  BY <1>2, <1>4, <2>1 DEF Add
<1> QED  BY <1>1, <1>3, <1>4

\* A commit books all that its request has done, and nothing twice.
LEMMA CommitBooks == ASSUME Basic, OwnOK, BooksOK, NEW t \in Txns, Commit(t) PROVE BooksOK'
<1>1. /\ pc[t] = "commit" /\ req' = req /\ taken' = taken /\ moves' = moves \cup pend[t]
      /\ stock' = [r \in Rows |-> IF holder[r] = t THEN new[r] ELSE stock[r]]
      /\ holder' = Released(t) /\ new' = new
      /\ \A u \in Txns \ {t} : pend'[u] = pend[u]
  BY DEF Commit, EndSession, Basic, TypeOK
<1>2. /\ pend[t] \in SUBSET Movements /\ IsFiniteSet(pend[t])
      /\ moves \in SUBSET Movements /\ IsFiniteSet(moves) /\ moves \cap pend[t] = {}
  BY <1>1 DEF OwnOK, OwnTxn, Basic, TypeOK
<1> SUFFICES ASSUME NEW r \in Unedited
             PROVE  /\ stock'[r] = Add(InitStock[r], MovedQty(r, moves') - Shipped(r)')
                    /\ \A u \in Txns : holder'[r] = u => new'[r] = Add(stock'[r], Own(u, r)')
  BY DEF BooksOK
<1>3. r \in Rows /\ r \in Resources /\ InitStock[r] \in Quantity /\ Null \notin Int
  BY StockAssumption DEF Unedited, Resources
<1>4. PICK a \in Int, b \in Int : a = MovedQty(r, moves) /\ b = MovedQty(r, pend[t])
  BY <1>2, MovedAdd
<1>5. MovedQty(r, moves') = a + b
  <2>1. MovedQty(r, moves \cup pend[t]) = a + b
    BY <1>2, <1>4, MovedUnion
  <2> QED  BY <1>1, <2>1
<1>6. PICK s \in Int : s = Shipped(r) /\ s = ShippedOf(req, taken, r, Online)
  BY <1>3, OnlineTyped, ShippedTyped, ShippedIs
<1>7. PICK d \in Int :
         /\ d = IF req[t].kind = "storefront" THEN Qty(req[t].lines, r, taken[t]) ELSE 0
         /\ Own(t, r) = b - d
  <2>1. req[t].kind = "storefront" => Qty(req[t].lines, r, taken[t]) \in Int
    <3> SUFFICES ASSUME req[t].kind = "storefront"
                 PROVE  Qty(req[t].lines, r, taken[t]) \in Int
      OBVIOUS
    <3>1. taken[t] \in SUBSET DOMAIN req[t].lines
      BY DEF OwnOK, OwnTxn
    <3>2. /\ req[t].lines \in Seq(Line)
          /\ \A i \in DOMAIN req[t].lines : req[t].lines[i].qty \in Int
      BY <1>1, SaleLines DEF Sales
    <3> QED  BY <3>1, <3>2, QtyAdd
  <2> QED  BY <1>4, <2>1 DEF Own, OwnOf
<1>8. Shipped(r)' = s + d
  <2>1. Shipped(r)' = ShippedOf(req, taken, r, Online')
    BY <1>1, ShippedNext
  <2>2. CASE req[t].kind = "storefront"
    <3>1. t \notin Online /\ Online' = Online \cup {t}
      BY <1>1, <2>2, CommitPlaces DEF Online, Sales
    <3>2. \A x \in Online \cup {t} : Qty(req[x].lines, r, taken[x]) \in Int
      BY <1>3, <1>7, <2>2, OnlineTyped
    <3>3. ShippedOf(req, taken, r, Online \cup {t})
             = ShippedOf(req, taken, r, Online) + Qty(req[t].lines, r, taken[t])
      BY <3>1, <3>2, OnlineTyped, ShippedAdd
    <3> QED  BY <1>6, <1>7, <2>1, <2>2, <3>1, <3>3
  <2>3. CASE req[t].kind # "storefront"
    <3>1. Online' = Online
      <4>1. req[t].kind \notin Sales \cup {"cancel"} => Placed' = Placed
        BY CommitPlaces DEF Placed
      <4>2. req[t].kind = "cancel" => Placed' = Placed
        BY CommitPlaces
      <4>3. req[t].kind \in Sales => Placed' = Placed \cup {t}
        BY CommitPlaces
      <4> QED  BY <1>1, <2>3, <4>1, <4>2, <4>3 DEF Online
    <3> QED  BY <1>6, <1>7, <2>1, <2>3, <3>1
  <2> QED  BY <2>2, <2>3
<1>9. stock'[r] = Add(stock[r], b - d)
  BY <1>7, CommitStock
<1>10. stock'[r] = Add(InitStock[r], MovedQty(r, moves') - Shipped(r)')
  <2>1. stock[r] = Add(InitStock[r], a - s)
    BY <1>4, <1>6 DEF BooksOK
  <2>2. Add(Add(InitStock[r], a - s), b - d) = Add(InitStock[r], (a + b) - (s + d))
    BY <1>3 DEF Add, Quantity
  <2> QED  BY <1>5, <1>8, <1>9, <2>1, <2>2
<1>11. ASSUME NEW u \in Txns, holder'[r] = u PROVE new'[r] = Add(stock'[r], Own(u, r)')
  <2>1. u # t /\ holder[r] = u
    BY <1>1, <1>3, <1>11, StockAssumption DEF Released
  <2>2. Own(u, r)' = Own(u, r) /\ stock'[r] = stock[r] /\ new'[r] = new[r]
    BY <1>1, <1>3, <2>1 DEF Own
  <2> QED  BY <2>1, <2>2 DEF BooksOK
<1> QED  BY <1>10, <1>11

\* Every step keeps the books balanced.
LEMMA StepBooks == Basic /\ OwnOK /\ BooksOK /\ [Next]_vars => BooksOK'
<1> SUFFICES ASSUME Basic, OwnOK, BooksOK, [Next]_vars PROVE BooksOK'
  OBVIOUS
<1>1. ASSUME NEW t \in Txns, Begin(t) PROVE BooksOK'
  BY <1>1, OtherBooks
<1>2. ASSUME NEW t \in Txns, Step(t) \/ Rollback(t) PROVE BooksOK'
  <2>1. CASE \/ ReadCatalog(t) \/ SkipLine(t) \/ LockNumber(t) \/ InsertOrder(t)
             \/ ReadOrder(t) \/ MarkCancelled(t) \/ CheckLine(t)
             \/ ReadForRestock(t) \/ ReadForEdit(t) \/ WriteEdit(t)
    BY <2>1, OtherBooks
  <2>2. CASE \/ OutOfStock(t) \/ RefuseCancel(t) \/ RefuseRestock(t) \/ DeadlockAbort(t)
             \/ Rollback(t)
    <3>1. Undo(t) /\ pc[t] # "done"
      BY <2>2, AbortedRuns DEF OutOfStock, RefuseCancel, RefuseRestock, DeadlockAbort, Rollback
    <3> QED  BY <3>1, UndoBooks
  <2>3. CASE TakeLine(t) \/ PutBack(t) \/ Commit(t)
    BY <2>3, TakeBooks, PutBooks, CommitBooks
  <2> QED  BY <1>2, <2>1, <2>2, <2>3 DEF Step
<1>3. CASE UNCHANGED vars
  <2>1. \A r : Shipped(r)' = Shipped(r)
    <3>1. \A r : Shipped(r) = ShippedOf(req, taken, r, Online)
      BY ShippedIs
    <3>2. \A r : Shipped(r)' = ShippedOf(req', taken', r, Online')
      BY ShippedNext
    <3>3. Online' = Online /\ req' = req /\ taken' = taken
      BY <1>3 DEF vars, Online, Placed
    <3> QED  BY <3>1, <3>2, <3>3
  <2> QED  BY <1>3, <2>1 DEF vars, BooksOK, Own
<1> QED  BY <1>1, <1>2, <1>3 DEF Next, Finished

\* Whatever the requests, and whatever shops edit besides: a stock_qty nobody
\* edits is the first one, plus the audited movements, minus what the storefront
\* orders took; and NULL stays NULL.
THEOREM BooksBalance == Spec => []StockReconciles
<1>1. Init => Basic /\ OwnOK /\ BooksOK
  BY InitBasic, InitOwn, InitBooks
<1>2. Basic /\ OwnOK /\ BooksOK /\ [Next]_vars => (Basic /\ OwnOK /\ BooksOK)'
  BY StepBasic, StepOwn, StepBooks
<1>3. BooksOK => StockReconciles
  BY DEF BooksOK, StockReconciles
<1> QED  BY <1>1, <1>2, <1>3, PTL DEF Spec

-----------------------------------------------------------------------------
\* A shop that tracks all its products, edits none of them while it sells, and
\* whose carts name a row once.
Simple(ls) == \A i, j \in DOMAIN ls : ls[i].row = ls[j].row => i = j
PlainShop ==
    /\ InitTracked = Products
    /\ \A q \in Requests : q.kind \notin Edits
    /\ \A q \in Requests : q.kind \in Sales => Simple(q.lines)

\* The movement that line i of request q of t is recorded with.
MoveOf(t, q, i) ==
    [by |-> t, line |-> i, row |-> q.lines[i].row,
     delta |-> IF q.kind = "pos" THEN -q.lines[i].qty ELSE q.lines[i].qty,
     reason |-> IF q.kind = "pos" THEN "pos_sale"
                ELSE IF q.kind = "cancel" THEN "order_cancel_restore" ELSE "manual_restock",
     order |-> IF q.kind = "cancel" THEN q.order
               ELSE IF q.kind = "restock" THEN Nobody ELSE t]

\* Sale t is past its loop over the lines.
Took(t) ==
    \/ pc[t] = "commit" \/ status[t] # "none"
    \/ req[t].kind = "storefront" /\ pc[t] \in {"number", "insert"}

\* A sale takes line after line, all of them before it commits.
SaleOK(t) ==
    /\ req[t].kind = "pos" /\ pc[t] \in {"number", "insert"} => line[t] = 1
    /\ pc[t] = "take" => \A i \in DOMAIN req[t].lines : i < line[t] => i \in taken[t]
    /\ Took(t) => taken[t] = DOMAIN req[t].lines
    /\ req[t].kind = "pos" /\ status[t] = "none" => taken[t] = {m.line : m \in pend[t]}

\* A cancellation restores line after line of its order, or finds them restored.
CancelOK(t) ==
    LET q == req[t] IN
    /\ q.lines = req[q.order].lines
    /\ pc[t] = "mark" => line[t] = 1
    /\ Restoring(t) =>
          /\ \A i \in DOMAIN q.lines :
                i < line[t] \/ pc[t] = "commit" => Restored(t, q.order, q.lines[i].row)
          /\ status[q.order] = "cancelled" => pend[t] = {} /\ pc[t] # "put"

PlainTxn(t) ==
    /\ req[t].kind \notin Edits
    /\ \A p \in Products : snap[t][p] # "untracked"
    /\ \A m \in pend[t] : m.line \in DOMAIN req[t].lines /\ m = MoveOf(t, req[t], m.line)
    /\ \A i \in taken[t] : InitStock[req[t].lines[i].row] # Null
    /\ req[t].kind \in Sales => Simple(req[t].lines) /\ SaleOK(t)
    /\ pc[t] = "mark" \/ Restoring(t) => CancelOK(t)

\* The rows of cancelled orders are restored, and no others.
PlainOK ==
    /\ tracked = Products
    /\ \A t \in Txns : PlainTxn(t)
    /\ \A o \in Txns : status[o] = "cancelled" =>
          \A i \in DOMAIN req[o].lines :
             \E m \in moves : IsRestore(m) /\ m.order = o /\ m.row = req[o].lines[i].row
    /\ \A m \in moves : IsRestore(m) => m.order \in Txns /\ status[m.order] = "cancelled"

\* All that holds while such a shop trades.
Plain == Inv /\ OwnOK /\ BooksOK /\ PlainOK

LEMMA AllUnedited == PlainShop => Unedited = Rows
BY DEF PlainShop, Unedited

LEMMA InitPlain == PlainShop /\ Init => PlainOK
BY DEF PlainShop, Init, PlainOK, PlainTxn, SaleOK, CancelOK, Took, Restoring, Unread,
       Edits, Sales

\* A step of t leaves the others at their lines.
LEMMA PlainOthers ==
    ASSUME Inv, PlainOK, NEW t \in Txns, pc[t] # "done",
           \A u \in Txns \ {t} :
              /\ pc'[u] = pc[u] /\ req'[u] = req[u] /\ line'[u] = line[u]
              /\ snap'[u] = snap[u] /\ taken'[u] = taken[u] /\ pend'[u] = pend[u],
           \A o \in Txns \ {t} : status'[o] # status[o] =>
              holder[o] = t /\ status[o] # "none" /\ status'[o] # "none",
           moves \subseteq moves'
    PROVE  \A u \in Txns \ {t} : PlainTxn(u)'
<1> SUFFICES ASSUME NEW u \in Txns \ {t} PROVE PlainTxn(u)'
  OBVIOUS
<1>1. /\ pc'[u] = pc[u] /\ req'[u] = req[u] /\ line'[u] = line[u]
      /\ snap'[u] = snap[u] /\ taken'[u] = taken[u] /\ pend'[u] = pend[u]
      /\ status'[u] = "none" <=> status[u] = "none"
  OBVIOUS
<1>2. PlainTxn(u)
  BY DEF PlainOK
<1>3. req[u].kind \in Sales => Simple(req[u].lines)' /\ SaleOK(u)'
  BY <1>1, <1>2 DEF PlainTxn, Simple, SaleOK, Took
<1>4. ASSUME pc[u] = "mark" \/ Restoring(u) PROVE CancelOK(u)'
  <2>1. CancelOK(u) /\ req[u].order \in Txns \ {t}
    BY <1>2, <1>4 DEF PlainTxn, Inv, Basic, ControlOK, Fits, Restoring, Cancelling
  <2>2. Restoring(u) => status'[req[u].order] = status[req[u].order]
    BY <2>1 DEF Inv, RestoreOK
  <2>3. \A r : Restored(u, req[u].order, r) => Restored(u, req[u].order, r)'
    BY <1>1 DEF Restored
  <2> QED  BY <1>1, <2>1, <2>2, <2>3 DEF CancelOK, Restoring
<1> QED  BY <1>1, <1>2, <1>3, <1>4 DEF PlainTxn, MoveOf, Restoring

\* A step that commits nothing.
LEMMA PlainStays ==
    ASSUME Inv, PlainOK, NEW t \in Txns, pc[t] # "done",
           \A u \in Txns \ {t} :
              /\ pc'[u] = pc[u] /\ req'[u] = req[u] /\ line'[u] = line[u]
              /\ snap'[u] = snap[u] /\ taken'[u] = taken[u] /\ pend'[u] = pend[u],
           UNCHANGED <<status, moves, tracked>>,
           PlainTxn(t)'
    PROVE  PlainOK'
<1>1. \A u \in Txns \ {t} : PlainTxn(u)'
  BY PlainOthers
<1>2. \A o \in Txns : status[o] = "cancelled" => o # t
  BY DEF Inv, Basic, ControlOK
<1> QED  BY <1>1, <1>2 DEF PlainOK

\* Products are loaded as tracked.
LEMMA PlainLoad ==
    ASSUME TypeOK, PlainOK, NEW t \in Txns, NEW ps, NEW p \in Products
    PROVE  Load(t, ps)[p] # "untracked" /\ (p \in ps => Load(t, ps)[p] = "tracked")
BY DEF TypeOK, PlainOK, PlainTxn, Load, Tracking

\* The end without commit.
LEMMA UndoPlain ==
    ASSUME Plain, NEW t \in Txns, pc[t] # "done", Undo(t) PROVE PlainOK'
<1>1. /\ pc'[t] = "done" /\ taken'[t] = {} /\ pend'[t] = {} /\ snap'[t] = Unread
      /\ UNCHANGED <<status, moves, tracked, req>>
      /\ \A u \in Txns \ {t} :
            /\ pc'[u] = pc[u] /\ req'[u] = req[u] /\ line'[u] = line[u]
            /\ snap'[u] = snap[u] /\ taken'[u] = taken[u] /\ pend'[u] = pend[u]
  BY DEF Undo, EndSession, shared, Plain, Inv, Basic, TypeOK
<1>2. PlainTxn(t) /\ status[t] = "none"
  BY DEF Plain, PlainOK, Inv, Basic, ControlOK
<1>3. PlainTxn(t)'
  BY <1>1, <1>2 DEF PlainTxn, SaleOK, Took, Restoring, Unread
<1> QED  BY <1>1, <1>3, PlainStays DEF Plain

\* A request that starts, and the steps before a request has written anything.
LEMMA FreshPlain ==
    ASSUME PlainShop, Plain, NEW t \in Txns,
           \/ Begin(t) \/ ReadCatalog(t) \/ ReadOrder(t) \/ MarkCancelled(t)
           \/ ReadForRestock(t)
    PROVE  PlainOK'
<1>1. /\ Fresh(t) /\ pc[t] # "done" /\ taken[t] = {} /\ pend[t] = {} /\ status[t] = "none"
      /\ PlainTxn(t)
  BY DEF Begin, ReadCatalog, ReadOrder, MarkCancelled, ReadForRestock, Fresh,
         Plain, OwnOK, OwnTxn, PlainOK, Inv, Basic, ControlOK
<1>2. /\ UNCHANGED <<status, moves, tracked, taken, pend, line>>
      /\ \A u \in Txns \ {t} : pc'[u] = pc[u] /\ req'[u] = req[u] /\ snap'[u] = snap[u]
  BY DEF Begin, ReadCatalog, ReadOrder, MarkCancelled, ReadForRestock, shared, Plain,
         Inv, Basic, TypeOK
<1>3. CASE Begin(t)
  <2>1. pc'[t] = "read" /\ req'[t] \in Requests /\ snap' = snap
    BY <1>3 DEF Begin, Plain, Inv, Basic, TypeOK
  <2>2. req'[t].kind \notin Edits /\ (req'[t].kind \in Sales => Simple(req'[t].lines))
    BY <2>1 DEF PlainShop
  <2>3. PlainTxn(t)'
    BY <1>1, <1>2, <2>1, <2>2 DEF PlainTxn, SaleOK, Took, Restoring, Simple
  <2> QED  BY <1>1, <1>2, <2>3, PlainStays DEF Plain
<1>4. CASE ReadCatalog(t)
  <2>1. /\ pc[t] = "read" /\ req[t].kind \in Sales /\ req' = req /\ line[t] = 1
        /\ pc'[t] = IF req[t].kind = "pos" THEN "number" ELSE "take"
        /\ \E ps : snap'[t] = Load(t, ps)
    BY <1>4 DEF ReadCatalog, Plain, Inv, Basic, TypeOK, LinesOK
  <2>2. \A p \in Products : snap'[t][p] # "untracked"
    BY <2>1, PlainLoad DEF Plain, Inv, Basic
  <2>3. \A i \in DOMAIN req[t].lines : ~ (i < 1)
    BY LineOf DEF Plain, Inv, Basic, TypeOK
  <2>4. SaleOK(t)'
    BY <1>1, <1>2, <2>1, <2>3 DEF SaleOK, Took, Sales
  <2>5. PlainTxn(t)'
    BY <1>1, <1>2, <2>1, <2>2, <2>4 DEF PlainTxn, Restoring, Simple, Sales
  <2> QED  BY <1>1, <1>2, <2>5, PlainStays DEF Plain
<1>5. CASE ReadOrder(t)
  <2>1. /\ pc'[t] = "mark" /\ snap' = snap /\ line[t] = 1
        /\ req'[t].kind = "cancel" /\ req'[t].order = req[t].order
        /\ req'[t].lines = req[req[t].order].lines
        /\ req[t].order \in Txns \ {t}
    BY <1>1, <1>5 DEF ReadOrder, Plain, Inv, Basic, TypeOK, ControlOK, LinesOK, Request
  <2>2. CancelOK(t)'
    BY <1>2, <2>1 DEF CancelOK, Restoring
  <2>3. PlainTxn(t)'
    BY <1>1, <1>2, <2>1, <2>2 DEF PlainTxn, Restoring, Simple, Sales, Edits
  <2> QED  BY <1>1, <1>2, <2>3, PlainStays DEF Plain
<1>6. CASE MarkCancelled(t)
  <2>1. /\ pc[t] = "mark" /\ pc'[t] = "check" /\ snap' = snap /\ req' = req
        /\ req[t].kind = "cancel" /\ req[t].order \in Txns
    BY <1>6 DEF MarkCancelled, Plain, Inv, Basic, TypeOK, ControlOK, Fits
  <2>2. CancelOK(t) /\ line[t] = 1
    BY <1>1, <2>1 DEF PlainTxn, CancelOK
  <2>3. \A i \in DOMAIN req[t].lines : ~ (i < 1)
    BY LineOf DEF Plain, Inv, Basic, TypeOK
  <2>4. CancelOK(t)'
    BY <1>1, <1>2, <2>1, <2>2, <2>3 DEF CancelOK
  <2>5. PlainTxn(t)'
    BY <1>1, <1>2, <2>1, <2>4 DEF PlainTxn, Sales
  <2> QED  BY <1>1, <1>2, <2>5, PlainStays DEF Plain
<1>7. CASE ReadForRestock(t)
  <2>1. pc'[t] = "put" /\ snap' = snap /\ req' = req /\ req[t].kind = "restock"
    BY <1>7 DEF ReadForRestock, Plain, Inv, Basic, TypeOK
  <2>2. PlainTxn(t)'
    BY <1>1, <1>2, <2>1 DEF PlainTxn, Restoring, Sales
  <2> QED  BY <1>1, <1>2, <2>2, PlainStays DEF Plain
<1> QED  BY <1>3, <1>4, <1>5, <1>6, <1>7

\* The number of a sale: a POS sale has taken nothing yet, a storefront one all.
LEMMA NumberPlain ==
    ASSUME Plain, NEW t \in Txns, LockNumber(t) \/ InsertOrder(t) PROVE PlainOK'
<1>1. /\ pc[t] \in {"number", "insert"} /\ req[t].kind \in Sales /\ PlainTxn(t)
      /\ UNCHANGED <<status, moves, tracked, taken, pend, line, req, snap>>
      /\ \A u \in Txns \ {t} : pc'[u] = pc[u]
      /\ pc'[t] = IF pc[t] = "number" THEN "insert"
                  ELSE IF req[t].kind = "pos" THEN "take" ELSE "commit"
  BY DEF LockNumber, InsertOrder, shared, Plain, PlainOK, Inv, Basic, TypeOK, ControlOK,
         Fits, Selling
<1>2. req[t].kind = "pos" => taken[t] = {} /\ line[t] = 1
  BY <1>1 DEF Plain, OwnOK, OwnTxn, Fresh, PlainTxn, SaleOK
<1>3. \A i \in DOMAIN req[t].lines : ~ (i < 1)
  BY LineOf DEF Plain, Inv, Basic, TypeOK
<1>4. SaleOK(t)'
  <2>1. CASE req[t].kind = "pos"
    <3>1. status[t] = "none"
      BY <1>1 DEF Plain, Inv, Basic, ControlOK
    <3> QED  BY <1>1, <1>2, <1>3, <2>1, <3>1 DEF SaleOK, Took, PlainTxn
  <2>2. CASE req[t].kind = "storefront"
    <3>1. taken[t] = DOMAIN req[t].lines
      BY <1>1, <2>2 DEF PlainTxn, SaleOK, Took
    <3> QED  BY <1>1, <2>2, <3>1 DEF SaleOK, Took
  <2> QED  BY <1>1, <2>1, <2>2 DEF Sales
<1>5. PlainTxn(t)'
  BY <1>1, <1>4 DEF PlainTxn, MoveOf, Simple, Restoring, Sales
<1> QED  BY <1>1, <1>5, PlainStays DEF Plain

\* The loop goes on to the next line, or ends after the last one.
LEMMA NextLineAll ==
    ASSUME TypeOK, NEW t \in Txns, NEW loop, NEW after, loop # after,
           line[t] \in DOMAIN req[t].lines, NextLine(t, loop, after)
    PROVE  /\ pc'[t] \in {loop, after}
           /\ \A i \in DOMAIN req[t].lines :
                 pc'[t] = after \/ i < line'[t] => i < line[t] \/ i = line[t]
<1>1. req[t].lines \in Seq(Line) /\ line[t] \in Nat \ {0} /\ t \in DOMAIN line /\ t \in DOMAIN pc
  BY DEF TypeOK, Request
<1>2. \A i \in DOMAIN req[t].lines : i \in Nat /\ i <= Len(req[t].lines)
  BY <1>1
<1>3. Len(req[t].lines) \in Nat
  BY <1>1
<1>4. CASE line[t] < Len(req[t].lines)
  <2>1. line'[t] = line[t] + 1 /\ pc'[t] = loop
    BY <1>1, <1>4 DEF NextLine
  <2> QED  BY <1>1, <1>2, <2>1
<1>5. CASE ~(line[t] < Len(req[t].lines))
  <2>1. line'[t] = line[t] /\ pc'[t] = after
    BY <1>1, <1>5 DEF NextLine
  <2> QED  BY <1>1, <1>2, <1>3, <1>5, <2>1
<1> QED  BY <1>4, <1>5

\* The decrement of a line of a sale.
LEMMA TakePlain == ASSUME PlainShop, Plain, NEW t \in Txns, TakeLine(t) PROVE PlainOK'
<1> DEFINE k == line[t]
           x == Here(t).row
           m0 == Movement(t, -Here(t).qty, "pos_sale")
<1>1. /\ pc[t] = "take" /\ req[t].kind \in Sales /\ k \in DOMAIN req[t].lines
      /\ x \in Rows /\ Here(t) = req[t].lines[k] /\ PlainTxn(t) /\ status[t] = "none"
  <2>1. pc[t] = "take" /\ req[t].kind \in Sales /\ PlainTxn(t) /\ status[t] = "none"
    BY DEF TakeLine, Plain, PlainOK, Inv, Basic, ControlOK, Fits, Selling
  <2> QED  BY <2>1, HereTyped DEF Selling, Plain, Inv
<1>2. /\ CanLock(t, x) /\ UNCHANGED <<status, moves, tracked, req, snap>>
      /\ taken'[t] = taken[t] \cup {k}
      /\ \A u \in Txns \ {t} : taken'[u] = taken[u] /\ pend'[u] = pend[u]
      /\ IF req[t].kind = "pos" THEN pend'[t] = pend[t] \cup {m0} ELSE pend'[t] = pend[t]
  BY DEF TakeLine, RecordMovement, shared, Plain, Inv, Basic, TypeOK
<1>3. /\ \A u \in Txns \ {t} : line'[u] = line[u] /\ pc'[u] = pc[u]
      /\ pc'[t] \in {"take", AfterTake(t)}
      /\ \A i \in DOMAIN req[t].lines :
            pc'[t] = AfterTake(t) \/ i < line'[t] => i < k \/ i = k
  <2>1. NextLine(t, "take", AfterTake(t)) /\ AfterTake(t) # "take"
    BY DEF TakeLine, AfterTake
  <2> QED  BY <1>1, <2>1, NextLineTyped, NextLineAll DEF Plain, Inv, Basic
<1>4. InitStock[x] # Null
  <2>1. new[x] # Null
    <3>1. Visible(t, x) = new[x]
      BY <1>1, <1>2, VisibleIsNew DEF Plain, Inv
    <3>2. Visible(t, x) # Null
      BY DEF TakeLine, Suffices
    <3> QED  BY <3>1, <3>2
  <2>2. x \in Unedited /\ new[x] = Add(stock[x], Own(t, x))
    BY <1>1, <1>2, AllUnedited, NewIsOwn DEF Plain, Inv
  <2>3. stock[x] = Add(InitStock[x], MovedQty(x, moves) - Shipped(x))
    BY <2>2 DEF Plain, BooksOK
  <2> QED  BY <2>1, <2>2, <2>3 DEF Add
<1>5. SaleOK(t)'
  <2>1. \A i \in DOMAIN req[t].lines : i < k => i \in taken[t]
    BY <1>1 DEF PlainTxn, SaleOK
  <2>2. taken[t] \subseteq DOMAIN req[t].lines
    BY DEF Plain, OwnOK, OwnTxn
  <2>3. pc'[t] = AfterTake(t) => taken'[t] = DOMAIN req[t].lines
    BY <1>1, <1>2, <1>3, <2>1, <2>2
  <2>4. pc'[t] # AfterTake(t) => pc'[t] = "take"
    BY <1>3
  <2>5. req[t].kind = "pos" => taken'[t] = {m.line : m \in pend'[t]}
    <3>1. req[t].kind = "pos" => taken[t] = {m.line : m \in pend[t]}
      BY <1>1 DEF PlainTxn, SaleOK
    <3>2. m0.line = k
      BY DEF Movement
    <3> HIDE DEF m0, k
    <3> QED  BY <1>2, <3>1, <3>2
  <2>6. pc'[t] = "take" => \A i \in DOMAIN req[t].lines : i < line'[t] => i \in taken'[t]
    BY <1>2, <1>3, <2>1
  <2>7. /\ req'[t] = req[t] /\ status'[t] = "none" /\ pc'[t] \in {"take", AfterTake(t)}
        /\ AfterTake(t) = IF req[t].kind = "pos" THEN "commit" ELSE "number"
    BY <1>1, <1>2, <1>3 DEF AfterTake
  <2> HIDE DEF k, m0
  <2> QED  BY <2>3, <2>5, <2>6, <2>7 DEF SaleOK, Took
<1>6. \A m \in pend'[t] : m.line \in DOMAIN req[t].lines /\ m = MoveOf(t, req[t], m.line)
  <2>1. \A m \in pend[t] : m.line \in DOMAIN req[t].lines /\ m = MoveOf(t, req[t], m.line)
    BY <1>1 DEF PlainTxn
  <2>2. req[t].kind = "pos" => m0.line = k /\ m0 = MoveOf(t, req[t], k)
    BY <1>1 DEF Movement, MoveOf
  <2> HIDE DEF m0, k
  <2> QED  BY <1>1, <1>2, <2>1, <2>2
<1>7. \A i \in taken'[t] : InitStock[req[t].lines[i].row] # Null
  BY <1>1, <1>2, <1>4 DEF PlainTxn
<1>8. pc'[t] # "mark" /\ ~ Restoring(t)'
  BY <1>1, <1>2, <1>3 DEF AfterTake, Restoring, Sales
<1> HIDE DEF k, x, m0
<1>9. PlainTxn(t)'
  BY <1>1, <1>2, <1>5, <1>6, <1>7, <1>8 DEF PlainTxn, MoveOf, Simple
<1> QED  BY <1>1, <1>2, <1>3, <1>9, PlainStays DEF Plain

\* The check of a line: without a restore the products are tracked, so it goes
\* on to the put.
LEMMA CheckPlain == ASSUME Plain, NEW t \in Txns, CheckLine(t) PROVE PlainOK'
<1> DEFINE k == line[t]
           x == Here(t).row
           o == req[t].order
<1>1. /\ pc[t] = "check" /\ req[t].kind = "cancel" /\ k \in DOMAIN req[t].lines
      /\ x \in Rows /\ x = req[t].lines[k].row /\ PlainTxn(t) /\ o \in Txns
      /\ CancelOK(t) /\ Restoring(t)
  <2>1. /\ pc[t] = "check" /\ req[t].kind = "cancel" /\ PlainTxn(t) /\ o \in Txns
    BY DEF CheckLine, Plain, PlainOK, Inv, Basic, ControlOK, Fits
  <2> QED  BY <2>1, HereTyped DEF Cancelling, Plain, Inv, PlainTxn, Restoring
<1>2. /\ UNCHANGED <<status, moves, tracked, req, taken, pend>>
      /\ snap'[t] = Load(t, {Product(x)})
      /\ \A u \in Txns \ {t} : snap'[u] = snap[u]
  BY DEF CheckLine, shared, Plain, Inv, Basic, TypeOK
<1>3. /\ snap'[t][Product(x)] = "tracked"
      /\ \A p \in Products : snap'[t][p] # "untracked"
  BY <1>1, <1>2, ProductTyped, PlainLoad DEF Plain, Inv, Basic
<1>4. \/ ~ Restored(t, o, x) /\ pc' = [pc EXCEPT ![t] = "put"] /\ line' = line
      \/ Restored(t, o, x) /\ NextLine(t, "check", "commit")
  <2> HIDE DEF x, o
  <2> QED  BY <1>3 DEF CheckLine, x, o
<1>5. /\ \A u \in Txns \ {t} : line'[u] = line[u] /\ pc'[u] = pc[u]
      /\ pc'[t] \in {"put", "check", "commit"}
      /\ pc'[t] = "put" => ~ Restored(t, o, x)
      /\ \A i \in DOMAIN req[t].lines :
            pc'[t] = "commit" \/ i < line'[t] => i < k \/ (i = k /\ Restored(t, o, x))
  <2>1. CASE ~ Restored(t, o, x) /\ pc' = [pc EXCEPT ![t] = "put"] /\ line' = line
    BY <2>1 DEF Plain, Inv, Basic, TypeOK
  <2>2. CASE Restored(t, o, x) /\ NextLine(t, "check", "commit")
    <3> HIDE DEF x, o
    <3> QED  BY <1>1, <2>2, NextLineTyped, NextLineAll DEF Plain, Inv, Basic
  <2> QED  BY <1>4, <2>1, <2>2
<1>6. \A r : Restored(t, o, r)' <=> Restored(t, o, r)
  BY <1>2 DEF Restored
<1>7. CancelOK(t)'
  <2>1. \A i \in DOMAIN req[t].lines : i < k => Restored(t, o, req[t].lines[i].row)
    BY <1>1 DEF CancelOK
  <2>2. \A i \in DOMAIN req[t].lines :
           i < line'[t] \/ pc'[t] = "commit" => Restored(t, o, req[t].lines[i].row)
    BY <1>1, <1>5, <2>1
  <2>3. status[o] = "cancelled" => pend[t] = {} /\ Restored(t, o, x)
    <3>1. ASSUME status[o] = "cancelled" PROVE Restored(t, o, x)
      <4>1. \E m \in moves : IsRestore(m) /\ m.order = o /\ m.row = req[o].lines[k].row
        BY <1>1, <3>1 DEF CancelOK, Plain, PlainOK
      <4> QED  BY <1>1, <4>1 DEF CancelOK, Restored, IsRestore
    <3> QED  BY <1>1, <3>1 DEF CancelOK
  <2> HIDE DEF k, x
  <2>4. pc'[t] # "mark" /\ req' = req /\ pend' = pend /\ status' = status
    BY <1>2, <1>5
  <2>5. req[t].lines = req[o].lines
    BY <1>1 DEF CancelOK
  <2> QED  BY <1>5, <1>6, <2>2, <2>3, <2>4, <2>5 DEF CancelOK
<1>8. PlainTxn(t)'
  BY <1>1, <1>2, <1>3, <1>7 DEF PlainTxn, MoveOf, Sales
<1> HIDE DEF k, x, o
<1> QED  BY <1>1, <1>2, <1>5, <1>8, PlainStays DEF Plain

\* The restore of a line, or the restock.
LEMMA PutPlain == ASSUME Plain, NEW t \in Txns, PutBack(t) PROVE PlainOK'
<1> PICK x, o : x = Here(t).row /\ o = req[t].order
  OBVIOUS
<1> DEFINE k == line[t]
           m0 == Movement(t, Here(t).qty, IF req[t].kind = "cancel"
                                          THEN "order_cancel_restore" ELSE "manual_restock")
<1>1. /\ pc[t] = "put" /\ req[t].kind \in {"cancel", "restock"} /\ k \in DOMAIN req[t].lines
      /\ x \in Rows /\ x = req[t].lines[k].row /\ Here(t) = req[t].lines[k] /\ PlainTxn(t)
      /\ taken[t] = {}
  <2>1. pc[t] = "put" /\ req[t].kind \in {"cancel", "restock"} /\ PlainTxn(t)
    BY DEF PutBack, Plain, PlainOK, Inv, Basic, ControlOK, Fits
  <2> QED  BY <2>1, HereTyped DEF Cancelling, Plain, Inv, OwnOK, OwnTxn, Sales
<1>2. /\ UNCHANGED <<status, moves, tracked, req, taken, snap>>
      /\ pend'[t] = pend[t] \cup {m0}
      /\ \A u \in Txns \ {t} : pend'[u] = pend[u]
  BY DEF PutBack, RecordMovement, shared, Plain, Inv, Basic, TypeOK
<1>3. /\ \A u \in Txns \ {t} : line'[u] = line[u] /\ pc'[u] = pc[u]
      /\ pc'[t] \in {"check", "commit"}
      /\ \A i \in DOMAIN req[t].lines :
            pc'[t] = "commit" \/ i < line'[t] => i < k \/ i = k
  <2>1. NextLine(t, "check", "commit")
    BY DEF PutBack
  <2> QED  BY <1>1, <2>1, NextLineTyped, NextLineAll DEF Plain, Inv, Basic
<1>4. \A m \in pend'[t] : m.line \in DOMAIN req[t].lines /\ m = MoveOf(t, req[t], m.line)
  <2>1. \A m \in pend[t] : m.line \in DOMAIN req[t].lines /\ m = MoveOf(t, req[t], m.line)
    BY <1>1 DEF PlainTxn
  <2>2. m0.line = k /\ m0 = MoveOf(t, req[t], k)
    BY <1>1 DEF Movement, MoveOf
  <2> HIDE DEF m0, k
  <2> QED  BY <1>1, <1>2, <2>1, <2>2
<1>5. ASSUME req[t].kind = "cancel" PROVE CancelOK(t)'
  <2>1. CancelOK(t) /\ Restoring(t)
    BY <1>1, <1>5 DEF PlainTxn, Restoring
  <2>2. \A i \in DOMAIN req[t].lines : i < k => Restored(t, o, req[t].lines[i].row)
    BY <2>1 DEF CancelOK
  <2>3. \A r : Restored(t, o, r) => Restored(t, o, r)'
    BY <1>2 DEF Restored
  <2>4. Restored(t, o, x)'
    <3>1. m0.reason = "order_cancel_restore" /\ m0.order = o /\ m0.row = x
      BY <1>5 DEF Movement
    <3>2. m0 \in moves' \cup pend'[t]
      BY <1>2
    <3> HIDE DEF m0
    <3>3. \E m \in moves' \cup pend'[t] :
             m.reason = "order_cancel_restore" /\ m.order = o /\ m.row = x
      BY <3>1, <3>2
    <3> QED  BY <1>2, <3>3 DEF Restored
  <2>5. ASSUME NEW i \in DOMAIN req[t].lines, i < line'[t] \/ pc'[t] = "commit"
        PROVE  Restored(t, o, req[t].lines[i].row)'
    <3> PICK r : r = req[t].lines[i].row
      OBVIOUS
    <3>1. Restored(t, o, r)'
      BY <1>1, <1>3, <2>2, <2>3, <2>4, <2>5
    <3> QED  BY <1>2, <3>1
  <2>6. status[o] # "cancelled" /\ req[t].lines = req[o].lines
    BY <1>1, <2>1 DEF CancelOK
  <2> HIDE DEF k, m0
  <2> QED  BY <1>2, <1>3, <2>5, <2>6 DEF CancelOK
<1>6. PlainTxn(t)'
  <2> HIDE DEF k, m0
  <2>1. pc'[t] = "mark" \/ Restoring(t)' => CancelOK(t)'
    BY <1>1, <1>2, <1>3, <1>5 DEF Restoring
  <2> QED  BY <1>1, <1>2, <1>4, <2>1 DEF PlainTxn, MoveOf, Sales
<1> HIDE DEF k, m0
<1> QED  BY <1>1, <1>2, <1>3, <1>6, PlainStays DEF Plain

\* The commit: an order that becomes cancelled has all its rows restored.
LEMMA CommitPlain == ASSUME Plain, NEW t \in Txns, Commit(t) PROVE PlainOK'
<1>1. /\ pc[t] = "commit" /\ status[t] = "none" /\ PlainTxn(t)
      /\ UNCHANGED <<req, taken, tracked>> /\ moves' = moves \cup pend[t]
      /\ pc'[t] = "done" /\ pend'[t] = {} /\ snap'[t] = Unread
      /\ \A u \in Txns \ {t} :
            /\ pc'[u] = pc[u] /\ line'[u] = line[u] /\ snap'[u] = snap[u] /\ pend'[u] = pend[u]
  BY DEF Commit, EndSession, Plain, PlainOK, PlainTxn, Inv, Basic, TypeOK, ControlOK
<1>2. req[t].kind = "cancel" => /\ Restoring(t) /\ CancelOK(t)
                                /\ holder[req[t].order] = t /\ req[t].order \in Txns
  BY <1>1 DEF Restoring, PlainTxn, Plain, Inv, RestoreOK, Basic, ControlOK
<1>3. /\ req[t].kind \in Sales => /\ status'[t] # "none" /\ status'[t] # "cancelled"
                                  /\ \A o \in Txns \ {t} : status'[o] = status[o]
      /\ req[t].kind = "cancel" =>
            /\ status'[req[t].order] = "cancelled" /\ status[req[t].order] # "none"
            /\ \A o \in Txns \ {req[t].order} : status'[o] = status[o]
      /\ req[t].kind \notin Sales \cup {"cancel"} => status' = status
  BY CommitPlaces DEF Plain, Inv, Placed
<1>4. \A u \in Txns \ {t} : PlainTxn(u)'
  <2>1. \A o \in Txns \ {t} : status'[o] # status[o] =>
           holder[o] = t /\ status[o] # "none" /\ status'[o] # "none"
    BY <1>2, <1>3
  <2> QED  BY <1>1, <2>1, PlainOthers DEF Plain
<1>5. PlainTxn(t)'
  <2>1. req[t].kind \in Sales => taken[t] = DOMAIN req[t].lines /\ status'[t] # "none"
    BY <1>1, <1>3 DEF PlainTxn, SaleOK, Took
  <2> QED  BY <1>1, <2>1 DEF PlainTxn, SaleOK, Restoring, Simple, Unread, Sales
<1>6. ASSUME NEW o \in Txns, status'[o] = "cancelled", NEW i \in DOMAIN req[o].lines
      PROVE  \E m \in moves' : IsRestore(m) /\ m.order = o /\ m.row = req[o].lines[i].row
  <2>1. CASE status[o] = "cancelled"
    BY <1>1, <1>6, <2>1 DEF Plain, PlainOK
  <2>2. CASE status[o] # "cancelled"
    <3>1. req[t].kind = "cancel" /\ o = req[t].order
      BY <1>1, <1>3, <1>6, <2>2
    <3>2. Restored(t, o, req[o].lines[i].row)
      BY <1>1, <1>2, <1>6, <3>1 DEF CancelOK
    <3> QED  BY <1>1, <3>2 DEF Restored, IsRestore
  <2> QED  BY <2>1, <2>2
<1>7. ASSUME NEW m \in moves', IsRestore(m)
      PROVE  m.order \in Txns /\ status'[m.order] = "cancelled"
  <2>1. CASE m \in moves
    <3>1. m.order \in Txns \ {t} /\ status[m.order] = "cancelled"
      BY <1>1, <1>7, <2>1 DEF Plain, PlainOK
    <3> QED  BY <1>3, <3>1
  <2>2. CASE m \in pend[t]
    <3>1. Restoring(t) /\ m.order = req[t].order
      BY <1>7, <2>2 DEF Plain, Inv, RestoreOK
    <3> QED  BY <1>2, <1>3, <3>1 DEF Restoring
  <2> QED  BY <1>1, <2>1, <2>2
<1> QED  BY <1>1, <1>4, <1>5, <1>6, <1>7 DEF PlainOK, Plain

\* Every step keeps what holds of such a shop.
LEMMA StepPlain == PlainShop /\ Plain /\ [Next]_vars => PlainOK'
<1> SUFFICES ASSUME PlainShop, Plain, [Next]_vars PROVE PlainOK'
  OBVIOUS
<1>1. ASSUME NEW t \in Txns, Begin(t) PROVE PlainOK'
  BY <1>1, FreshPlain
<1>2. ASSUME NEW t \in Txns, Step(t) \/ Rollback(t) PROVE PlainOK'
  <2>1. CASE ReadCatalog(t) \/ ReadOrder(t) \/ MarkCancelled(t) \/ ReadForRestock(t)
    BY <2>1, FreshPlain
  <2>2. CASE \/ OutOfStock(t) \/ RefuseCancel(t) \/ RefuseRestock(t) \/ DeadlockAbort(t)
             \/ Rollback(t)
    <3>1. Undo(t) /\ pc[t] # "done"
      BY <2>2, AbortedRuns DEF OutOfStock, RefuseCancel, RefuseRestock, DeadlockAbort, Rollback
    <3> QED  BY <3>1, UndoPlain
  <2>3. CASE LockNumber(t) \/ InsertOrder(t) \/ TakeLine(t) \/ CheckLine(t) \/ PutBack(t)
             \/ Commit(t)
    BY <2>3, NumberPlain, TakePlain, CheckPlain, PutPlain, CommitPlain
  <2>4. ~ SkipLine(t)
    <3> SUFFICES ASSUME SkipLine(t) PROVE FALSE
      OBVIOUS
    <3>1. Product(Here(t).row) \in Products
      BY HereTyped, ProductTyped DEF SkipLine, Selling, Plain, Inv
    <3> QED  BY <3>1 DEF SkipLine, Plain, PlainOK, PlainTxn
  <2>5. ~ ReadForEdit(t) /\ ~ WriteEdit(t)
    BY DEF ReadForEdit, WriteEdit, Plain, PlainOK, PlainTxn, Inv, Basic, ControlOK, Fits
  <2> QED  BY <1>2, <2>1, <2>2, <2>3, <2>4, <2>5 DEF Step
<1>3. CASE UNCHANGED vars
  BY <1>3 DEF vars, Plain, PlainOK, PlainTxn, MoveOf, SaleOK, Took, CancelOK, Restoring, Restored
<1> QED  BY <1>1, <1>2, <1>3 DEF Next, Finished

-----------------------------------------------------------------------------
\* One more movement, of one more line.
LEMMA MovedOne ==
    ASSUME NEW q, NEW ls \in Seq(Line), \A i \in DOMAIN ls : ls[i].qty \in Int, NEW r,
           NEW js \in SUBSET DOMAIN ls, NEW ms \in SUBSET Movements, IsFiniteSet(ms),
           NEW m \in Movements \ ms, NEW k \in DOMAIN ls \ js, m.row = ls[k].row,
           m.delta = IF q.kind = "pos" THEN -ls[k].qty ELSE ls[k].qty,
           MovedQty(r, ms) = IF q.kind = "pos" THEN -Qty(ls, r, js) ELSE Qty(ls, r, js)
    PROVE  MovedQty(r, ms \cup {m}) = IF q.kind = "pos" THEN -Qty(ls, r, js \cup {k})
                                     ELSE Qty(ls, r, js \cup {k})
<1>1. PICK n \in Int : n = Qty(ls, r, js)
  BY QtyAdd
<1>2. PICK d \in Int : d = IF ls[k].row = r THEN ls[k].qty ELSE 0
  OBVIOUS
<1>3. Qty(ls, r, js \cup {k}) = n + d
  <2>1. Qty(ls, r, js \cup {k}) = Qty(ls, r, js) + (IF ls[k].row = r THEN ls[k].qty ELSE 0)
    BY QtyAdd
  <2> QED  BY <1>1, <1>2, <2>1
<1>4. MovedQty(r, ms \cup {m}) = MovedQty(r, ms) + (IF q.kind = "pos" THEN -d ELSE d)
  <2>1. MovedQty(r, ms \cup {m}) = MovedQty(r, ms) + (IF m.row = r THEN m.delta ELSE 0)
    BY MovedAdd
  <2>2. (IF m.row = r THEN m.delta ELSE 0) = IF q.kind = "pos" THEN -d ELSE d
    BY <1>2
  <2> QED  BY <2>1, <2>2
<1> QED  BY <1>1, <1>3, <1>4

\* The movements of a request move what its lines name, each line once.
LEMMA MovedLines ==
    ASSUME NEW t, NEW q, q.lines \in Seq(Line), \A i \in DOMAIN q.lines : q.lines[i].qty \in Int,
           NEW pd \in SUBSET Movements, IsFiniteSet(pd), NEW r,
           \A m \in pd : m.line \in DOMAIN q.lines /\ m = MoveOf(t, q, m.line)
    PROVE  MovedQty(r, pd) = IF q.kind = "pos" THEN -Qty(q.lines, r, {m.line : m \in pd})
                             ELSE Qty(q.lines, r, {m.line : m \in pd})
<1> DEFINE Ln(P) == {m.line : m \in P}
           N(P) == Qty(q.lines, r, Ln(P))
           G == {P \in SUBSET pd : MovedQty(r, P) = IF q.kind = "pos" THEN -N(P) ELSE N(P)}
<1>1. \A P \in SUBSET pd : Ln(P) \in SUBSET DOMAIN q.lines /\ N(P) \in Int
  <2> TAKE P \in SUBSET pd
  <2>1. Ln(P) \in SUBSET DOMAIN q.lines
    OBVIOUS
  <2> HIDE DEF Ln
  <2> QED  BY <2>1, QtyAdd
<1>2. ASSUME NEW P \in SUBSET pd, \A Q \in SUBSET P : Q # P => Q \in G
      PROVE  P \in G
  <2>1. CASE P = {}
    <3>1. Ln(P) = {}
      BY <2>1
    <3> HIDE DEF Ln
    <3>2. MovedQty(r, P) = 0 /\ N(P) = 0
      BY <2>1, <3>1, NothingBooked
    <3> QED  BY <3>2
  <2>2. CASE P # {}
    <3>1. PICK e \in P : TRUE
      BY <2>2
    <3> DEFINE Q == P \ {e}
    <3>2. /\ Q \in SUBSET pd /\ Q \in SUBSET Movements /\ IsFiniteSet(Q)
          /\ e \in Movements \ Q /\ P = Q \cup {e}
          /\ MovedQty(r, Q) = IF q.kind = "pos" THEN -N(Q) ELSE N(Q)
      BY <1>2, <3>1, FS_Subset
    <3>3. /\ Ln(P) = Ln(Q) \cup {e.line} /\ e.line \in DOMAIN q.lines \ Ln(Q)
          /\ Ln(Q) \in SUBSET DOMAIN q.lines
      BY <3>1, <3>2
    <3>4. /\ e.row = q.lines[e.line].row
          /\ e.delta = IF q.kind = "pos" THEN -q.lines[e.line].qty ELSE q.lines[e.line].qty
      BY <3>1 DEF MoveOf
    <3> HIDE DEF Q, Ln, G
    <3>5. MovedQty(r, Q \cup {e}) = IF q.kind = "pos" THEN -Qty(q.lines, r, Ln(Q) \cup {e.line})
                                    ELSE Qty(q.lines, r, Ln(Q) \cup {e.line})
      BY <3>2, <3>3, <3>4, MovedOne, SMTT(60)
    <3>6. MovedQty(r, P) = IF q.kind = "pos" THEN -N(P) ELSE N(P)
      BY <3>2, <3>3, <3>5
    <3> QED  BY <3>6 DEF G
  <2> QED  BY <2>1, <2>2
<1> HIDE DEF G
<1>3. pd \in G
  BY <1>2, SubsetInduction
<1> QED  BY <1>1, <1>3 DEF G

\* So have those of the requests.
LEMMA RequestMoves ==
    ASSUME Plain, NEW t \in Txns, NEW r, req[t].lines \in Seq(Line),
           \A i \in DOMAIN req[t].lines : req[t].lines[i].qty \in Nat \ {0}
    PROVE  MovedQty(r, pend[t])
              = IF req[t].kind = "pos" THEN -Qty(req[t].lines, r, {m.line : m \in pend[t]})
                ELSE Qty(req[t].lines, r, {m.line : m \in pend[t]})
<1>1. PICK q, pd : q = req[t] /\ pd = pend[t]
  OBVIOUS
<1>2. pd \in SUBSET Movements /\ IsFiniteSet(pd)
  BY <1>1 DEF Plain, OwnOK, OwnTxn, Inv, Basic, TypeOK
<1>3. \A m \in pd : m.line \in DOMAIN q.lines /\ m = MoveOf(t, q, m.line)
  BY <1>1 DEF Plain, PlainOK, PlainTxn
<1>4. q.lines \in Seq(Line) /\ \A i \in DOMAIN q.lines : q.lines[i].qty \in Int
  BY <1>1
<1>5. MovedQty(r, pd) = IF q.kind = "pos" THEN -Qty(q.lines, r, {m.line : m \in pd})
                        ELSE Qty(q.lines, r, {m.line : m \in pd})
  BY <1>2, <1>3, <1>4, MovedLines
<1> QED  BY <1>1, <1>5

\* The units in the open orders.
SoldOf(st, rq) ==
    [o \in Txns |-> [r \in Rows |->
        IF st[o] \in {"pending", "fulfilled"}
        THEN Qty(rq[o].lines, r, DOMAIN rq[o].lines) ELSE 0]]
LEMMA SoldIs == Sold = SoldOf(status, req)
BY DEF Sold, SoldOf, LineQty, Qty
LEMMA SoldNext == (Sold = SoldOf(status, req))'
BY SoldIs, PTL

\* A step that changes no order and no stock.
LEMMA BookStays ==
    ASSUME Basic, NEW t \in Txns, pc[t] # "done", UNCHANGED <<stock, status>>,
           \A u \in Txns \ {t} : req'[u] = req[u]
    PROVE  UNCHANGED <<stock, Sold>>
<1>1. \A o \in Txns : status[o] \in {"pending", "fulfilled"} => req'[o] = req[o]
  BY DEF Basic, ControlOK
<1>2. SoldOf(status', req') = SoldOf(status, req)
  BY <1>1 DEF SoldOf
<1> QED  BY <1>2, SoldIs, SoldNext

\* A row that is NULL was so from the start.
LEMMA NullStays ==
    ASSUME PlainShop, Plain, NEW r \in Rows, InitStock[r] # Null
    PROVE  stock[r] # Null
<1>1. r \in Unedited /\ InitStock[r] \in Int /\ Null \notin Int
  BY AllUnedited, StockAssumption DEF Quantity
<1>2. MovedQty(r, moves) \in Int
  BY MovedAdd DEF Plain, OwnOK, Inv, Basic, TypeOK
<1>3. Shipped(r) \in Int
  BY OnlineTyped, ShippedTyped, ShippedIs DEF Plain, Inv
<1>4. stock[r] = InitStock[r] + (MovedQty(r, moves) - Shipped(r))
  BY <1>1 DEF Plain, BooksOK, Add
<1>5. PICK a \in Int, b \in Int : stock[r] = InitStock[r] + (a - b)
  BY <1>2, <1>3, <1>4
<1> QED  BY <1>1, <1>5

\* The lines of a request that commits.
LEMMA CommitLines ==
    ASSUME Plain, NEW t \in Txns, Commit(t)
    PROVE  /\ pc[t] = "commit" /\ status[t] = "none" /\ PlainTxn(t) /\ HasLines(req[t])
           /\ req[t].kind \in Sales \cup {"cancel", "restock"}
           /\ req[t].lines \in Seq(Line)
           /\ \A i \in DOMAIN req[t].lines :
                 req[t].lines[i].row \in Rows /\ req[t].lines[i].qty \in Nat \ {0}
           /\ req' = req /\ stock' \in [Rows -> Quantity]
<1>1. pc[t] = "commit" /\ status[t] = "none" /\ PlainTxn(t) /\ req' = req
  BY DEF Commit, Plain, PlainOK, Inv, Basic, ControlOK
<1>2. req[t] \in Request /\ req[t].kind \notin Edits /\ HasLines(req[t])
  BY <1>1 DEF PlainTxn, Plain, Inv, Basic, TypeOK, LinesOK, Cancelling
<1>3. stock' \in [Rows -> Quantity]
  BY DEF Commit, Plain, Inv, Basic, StockOK
<1> QED  BY <1>1, <1>2, <1>3, LineOf DEF Request, Kinds, HasLines

\* The commit of a sale takes its lines from the shelf.
LEMMA SellBook ==
    ASSUME PlainShop, Plain, NEW t \in Txns, Commit(t), req[t].kind \in Sales
    PROVE  Book!Sell(t)
<1> DEFINE n(r) == Qty(req[t].lines, r, DOMAIN req[t].lines)
<1>1. /\ pc[t] = "commit" /\ status[t] = "none" /\ PlainTxn(t)
      /\ req[t].lines \in Seq(Line)
      /\ \A i \in DOMAIN req[t].lines :
            req[t].lines[i].row \in Rows /\ req[t].lines[i].qty \in Nat \ {0}
      /\ req' = req /\ stock' \in [Rows -> Quantity] /\ stock \in [Rows -> Quantity]
      /\ taken[t] = DOMAIN req[t].lines
  BY CommitLines DEF PlainTxn, SaleOK, Took, Plain, Inv, Basic, TypeOK, StockOK
<1>2. /\ status'[t] \in {"pending", "fulfilled"}
      /\ \A o \in Txns \ {t} : status'[o] = status[o]
  <2>1. PICK c \in {"pending", "fulfilled"} : status' = [status EXCEPT ![t] = c]
    BY DEF Commit, Sales, Edits
  <2> QED  BY <2>1 DEF Plain, Inv, Basic, TypeOK
<1>3. /\ Sold[t] = Book!Empty /\ Sold'[t] = [r \in Rows |-> n(r)]
      /\ Sold' = [Sold EXCEPT ![t] = Sold'[t]]
  <2> HIDE DEF n
  <2>1. Sold = SoldOf(status, req) /\ Sold' = SoldOf(status', req)
    BY <1>1, SoldIs, SoldNext
  <2>2. SoldOf(status, req)[t] = Book!Empty
    BY <1>1 DEF SoldOf, Book!Empty
  <2>3. SoldOf(status', req)[t] = [r \in Rows |-> n(r)]
    BY <1>2 DEF SoldOf, n
  <2>4. SoldOf(status', req) = [SoldOf(status, req) EXCEPT ![t] = SoldOf(status', req)[t]]
    BY <1>2 DEF SoldOf
  <2> QED  BY <2>1, <2>2, <2>3, <2>4
<1>4. ASSUME NEW r \in Rows
      PROVE  /\ n(r) \in Nat /\ stock'[r] = Add(stock[r], -n(r))
             /\ n(r) > 0 => stock[r] # Null
  <2>1. n(r) \in Nat /\ (n(r) > 0 => \E i \in taken[t] : req[t].lines[i].row = r)
    BY <1>1, QtyNat
  <2>2. n(r) > 0 => stock[r] # Null
    BY <1>1, <2>1, NullStays DEF PlainTxn
  <2>3. Own(t, r) = -n(r)
    <3>1. pend[t] \in SUBSET Movements /\ IsFiniteSet(pend[t])
      BY DEF Plain, OwnOK, OwnTxn, Inv, Basic, TypeOK
    <3>2. CASE req[t].kind = "storefront"
      <4>1. MovedQty(r, pend[t]) = 0
        BY <3>2, NothingBooked, ZenonT(30) DEF Plain, OwnOK, OwnTxn
      <4> HIDE DEF n
      <4>2. Own(t, r) = 0 - n(r)
        BY <1>1, <3>2, <4>1 DEF Own, OwnOf, n
      <4> QED  BY <2>1, <4>2
    <3>3. CASE req[t].kind = "pos"
      <4>1. {m.line : m \in pend[t]} = DOMAIN req[t].lines
        BY <1>1, <3>3 DEF PlainTxn, SaleOK, Sales
      <4>2. MovedQty(r, pend[t]) = -Qty(req[t].lines, r, {m.line : m \in pend[t]})
        BY <1>1, <3>3, RequestMoves
      <4> HIDE DEF n
      <4>3. Own(t, r) = -n(r) - 0
        BY <3>3, <4>1, <4>2 DEF Own, OwnOf, n
      <4> QED  BY <2>1, <4>3
    <3> QED  BY <3>2, <3>3 DEF Sales
  <2>4. stock'[r] = Add(stock[r], Own(t, r))
    BY AllUnedited, CommitStock DEF Plain, Inv
  <2> QED  BY <2>1, <2>2, <2>3, <2>4
<1> HIDE DEF n
<1>5. ASSUME NEW r \in Rows
      PROVE  /\ n(r) > 0 => stock[r] # Null /\ stock[r] >= n(r)
             /\ stock'[r] = IF n(r) > 0 THEN stock[r] - n(r) ELSE stock[r]
  <2>1. stock[r] \in Quantity /\ stock'[r] \in Quantity /\ Null \notin Int
    BY <1>1, StockAssumption
  <2>2. CASE stock[r] = Null
    BY <1>4, <2>1, <2>2 DEF Add
  <2>3. CASE stock[r] # Null
    <3>1. stock'[r] = stock[r] - n(r) /\ stock[r] \in Nat /\ n(r) \in Nat
      BY <1>4, <2>1, <2>3 DEF Add, Quantity
    <3>2. stock'[r] \in Nat
      BY <2>1, <3>1 DEF Quantity
    <3> QED  BY <2>3, <3>1, <3>2
  <2> QED  BY <2>2, <2>3
<1>6. stock' = [r \in Rows |-> IF n(r) > 0 THEN stock[r] - n(r) ELSE stock[r]]
  BY <1>1, <1>5
<1>7. \A r \in Rows : Sold'[t][r] = n(r)
  BY <1>3
<1> QED  BY <1>3, <1>5, <1>6, <1>7 DEF Book!Sell

\* The commit of a cancellation puts the lines of its order back, unless another
\* one has put them back already.
LEMMA CancelBook ==
    ASSUME PlainShop, Plain, NEW t \in Txns, Commit(t), req[t].kind = "cancel"
    PROVE  Book!Cancel(req[t].order) \/ UNCHANGED <<stock, Sold>>
<1>1. PICK o : o = req[t].order
  OBVIOUS
<1> DEFINE n(r) == Qty(req[t].lines, r, DOMAIN req[t].lines)
<1>2. /\ pc[t] = "commit" /\ status[t] = "none" /\ PlainTxn(t)
      /\ req[t].lines \in Seq(Line)
      /\ \A i \in DOMAIN req[t].lines :
            req[t].lines[i].row \in Rows /\ req[t].lines[i].qty \in Nat \ {0}
      /\ req' = req /\ stock' \in [Rows -> Quantity] /\ stock \in [Rows -> Quantity]
  BY CommitLines DEF Plain, Inv, Basic, TypeOK, StockOK
<1>3. /\ Restoring(t) /\ CancelOK(t) /\ o \in Txns
      /\ status[o] # "none" /\ status' = [status EXCEPT ![o] = "cancelled"]
  BY <1>1, <1>2 DEF Restoring, PlainTxn, Commit, Plain, Inv, Basic, ControlOK, Cancelling,
                    Sales, Edits
<1>4. req[t].lines = req[o].lines /\ req[o].kind \in Sales
  BY <1>1, <1>3 DEF CancelOK, Plain, Inv, Basic, ControlOK
<1>5. ASSUME NEW r \in Rows
      PROVE  /\ stock'[r] = Add(stock[r], Own(t, r)) /\ Own(t, r) = MovedQty(r, pend[t])
             /\ stock[r] \in Int \cup {Null}
  <2>1. stock'[r] = Add(stock[r], Own(t, r)) /\ Own(t, r) \in Int
    BY AllUnedited, CommitStock DEF Plain, Inv
  <2>2. Own(t, r) = MovedQty(r, pend[t]) - 0
    BY DEF Own, OwnOf
  <2>3. MovedQty(r, pend[t]) \in Int
    BY MovedAdd DEF Plain, OwnOK, OwnTxn, Inv, Basic, TypeOK
  <2> QED  BY <1>2, <2>1, <2>2, <2>3 DEF Quantity
<1>6. CASE status[o] = "cancelled"
  <2>1. pend[t] = {}
    BY <1>1, <1>3, <1>6 DEF CancelOK
  <2>2. ASSUME NEW r \in Rows PROVE stock'[r] = stock[r]
    <3>1. MovedQty(r, pend[t]) = 0
      BY <2>1, NothingBooked
    <3>2. stock'[r] = Add(stock[r], 0) /\ stock[r] \in Int \cup {Null}
      BY <1>5, <3>1
    <3> QED  BY <3>2 DEF Add
  <2>3. stock' = stock
    BY <1>2, <2>2
  <2>4. SoldOf(status', req') = SoldOf(status, req)
    BY <1>2, <1>3, <1>6 DEF SoldOf
  <2>5. Sold' = Sold
    BY <2>4, SoldIs, SoldNext
  <2> QED  BY <2>3, <2>5
<1>7. CASE status[o] # "cancelled"
  <2>1. status[o] \in {"pending", "fulfilled"}
    BY <1>3, <1>7 DEF Plain, Inv, Basic, TypeOK
  <2>2. {m.line : m \in pend[t]} = DOMAIN req[t].lines
    <3>1. \A m \in pend[t] : m.line \in DOMAIN req[t].lines
      BY <1>2 DEF PlainTxn
    <3>2. ASSUME NEW i \in DOMAIN req[t].lines PROVE \E m \in pend[t] : m.line = i
      <4>1. Restored(t, o, req[t].lines[i].row)
        BY <1>1, <1>2, <1>3 DEF CancelOK
      <4>2. PICK m \in moves \cup pend[t] :
               IsRestore(m) /\ m.order = o /\ m.row = req[t].lines[i].row
        BY <4>1 DEF Restored, IsRestore
      <4>3. m \notin moves
        BY <1>7, <4>2 DEF Plain, PlainOK
      <4>4. m.line \in DOMAIN req[t].lines /\ req[t].lines[m.line].row = req[t].lines[i].row
        BY <1>2, <4>2, <4>3 DEF PlainTxn, MoveOf
      <4>5. Simple(req[t].lines)
        BY <1>3, <1>4 DEF Plain, PlainOK, PlainTxn
      <4> QED  BY <4>2, <4>3, <4>4, <4>5 DEF Simple
    <3> QED  BY <3>1, <3>2
  <2>3. ASSUME NEW r \in Rows
        PROVE  /\ n(r) \in Nat /\ (n(r) > 0 => stock[r] # Null)
               /\ stock'[r] = Add(stock[r], n(r)) /\ stock[r] \in Int \cup {Null}
    <3>1. n(r) \in Nat /\ (n(r) > 0 => \E i \in DOMAIN req[t].lines : req[t].lines[i].row = r)
      BY <1>2, QtyNat
    <3>2. taken[o] = DOMAIN req[o].lines /\ PlainTxn(o)
      BY <1>3, <1>4 DEF Plain, PlainOK, PlainTxn, SaleOK, Took
    <3>3. n(r) > 0 => stock[r] # Null
      BY <1>4, <3>1, <3>2, NullStays DEF PlainTxn
    <3>4. MovedQty(r, pend[t]) = n(r)
      BY <1>2, <2>2, RequestMoves
    <3> HIDE DEF n
    <3> QED  BY <1>5, <3>1, <3>3, <3>4
  <2> HIDE DEF n
  <2>4. \A r \in Rows : stock'[r] = IF n(r) > 0 THEN stock[r] + n(r) ELSE stock[r]
    <3> TAKE r \in Rows
    <3>1. CASE stock[r] = Null
      BY <2>3, <3>1 DEF Add
    <3>2. CASE stock[r] # Null
      <4>1. stock'[r] = stock[r] + n(r) /\ stock[r] \in Int /\ n(r) \in Nat
        BY <2>3, <3>2 DEF Add
      <4> QED  BY <4>1
    <3> QED  BY <3>1, <3>2
  <2>5. stock' = [r \in Rows |-> IF n(r) > 0 THEN stock[r] + n(r) ELSE stock[r]]
    BY <1>2, <2>4
  <2>6. \A r \in Rows : Sold[o][r] = n(r)
    BY <1>3, <1>4, <2>1, SoldIs DEF SoldOf, n
  <2>7. Sold' = [Sold EXCEPT ![o] = Book!Empty]
    <3>1. SoldOf(status', req) = [SoldOf(status, req) EXCEPT ![o] = Book!Empty]
      BY <1>3 DEF SoldOf, Book!Empty, Plain, Inv, Basic, TypeOK
    <3> QED  BY <1>2, <3>1, SoldIs, SoldNext
  <2> QED  BY <1>1, <2>5, <2>6, <2>7 DEF Book!Cancel
<1> QED  BY <1>6, <1>7

\* One line alone.
LEMMA QtyOne ==
    ASSUME NEW ls \in Seq(Line), \A j \in DOMAIN ls : ls[j].qty \in Int, NEW r,
           NEW i \in DOMAIN ls
    PROVE  Qty(ls, r, {} \cup {i}) = IF ls[i].row = r THEN ls[i].qty ELSE 0
<1>1. ASSUME NEW js \in SUBSET DOMAIN ls, i \notin js
      PROVE  Qty(ls, r, js \cup {i})
                = Qty(ls, r, js) + (IF ls[i].row = r THEN ls[i].qty ELSE 0)
  BY <1>1, QtyAdd
<1>2. Qty(ls, r, {} \cup {i}) = Qty(ls, r, {}) + (IF ls[i].row = r THEN ls[i].qty ELSE 0)
  BY <1>1
<1>3. Qty(ls, r, {}) = 0
  BY NothingBooked
<1>4. (IF ls[i].row = r THEN ls[i].qty ELSE 0) \in Int
  OBVIOUS
<1> QED  BY <1>2, <1>3, <1>4

\* The commit of a restock adds its units.
LEMMA RestockBook ==
    ASSUME PlainShop, Plain, NEW t \in Txns, Commit(t), req[t].kind = "restock"
    PROVE  (\E r \in Rows : Book!Restock(r)) \/ UNCHANGED <<stock, Sold>>
<1>1. /\ pc[t] = "commit" /\ PlainTxn(t) /\ HasLines(req[t])
      /\ req[t].lines \in Seq(Line)
      /\ \A i \in DOMAIN req[t].lines :
            req[t].lines[i].row \in Rows /\ req[t].lines[i].qty \in Nat \ {0}
      /\ req' = req /\ stock' \in [Rows -> Quantity] /\ stock \in [Rows -> Quantity]
  BY CommitLines DEF Plain, Inv, Basic, TypeOK, StockOK
<1>2. status' = status
  BY DEF Commit, Sales
<1>3. Sold' = Sold
  BY <1>1, <1>2, SoldIs, SoldNext
<1> PICK x, k : x = req[t].lines[1].row /\ k = req[t].lines[1].qty
  OBVIOUS
<1>4. DOMAIN req[t].lines = {1} /\ x \in Rows /\ k \in Nat \ {0}
  BY <1>1 DEF HasLines
<1>5. \A r \in Rows :
         MovedQty(r, pend[t]) = IF {m.line : m \in pend[t]} = {} THEN 0
                                ELSE IF r = x THEN k ELSE 0
  <2> TAKE r \in Rows
  <2> DEFINE ls == req[t].lines
             js == {m.line : m \in pend[t]}
  <2>1. js = {} \/ js = {} \cup {1}
    BY <1>1, <1>4 DEF PlainTxn
  <2>2. MovedQty(r, pend[t]) = Qty(ls, r, js)
    BY <1>1, RequestMoves
  <2> HIDE DEF js
  <2>3. Qty(ls, r, {}) = 0
    BY NothingBooked
  <2>4. Qty(ls, r, {} \cup {1}) = IF ls[1].row = r THEN ls[1].qty ELSE 0
    <3>1. ls \in Seq(Line) /\ (\A i \in DOMAIN ls : ls[i].qty \in Int) /\ 1 \in DOMAIN ls
      BY <1>1, <1>4
    <3> HIDE DEF ls
    <3> QED  BY <3>1, QtyOne
  <2>5. Qty(ls, r, {} \cup {1}) = IF r = x THEN k ELSE 0
    BY <1>4, <2>4
  <2> QED  BY <2>1, <2>2, <2>3, <2>5 DEF js
<1>6. ASSUME NEW r \in Rows
      PROVE  /\ stock'[r] = Add(stock[r], MovedQty(r, pend[t]))
             /\ stock[r] \in Int \cup {Null}
  <2>1. stock'[r] = Add(stock[r], Own(t, r)) /\ Own(t, r) \in Int
    BY AllUnedited, CommitStock DEF Plain, Inv
  <2>2. Own(t, r) = MovedQty(r, pend[t]) - 0
    BY DEF Own, OwnOf
  <2>3. MovedQty(r, pend[t]) \in Int
    BY MovedAdd DEF Plain, OwnOK, OwnTxn, Inv, Basic, TypeOK
  <2> QED  BY <1>1, <2>1, <2>2, <2>3 DEF Quantity
<1>7. \A r \in Rows : r # x => stock'[r] = stock[r]
  BY <1>5, <1>6 DEF Add
<1>8. CASE {m.line : m \in pend[t]} = {} \/ stock[x] = Null
  <2>1. stock'[x] = stock[x]
    BY <1>4, <1>5, <1>6, <1>8 DEF Add
  <2>2. stock' = stock
    BY <1>1, <1>7, <2>1
  <2> QED  BY <1>3, <2>2
<1>9. CASE {m.line : m \in pend[t]} # {} /\ stock[x] # Null
  <2>1. stock'[x] = stock[x] + k /\ stock[x] \in Int
    BY <1>4, <1>5, <1>6, <1>9 DEF Add
  <2>2. stock'[x] > stock[x]
    BY <1>4, <2>1
  <2>3. stock' = [stock EXCEPT ![x] = stock'[x]]
    BY <1>1, <1>7
  <2>4. Book!Restock(x)
    BY <1>3, <1>9, <2>2, <2>3 DEF Book!Restock
  <2> QED  BY <1>4, <2>4
<1> QED  BY <1>8, <1>9

\* Every step is a step of the books, or leaves them alone.
LEMMA StepBook == PlainShop /\ Plain /\ [Next]_vars => [Book!Next]_<<stock, Sold>>
<1> SUFFICES ASSUME PlainShop, Plain, [Next]_vars PROVE [Book!Next]_<<stock, Sold>>
  OBVIOUS
<1>1. ASSUME NEW t \in Txns, Commit(t) PROVE [Book!Next]_<<stock, Sold>>
  <2>1. CASE req[t].kind \in Sales
    BY <1>1, <2>1, SellBook DEF Book!Next
  <2>2. CASE req[t].kind = "cancel"
    <3>1. req[t].order \in Txns
      BY <1>1, <2>2, CommitLines DEF Plain, Inv, Basic, ControlOK
    <3> QED  BY <1>1, <2>2, <3>1, CancelBook DEF Book!Next
  <2>3. CASE req[t].kind = "restock"
    BY <1>1, <2>3, RestockBook DEF Book!Next
  <2> QED  BY <1>1, <2>1, <2>2, <2>3, CommitLines
<1>2. ASSUME NEW t \in Txns, Begin(t) \/ Step(t) \/ Rollback(t), ~ Commit(t)
      PROVE  UNCHANGED <<stock, Sold>>
  <2>1. UNCHANGED <<stock, status>> /\ \A u \in Txns \ {t} : req'[u] = req[u]
    <3>1. CASE Undo(t)
      BY <3>1 DEF Undo, shared
    <3>2. CASE ~ Undo(t)
      BY <1>2, <3>2 DEF Begin, Step, Rollback, OutOfStock, RefuseCancel, RefuseRestock,
         DeadlockAbort, ReadCatalog, SkipLine, TakeLine, LockNumber, InsertOrder, ReadOrder,
         MarkCancelled, CheckLine, ReadForRestock, PutBack, ReadForEdit, WriteEdit, shared,
         Plain, Inv, Basic, TypeOK
    <3> QED  BY <3>1, <3>2
  <2>2. pc[t] # "done"
    BY <1>2, AbortedRuns DEF Begin, Step, Rollback, OutOfStock, RefuseCancel, RefuseRestock,
       ReadCatalog, SkipLine, TakeLine, LockNumber, InsertOrder, ReadOrder,
       MarkCancelled, CheckLine, ReadForRestock, PutBack, ReadForEdit, WriteEdit, Plain, Inv
  <2> QED  BY <2>1, <2>2, BookStays DEF Plain, Inv
<1>3. ASSUME UNCHANGED vars PROVE UNCHANGED <<stock, Sold>>
  BY <1>3, SoldIs, SoldNext DEF vars
<1> QED  BY <1>1, <1>2, <1>3 DEF Next, Finished

LEMMA InitBook == Init => Book!Init
<1> SUFFICES ASSUME Init PROVE Book!Init
  OBVIOUS
<1>1. SoldOf(status, req) = [o \in Txns |-> Book!Empty]
  BY DEF Init, SoldOf, Book!Empty
<1> QED  BY <1>1, SoldIs DEF Init, Book!Init

\* Concurrent sales, cancellations and restocks amount to the same requests
\* executed whole, one after the other (READ COMMITTED and the guarded UPDATEs of
\* order_create.py and inventory.py suffice for it), in a shop that tracks all its
\* products, edits none of them while it sells and whose carts name a row once.
THEOREM SalesAreSerializable == PlainShop => (Spec => Serializable)
<1> SUFFICES ASSUME PlainShop PROVE Spec => Serializable
  OBVIOUS
<1>1. Init => Plain /\ Book!Init
  BY InitBasic, InitRestore, InitOwn, InitBooks, InitPlain, InitBook DEF Plain, Inv
<1>2. Plain /\ [Next]_vars => Plain'
  BY StepBasic, StepRestore, StepOwn, StepBooks, StepPlain DEF Plain, Inv
<1>3. Plain /\ [Next]_vars => [Book!Next]_<<stock, Sold>>
  BY StepBook
<1> QED  BY <1>1, <1>2, <1>3, PTL DEF Spec, Serializable, Book!Spec
=============================================================================
