------------------------------ MODULE KeysProofs ------------------------------
(* Proofs about what names a tenant's rows: the numbers of orders, donations *)
(* and pledges (Numbering), and the codes of products and variants (Catalog),*)
(* whose ledger must keep the items it names. The two share no state.        *)
EXTENDS Numbering, Catalog, TLAPS

-----------------------------------------------------------------------------
(* Numbering, for every set of handlers and series, any hash of the lock     *)
(* keys and any number of rows.                                              *)

\* On a gap-free series the MAX select of numbering.py returns the row count.
LEMMA MaxIsCount ==
    ASSUME NEW s \in Series, rows[s] \in Seq(Nat),
           \A i \in DOMAIN rows[s] : rows[s][i] = i
    PROVE  CurrentMax(s) = Len(rows[s])
<1> DEFINE n == Len(rows[s])
<1>1. n \in Nat /\ DOMAIN rows[s] = 1..n
  OBVIOUS
<1>2. Numbers(s) = 1..n
  <2>1. \A i \in 1..n : i \in Numbers(s)
    BY <1>1 DEF Numbers
  <2>2. \A m \in Numbers(s) : m \in 1..n
    BY <1>1 DEF Numbers
  <2> QED  BY <2>1, <2>2
<1>3. CASE n = 0
  BY <1>2, <1>3 DEF CurrentMax
<1>4. CASE n # 0
  <2>1. n \in Numbers(s) /\ \A m \in Numbers(s) : m <= n
    BY <1>1, <1>2, <1>4
  <2>2. \A k \in Numbers(s) : (\A m \in Numbers(s) : m <= k) => k = n
    BY <1>1, <1>2, <2>1
  <2>3. Numbers(s) # {}
    BY <2>1
  <2> QED  BY <2>1, <2>2, <2>3 DEF CurrentMax
<1> QED  BY <1>3, <1>4

-----------------------------------------------------------------------------
\* The invariant holds before the first request.
LEMMA NumberingInit == Init => NumberingInv
BY NumberingAssumption DEF Init, NumberingInv, NumberingTypeOK, LockDiscipline,
  NumberStillNext, GapFree

\* Every step keeps it: one case per action.
LEMMA NumberingStep == NumberingInv /\ [Next]_vars => NumberingInv'
<1> SUFFICES ASSUME NumberingInv, [Next]_vars PROVE NumberingInv'
  OBVIOUS
<1> USE NumberingAssumption
<1> USE DEF NumberingInv, NumberingTypeOK
<1>1. ASSUME NEW t \in Txns, NEW s \in Series, Ask(t, s) PROVE NumberingInv'
  <2>1. NumberingTypeOK'
    BY <1>1 DEF Ask
  <2>2. LockDiscipline'
    BY <1>1 DEF Ask, LockDiscipline
  <2>3. NumberStillNext' /\ GapFree'
    BY <1>1 DEF Ask, NumberStillNext, GapFree
  <2> QED  BY <2>1, <2>2, <2>3
<1>2. ASSUME NEW t \in Txns, AcquireLock(t) PROVE NumberingInv'
  <2>1. NumberingTypeOK'
    BY <1>2 DEF AcquireLock
  <2>2. LockDiscipline'
    BY <1>2 DEF AcquireLock, LockDiscipline
  <2>3. NumberStillNext' /\ GapFree'
    BY <1>2 DEF AcquireLock, NumberStillNext, GapFree
  <2> QED  BY <2>1, <2>2, <2>3
<1>3. ASSUME NEW t \in Txns, ReadMax(t) PROVE NumberingInv'
  <2> DEFINE s == series[t]
  <2>1. CurrentMax(s) = Len(rows[s])
    BY MaxIsCount DEF GapFree
  <2>2. number' = [number EXCEPT ![t] = Len(rows[s]) + 1]
    BY <1>3, <2>1 DEF ReadMax
  <2>3. NumberingTypeOK'
    BY <1>3, <2>2 DEF ReadMax
  <2>4. LockDiscipline' /\ GapFree'
    BY <1>3 DEF ReadMax, LockDiscipline, GapFree
  <2>5. NumberStillNext'
    BY <1>3, <2>2 DEF ReadMax, NumberStillNext
  <2> QED  BY <2>3, <2>4, <2>5
<1>4. ASSUME NEW t \in Txns, Insert(t) PROVE NumberingInv'
  BY <1>4 DEF Insert, LockDiscipline, NumberStillNext, GapFree
<1>5. ASSUME NEW t \in Txns, Commit(t) PROVE NumberingInv'
  <2> DEFINE s == series[t]
  <2>1. number[t] = Len(rows[s]) + 1
    BY <1>5 DEF Commit, NumberStillNext
  <2>2. rows' = [rows EXCEPT ![s] = Append(rows[s], number[t])]
    BY <1>5 DEF Commit
  <2>3. NumberingTypeOK'
    BY <1>5, <2>2 DEF Commit, Released
  <2>4. LockDiscipline'
    BY <1>5 DEF Commit, Released, LockDiscipline
  <2>5. NumberStillNext'
    <3> SUFFICES ASSUME NEW u \in Txns, pc'[u] \in {"insert", "commit"}
                 PROVE  number'[u] = Len(rows'[series'[u]]) + 1
      BY DEF NumberStillNext
    <3>1. u # t /\ pc[u] \in {"insert", "commit"}
      BY <1>5 DEF Commit
    <3>2. series[u] # s
      \* both would hold the lock of the series
      BY <1>5, <3>1 DEF Commit, LockDiscipline
    <3>3. rows'[series[u]] = rows[series[u]]
      BY <2>2, <3>2
    <3> QED  BY <1>5, <3>1, <3>3 DEF Commit, NumberStillNext
  <2>6. GapFree'
    <3> SUFFICES ASSUME NEW q \in Series, NEW i \in DOMAIN rows'[q]
                 PROVE  rows'[q][i] = i
      BY DEF GapFree
    <3>1. CASE q # s
      BY <2>2, <3>1 DEF GapFree
    <3>2. CASE q = s
      <4>1. rows'[q] = Append(rows[s], Len(rows[s]) + 1)
        BY <2>1, <2>2, <3>2
      <4>2. rows[s] \in Seq(Nat) /\ \A j \in 1..Len(rows[s]) : rows[s][j] = j
        BY DEF GapFree
      <4> QED  BY <4>1, <4>2
    <3> QED  BY <3>1, <3>2
  <2> QED  BY <2>3, <2>4, <2>5, <2>6
<1>6. ASSUME NEW t \in Txns, Rollback(t) PROVE NumberingInv'
  <2>1. NumberingTypeOK'
    BY <1>6 DEF Rollback, Released
  <2>2. LockDiscipline'
    BY <1>6 DEF Rollback, Released, LockDiscipline
  <2>3. NumberStillNext' /\ GapFree'
    BY <1>6 DEF Rollback, NumberStillNext, GapFree
  <2> QED  BY <2>1, <2>2, <2>3
<1>7. CASE UNCHANGED vars
  BY <1>7 DEF vars, LockDiscipline, NumberStillNext, GapFree
<1> QED  BY <1>1, <1>2, <1>3, <1>4, <1>5, <1>6, <1>7 DEF Next

-----------------------------------------------------------------------------
\* The advisory lock discipline, the exclusive right to the next number and the
\* absence of gaps and duplicates hold in every reachable state.
THEOREM Safety == Spec => []NumberingInv
<1>1. NumberingInv /\ UNCHANGED vars => NumberingInv'
  BY NumberingStep
<1> QED  BY NumberingInit, NumberingStep, PTL DEF Spec

\* numbering.py lines 3-4: the committed rows of every series carry 1, 2, 3, ...
\* without gap or duplicate, whatever handlers run and are rolled back.
THEOREM NumbersGapFree == Spec => []GapFree
BY Safety, PTL DEF NumberingInv

\* No handler commits a row between another's MAX select and its commit.
THEOREM NumbersStayNext == Spec => []NumberStillNext
BY Safety, PTL DEF NumberingInv

\* Numbering implements the abstract counter of its series.
THEOREM CounterRefined == Spec => ImplementsCounter
<1>1. Init => Counter!Init
  BY DEF Init, Counter!Init
<1>2. NumberingInv /\ [Next]_vars => [Counter!Next]_rows
  <2> SUFFICES ASSUME NumberingInv, [Next]_vars PROVE [Counter!Next]_rows
    OBVIOUS
  <2>1. ASSUME NEW t \in Txns, Commit(t) PROVE Counter!Next
    <3>1. series[t] \in Series /\ number[t] = Len(rows[series[t]]) + 1
      BY <2>1 DEF NumberingInv, NumberingTypeOK, NumberStillNext, Commit
    <3>2. Counter!Issue(series[t])
      BY <2>1, <3>1 DEF Commit, Counter!Issue
    <3> QED  BY <3>1, <3>2 DEF Counter!Next
  <2>2. CASE ~ \E t \in Txns : Commit(t)
    BY <2>2 DEF Next, vars, Ask, AcquireLock, ReadMax, Insert, Rollback
  <2> QED  BY <2>1, <2>2
<1> QED  BY <1>1, <1>2, Safety, PTL DEF Spec, ImplementsCounter, Counter!Spec

-----------------------------------------------------------------------------
(* Catalog, for every catalogue, number of clients, orders and codes. The    *)
(* invariant says of each request what it has found out and what of that     *)
(* others may have changed since; what is on the ledger keeps its items      *)
(* because no delete passes the foreign keys of stock_movements.             *)

CheckAt == [create_product |-> 1, update_product |-> 2, create_variant |-> 2,
            update_variant |-> 3]

\* The requests that name no stored product, or none yet.
Unnamed == {"create_product", "cancel_order", "bulk_delete_products", "delete_category",
            "bulk_delete_categories"}

\* A request asks for rows that there are or were, or that it is to insert.
Fits(r) ==
    /\ r.pc \in 1 .. Len(Does[r.op])
    /\ r.op \in {"create_product", "update_product", "delete_product", "restock_product"} =>
         r.product \in Products /\ r.variant = None
    /\ r.op \in {"create_variant", "update_variant", "delete_variant"} =>
         r.product \in Products /\ r.variant \in Variants
    /\ r.op \in {"update_variant", "delete_variant"} => variants[r.variant].product = r.product
    /\ r.op \in Sales =>
         /\ r.product \in Products /\ r.order \in Orders
         /\ r.variant # None => variants[r.variant].product = r.product
    /\ r.op = "cancel_order" =>
         /\ r.order \in Orders /\ orders[r.order].status # "new"
         /\ r.pc >= 2 => /\ r.product = orders[r.order].product
                         /\ r.variant = orders[r.order].variant
    /\ r.op \notin Unnamed => products[r.product].row # "new"

\* What it is to insert has no row yet.
Inserts(r) ==
    /\ r.op = "create_product" => products[r.product].row = "new"
    /\ r.op = "create_variant" => variants[r.variant].row = "new"
    /\ r.op \in Sales => orders[r.order].status = "new"

\* A request past its two queries knows the holders of its code but those it missed.
Looked(r) ==
    r.op \in DOMAIN CheckAt /\ r.code # None =>
      /\ r.pc > CheckAt[r.op] =>
           \A i \in Live(products) \ {Itself(r)} : products[i].code = r.code => i \in r.missed
      /\ r.pc > CheckAt[r.op] + 1 =>
           \A i \in Live(variants) \ {Itself(r)} : variants[i].code = r.code => i \in r.missed

\* A cancellation that failed could not be recorded, and never can be.
Failed(r) == r.op = "cancel_order" /\ r.status = "error" => r.pc >= 2 /\ ~ Recordable(r)

RequestsFit == \A c \in Clients : request[c] # None =>
    /\ Fits(request[c]) /\ Failed(request[c])
    /\ Running(c) => Inserts(request[c]) /\ Looked(request[c])

\* No two requests insert the same row.
InsertsDiffer == \A c, d \in Clients : Running(c) /\ Running(d) /\ c # d =>
    LET r == request[c]
        q == request[d] IN
    /\ r.op = "create_product" /\ q.op = "create_product" => r.product # q.product
    /\ r.op = "create_variant" /\ q.op = "create_variant" => r.variant # q.variant
    /\ r.op \in Sales /\ q.op \in Sales => r.order # q.order

NewVariants == \A v \in Variants : variants[v].row = "new" => variants[v].product = None

OrdersFit == \A o \in Orders : orders[o].status # "new" =>
    /\ orders[o].product \in Products /\ products[orders[o].product].row # "new"
    /\ orders[o].variant # None => variants[orders[o].variant].product = orders[o].product

MovementsFit == \A x \in movements : x.order # None =>
    /\ orders[x.order].status # "new"
    /\ x.product = orders[x.order].product /\ x.variant = orders[x.order].variant

Inv == /\ TypeOK /\ RequestsFit /\ InsertsDiffer /\ NewVariants /\ OrdersFit /\ MovementsFit
       /\ LedgerKeepsItsItems /\ CodesAreSharedOnlyInARace

LEMMA Apart ==
    /\ Tracked \subseteq Products /\ MaxRequests \in Nat
    /\ None \notin Products /\ None \notin Variants /\ None \notin Orders /\ None \notin Codes
    /\ None \notin Names /\ None \notin Categories /\ None \notin Request /\ None \notin Body
    /\ \A x \in Products : x \notin Variants
BY CatalogAssumption

-----------------------------------------------------------------------------
(* The statements.                                                           *)

\* The statement a request is at tells the operation and how far it has come.
LEMMA Places ==
    ASSUME NEW r, r.op \in Operations, r.pc \in 1 .. Len(Does[r.op]),
           NEW step, step = Does[r.op][r.pc]
    PROVE
    /\ r.op = "create_product" =>
         \/ r.pc = 1 /\ step = "check_products"
         \/ r.pc = 2 /\ step = "check_variants"
         \/ r.pc = 3 /\ step = "insert_product"
    /\ r.op = "update_product" =>
         \/ r.pc = 1 /\ step = "load_product"
         \/ r.pc = 2 /\ step = "check_products"
         \/ r.pc = 3 /\ step = "check_variants"
         \/ r.pc = 4 /\ step = "save_product"
    /\ r.op = "delete_product" =>
         \/ r.pc = 1 /\ step = "load_product"
         \/ r.pc = 2 /\ step = "delete_product"
    /\ r.op = "bulk_delete_products" => r.pc = 1 /\ step = "delete_products"
    /\ r.op = "restock_product" =>
         \/ r.pc = 1 /\ step = "load_product"
         \/ r.pc = 2 /\ step = "restock"
    /\ r.op = "create_variant" =>
         \/ r.pc = 1 /\ step = "load_product"
         \/ r.pc = 2 /\ step = "check_products"
         \/ r.pc = 3 /\ step = "check_variants"
         \/ r.pc = 4 /\ step = "insert_variant"
    /\ r.op = "update_variant" =>
         \/ r.pc = 1 /\ step = "load_product"
         \/ r.pc = 2 /\ step = "load_variant"
         \/ r.pc = 3 /\ step = "check_products"
         \/ r.pc = 4 /\ step = "check_variants"
         \/ r.pc = 5 /\ step = "save_variant"
    /\ r.op = "delete_variant" =>
         \/ r.pc = 1 /\ step = "load_product"
         \/ r.pc = 2 /\ step = "load_variant"
         \/ r.pc = 3 /\ step = "delete_variant"
    /\ r.op = "delete_category" =>
         \/ r.pc = 1 /\ step = "load_category"
         \/ r.pc = 2 /\ step = "delete_category"
    /\ r.op = "bulk_delete_categories" => r.pc = 1 /\ step = "delete_categories"
    /\ r.op = "submit_order" =>
         \/ r.pc = 1 /\ step = "load_product"
         \/ r.pc = 2 /\ step = "load_variant"
         \/ r.pc = 3 /\ step = "sell"
    /\ r.op = "create_pos_order" =>
         \/ r.pc = 1 /\ step = "load_product"
         \/ r.pc = 2 /\ step = "load_variant"
         \/ r.pc = 3 /\ step = "sell_and_record"
    /\ r.op = "cancel_order" =>
         \/ r.pc = 1 /\ step = "load_order"
         \/ r.pc = 2 /\ step = "look_for_product"
         \/ r.pc = 3 /\ step = "restore"
<1>1. CASE r.op = "create_product"
  <2>1. Does[r.op] = <<"check_products", "check_variants", "insert_product">>
    BY <1>1 DEF Does
  <2>2. Len(Does[r.op]) = 3
    BY <2>1
  <2> QED  BY <1>1, <2>1, <2>2
<1>2. CASE r.op = "update_product"
  <2>1. Does[r.op] = <<"load_product", "check_products", "check_variants", "save_product">>
    BY <1>2 DEF Does
  <2>2. Len(Does[r.op]) = 4
    BY <2>1
  <2> QED  BY <1>2, <2>1, <2>2
<1>3. CASE r.op = "delete_product"
  <2>1. Does[r.op] = <<"load_product", "delete_product">>
    BY <1>3 DEF Does
  <2>2. Len(Does[r.op]) = 2
    BY <2>1
  <2> QED  BY <1>3, <2>1, <2>2
<1>4. CASE r.op = "bulk_delete_products"
  <2>1. Does[r.op] = <<"delete_products">>
    BY <1>4 DEF Does
  <2>2. Len(Does[r.op]) = 1
    BY <2>1
  <2> QED  BY <1>4, <2>1, <2>2
<1>5. CASE r.op = "restock_product"
  <2>1. Does[r.op] = <<"load_product", "restock">>
    BY <1>5 DEF Does
  <2>2. Len(Does[r.op]) = 2
    BY <2>1
  <2> QED  BY <1>5, <2>1, <2>2
<1>6. CASE r.op = "create_variant"
  <2>1. Does[r.op] = <<"load_product", "check_products", "check_variants", "insert_variant">>
    BY <1>6 DEF Does
  <2>2. Len(Does[r.op]) = 4
    BY <2>1
  <2> QED  BY <1>6, <2>1, <2>2
<1>7. CASE r.op = "update_variant"
  <2>1. Does[r.op] = <<"load_product", "load_variant", "check_products", "check_variants",
    "save_variant">>
    BY <1>7 DEF Does
  <2>2. Len(Does[r.op]) = 5
    BY <2>1
  <2> QED  BY <1>7, <2>1, <2>2
<1>8. CASE r.op = "delete_variant"
  <2>1. Does[r.op] = <<"load_product", "load_variant", "delete_variant">>
    BY <1>8 DEF Does
  <2>2. Len(Does[r.op]) = 3
    BY <2>1
  <2> QED  BY <1>8, <2>1, <2>2
<1>9. CASE r.op = "submit_order"
  <2>1. Does[r.op] = <<"load_product", "load_variant", "sell">>
    BY <1>9 DEF Does
  <2>2. Len(Does[r.op]) = 3
    BY <2>1
  <2> QED  BY <1>9, <2>1, <2>2
<1>10. CASE r.op = "create_pos_order"
  <2>1. Does[r.op] = <<"load_product", "load_variant", "sell_and_record">>
    BY <1>10 DEF Does
  <2>2. Len(Does[r.op]) = 3
    BY <2>1
  <2> QED  BY <1>10, <2>1, <2>2
<1>11. CASE r.op = "cancel_order"
  <2>1. Does[r.op] = <<"load_order", "look_for_product", "restore">>
    BY <1>11 DEF Does
  <2>2. Len(Does[r.op]) = 3
    BY <2>1
  <2> QED  BY <1>11, <2>1, <2>2
<1>12. CASE r.op = "delete_category"
  <2>1. Does[r.op] = <<"load_category", "delete_category">>
    BY <1>12 DEF Does
  <2>2. Len(Does[r.op]) = 2
    BY <2>1
  <2> QED  BY <1>12, <2>1, <2>2
<1>13. CASE r.op = "bulk_delete_categories"
  <2>1. Does[r.op] = <<"delete_categories">>
    BY <1>13 DEF Does
  <2>2. Len(Does[r.op]) = 1
    BY <2>1
  <2> QED  BY <1>13, <2>1, <2>2
<1> QED  BY <1>1, <1>2, <1>3, <1>4, <1>5, <1>6, <1>7, <1>8, <1>9, <1>10, <1>11, <1>12, <1>13
         DEF Operations

LEMMA Lengths ==
    /\ Len(Does["create_product"]) = 3
    /\ Len(Does["update_product"]) = 4
    /\ Len(Does["delete_product"]) = 2
    /\ Len(Does["bulk_delete_products"]) = 1
    /\ Len(Does["restock_product"]) = 2
    /\ Len(Does["create_variant"]) = 4
    /\ Len(Does["update_variant"]) = 5
    /\ Len(Does["delete_variant"]) = 3
    /\ Len(Does["delete_category"]) = 2
    /\ Len(Does["bulk_delete_categories"]) = 1
    /\ Len(Does["submit_order"]) = 3
    /\ Len(Does["create_pos_order"]) = 3
    /\ Len(Does["cancel_order"]) = 3
BY DEF Does

LEMMA AtPlaces ==
    ASSUME Inv, NEW c \in Clients, NEW step, At(c, step)
    PROVE  LET r == request[c] IN
           /\ r \in Request /\ r # None /\ r.status = "running" /\ Running(c)
           /\ r.op \in Operations /\ r.pc \in 1 .. Len(Does[r.op]) /\ step = Does[r.op][r.pc]
           /\ r.pc \in Nat
           /\ Fits(r) /\ Inserts(r) /\ Looked(r)
<1> DEFINE r == request[c]
<1>1. Running(c) /\ r # None /\ r.status = "running" /\ Does[r.op][r.pc] = step
  BY DEF At, Running
<1>2. r \in Request
  BY <1>1 DEF Inv, TypeOK
<1>3. r.op \in Operations /\ r.pc \in Nat
  BY <1>2 DEF Request
<1>4. Fits(r) /\ Inserts(r) /\ Looked(r)
  BY <1>1 DEF Inv, RequestsFit
<1>5. r.pc \in 1 .. Len(Does[r.op])
  BY <1>4 DEF Fits
<1> QED  BY <1>1, <1>2, <1>3, <1>4, <1>5

\* No two of them insert the same row.
Differ(r, q) ==
    /\ r.op = "create_product" /\ q.op = "create_product" => r.product # q.product
    /\ r.op = "create_variant" /\ q.op = "create_variant" => r.variant # q.variant
    /\ r.op \in Sales /\ q.op \in Sales => r.order # q.order

\* A step of one request that writes no row.
LEMMA OneRequest ==
    ASSUME Inv, NEW c \in Clients, NEW q \in Request,
           request' = [request EXCEPT ![c] = q],
           UNCHANGED <<products, variants, categories, orders, movements, raced>>,
           begun' \in 0 .. MaxRequests,
           Fits(q), Failed(q),
           q.status = "running" =>
             /\ Inserts(q) /\ Looked(q)
             /\ \A d \in Clients : Running(d) /\ d # c =>
                  Differ(q, request[d]) /\ Differ(request[d], q)
    PROVE  Inv'
<1>1. request'[c] = q /\ \A d \in Clients \ {c} : request'[d] = request[d]
  BY DEF Inv, TypeOK
<1>2. TypeOK'
  BY DEF Inv, TypeOK
<1>4. \A d \in Clients : (Running(d))' <=>
        \/ d = c /\ q.status = "running"
        \/ d # c /\ Running(d)
  BY <1>1, Apart DEF Running
<1>5. RequestsFit'
  <2> SUFFICES ASSUME NEW d \in Clients, request'[d] # None
               PROVE  /\ Fits(request[d])' /\ Failed(request[d])'
                      /\ (Running(d))' => Inserts(request[d])' /\ Looked(request[d])'
    BY DEF RequestsFit
  <2>1. CASE d = c
    BY <1>1, <1>4, <2>1 DEF Fits, Failed, Inserts, Looked, Recordable, Present, Live
  <2>2. CASE d # c
    <3>1. /\ Fits(request[d]) /\ Failed(request[d])
          /\ Running(d) => Inserts(request[d]) /\ Looked(request[d])
      BY <1>1, <2>2 DEF Inv, RequestsFit
    <3> QED  BY <1>1, <1>4, <2>2, <3>1
             DEF Fits, Failed, Inserts, Looked, Recordable, Present, Live
  <2> QED  BY <2>1, <2>2
<1>6. InsertsDiffer'
  BY <1>1, <1>4 DEF Inv, InsertsDiffer, Differ
<1>7. NewVariants' /\ OrdersFit' /\ MovementsFit'
  BY DEF Inv, NewVariants, OrdersFit, MovementsFit
<1>8. LedgerKeepsItsItems' /\ CodesAreSharedOnlyInARace'
  BY DEF Inv, LedgerKeepsItsItems, CodesAreSharedOnlyInARace, Live
<1> QED  BY <1>2, <1>5, <1>6, <1>7, <1>8 DEF Inv

\* The same request, ended.
Same(r, q) ==
    /\ q.op = r.op /\ q.product = r.product /\ q.variant = r.variant
    /\ q.order = r.order /\ q.pc = r.pc /\ q.code = r.code

LEMMA EndedRequest ==
    ASSUME NEW r \in Request, NEW status \in {"ok", "404", "409", "422", "error"}
    PROVE  LET q == Ended(r, status) IN q \in Request /\ q.status = status /\ Same(r, q)
<1> DEFINE q == Ended(r, status)
<1>1. q = [r EXCEPT !.status = status, !.loaded = None, !.missed = {}]
  BY DEF Ended
<1>2. q \in Request
  BY <1>1 DEF Request
<1>3. q.status = status /\ Same(r, q)
  BY <1>1 DEF Request, Same
<1> QED  BY <1>2, <1>3

LEMMA RefusedRequest ==
    ASSUME NEW r \in Request, NEW b \in Body
    PROVE  LET q == [Ended(r, "409") EXCEPT !.body = b] IN
           q \in Request /\ q.status = "409" /\ q.body = b /\ Same(r, q)
<1> DEFINE e == Ended(r, "409")
           q == [e EXCEPT !.body = b]
<1>1. e \in Request /\ e.status = "409" /\ Same(r, e)
  BY EndedRequest
<1> HIDE DEF e
<1>2. q \in Request
  BY <1>1 DEF Request
<1>3. q.status = "409" /\ q.body = b /\ Same(r, q)
  BY <1>1 DEF Request, Same
<1> QED  BY <1>2, <1>3 DEF e

\* Refused.
LEMMA EndsInv ==
    ASSUME Inv, NEW c \in Clients, Running(c), NEW q \in Request,
           q.status # "running", Same(request[c], q), request' = [request EXCEPT ![c] = q],
           UNCHANGED <<products, variants, categories, orders, movements, begun, raced>>,
           q.op = "cancel_order" /\ q.status = "error" => q.pc >= 2 /\ ~ Recordable(q)
    PROVE  Inv'
<1>1. request[c] \in Request /\ Fits(request[c])
  BY DEF Running, Inv, TypeOK, RequestsFit
<1>2. Fits(q) /\ Failed(q)
  BY <1>1 DEF Fits, Failed, Same
<1>3. begun' \in 0 .. MaxRequests
  BY DEF Inv, TypeOK
<1> QED  BY <1>2, <1>3, OneRequest

LEMMA RefuseInv ==
    ASSUME Inv, NEW c \in Clients, Running(c), NEW status \in {"404", "409", "422", "error"},
           Refuse(c, status),
           request[c].op = "cancel_order" /\ status = "error" =>
              request[c].pc >= 2 /\ ~ Recordable(request[c])
    PROVE  Inv'
<1> PICK q : q = Ended(request[c], status)
  OBVIOUS
<1>1. request' = [request EXCEPT ![c] = q]
  BY DEF Refuse
<1>2. UNCHANGED <<products, variants, categories, orders, movements, begun, raced>>
  BY DEF Refuse
<1>3. q \in Request /\ q.status = status /\ Same(request[c], q)
  BY EndedRequest DEF Running, Inv, TypeOK
<1>4. q.op = "cancel_order" /\ q.status = "error" => q.pc >= 2 /\ ~ Recordable(q)
  BY <1>3 DEF Same, Recordable, Present
<1> QED  BY <1>1, <1>2, <1>3, <1>4, EndsInv

LEMMA ConflictInv ==
    ASSUME Inv, NEW c \in Clients, Running(c), NEW b \in Body, Conflict(c, b)
    PROVE  Inv'
<1> PICK q : q = [Ended(request[c], "409") EXCEPT !.body = b]
  OBVIOUS
<1>1. request' = [request EXCEPT ![c] = q]
  BY DEF Conflict
<1>2. UNCHANGED <<products, variants, categories, orders, movements, begun, raced>>
  BY DEF Conflict
<1>3. q \in Request /\ q.status = "409" /\ Same(request[c], q)
  BY RefusedRequest DEF Running, Inv, TypeOK
<1> QED  BY <1>1, <1>2, <1>3, EndsInv

\* A request goes on to its next statement, with what it has found out.
LEMMA ProceedInv ==
    ASSUME Inv, NEW c \in Clients, Running(c), NEW q \in Request,
           request' = [request EXCEPT ![c] = q],
           UNCHANGED <<products, variants, categories, orders, movements, begun, raced>>,
           LET r == request[c] IN
           /\ q.op = r.op /\ q.product = r.product /\ q.variant = r.variant
           /\ q.order = r.order /\ q.status = "running" /\ q.pc = r.pc + 1
           /\ r.pc < Len(Does[r.op]) /\ (r.op = "cancel_order" => r.pc >= 2),
           Looked(q)
    PROVE  Inv'
<1> DEFINE r == request[c]
<1>1. r \in Request /\ Fits(r) /\ Inserts(r) /\ r.pc \in Nat
  BY DEF Running, Inv, TypeOK, RequestsFit, Request
<1>2. /\ q.op = r.op /\ q.product = r.product /\ q.variant = r.variant
      /\ q.order = r.order /\ q.status = "running" /\ q.pc = r.pc + 1
      /\ r.pc < Len(Does[r.op]) /\ (r.op = "cancel_order" => r.pc >= 2)
  OBVIOUS
<1>3. \A d \in Clients : Running(d) /\ d # c => Differ(r, request[d]) /\ Differ(request[d], r)
  BY DEF Inv, InsertsDiffer, Differ
<1> HIDE DEF r
<1>4. q.pc \in 1 .. Len(Does[q.op])
  <2>1. r.pc \in 1 .. Len(Does[r.op])
    BY <1>1 DEF Fits
  <2> QED  BY <1>2, <2>1
<1>5. Fits(q) /\ Failed(q) /\ Inserts(q)
  BY <1>1, <1>2, <1>4 DEF Fits, Failed, Inserts
<1>6. \A d \in Clients : Running(d) /\ d # c => Differ(q, request[d]) /\ Differ(request[d], q)
  BY <1>2, <1>3 DEF Differ
<1>7. begun' \in 0 .. MaxRequests
  BY DEF Inv, TypeOK
<1> QED  BY <1>5, <1>6, <1>7, OneRequest

-----------------------------------------------------------------------------
(* Reads.                                                                    *)

\* The request a statement later.
LEMMA NextPlace ==
    ASSUME NEW p \in Request
    PROVE  LET q == [p EXCEPT !.pc = @ + 1] IN
           /\ q \in Request /\ q.pc = p.pc + 1 /\ p.pc \in Nat
           /\ q.op = p.op /\ q.product = p.product /\ q.variant = p.variant
           /\ q.order = p.order /\ q.code = p.code /\ q.loaded = p.loaded
           /\ q.missed = p.missed /\ q.status = p.status
<1>1. p.pc \in Nat /\ p.pc + 1 \in Nat
  BY DEF Request
<1> QED  BY <1>1 DEF Request

\* It loads a row before it looks for its code.
LEMMA LoadInv ==
    ASSUME Inv, NEW c \in Clients, Running(c), NEW row \in Item \cup {None},
           LET r == request[c] IN
           /\ r.pc < Len(Does[r.op]) /\ (r.op = "cancel_order" => r.pc >= 2)
           /\ r.op \in DOMAIN CheckAt => r.pc < CheckAt[r.op]
           /\ Proceed(c, [r EXCEPT !.loaded = row])
    PROVE  Inv'
<1> DEFINE r == request[c]
<1>1. r \in Request /\ r.status = "running"
  BY DEF Running, Inv, TypeOK
<1>2. r.pc \in Nat
  BY <1>1 DEF Request
<1>3. PICK q \in Request :
        /\ request' = [request EXCEPT ![c] = q] /\ q.op = r.op
        /\ q.product = r.product /\ q.variant = r.variant /\ q.order = r.order
        /\ q.status = "running" /\ q.pc = r.pc + 1 /\ q.code = r.code /\ q.missed = r.missed
  <2> DEFINE p == [r EXCEPT !.loaded = row]
             q == [p EXCEPT !.pc = @ + 1]
  <2>1. request' = [request EXCEPT ![c] = q]
    BY DEF Proceed
  <2> HIDE DEF r
  <2>2. /\ p \in Request /\ p.pc = r.pc /\ p.op = r.op /\ p.product = r.product
        /\ p.variant = r.variant /\ p.order = r.order /\ p.status = r.status
        /\ p.code = r.code /\ p.missed = r.missed
    BY <1>1 DEF Request
  <2> HIDE DEF p
  <2>3. /\ q \in Request /\ q.pc = p.pc + 1 /\ q.op = p.op /\ q.product = p.product
        /\ q.variant = p.variant /\ q.order = p.order /\ q.status = p.status
        /\ q.code = p.code /\ q.missed = p.missed
    BY <2>2, NextPlace
  <2> HIDE DEF q
  <2> QED  BY <1>1, <2>1, <2>2, <2>3
<1>4. /\ r.pc < Len(Does[r.op]) /\ (r.op = "cancel_order" => r.pc >= 2)
      /\ r.op \in DOMAIN CheckAt => r.pc < CheckAt[r.op]
  OBVIOUS
<1>5. \A op \in DOMAIN CheckAt : CheckAt[op] \in Nat
  BY DEF CheckAt
<1>6. Looked(q)
  BY <1>2, <1>3, <1>4, <1>5 DEF Looked
<1>7. UNCHANGED <<products, variants, categories, orders, movements, begun, raced>>
  BY DEF Proceed
<1> QED  BY <1>3, <1>4, <1>6, <1>7, ProceedInv

LEMMA LoadProductInv == ASSUME Inv, NEW c \in Clients, LoadProduct(c) PROVE Inv'
<1> DEFINE r == request[c]
<1>1. At(c, "load_product")
  BY DEF LoadProduct
<1>2. /\ r \in Request /\ Running(c) /\ r.op \in Operations
      /\ r.pc \in 1 .. Len(Does[r.op]) /\ Does[r.op][r.pc] = "load_product" /\ Fits(r)
  BY <1>1, AtPlaces
<1>3. /\ r.pc = 1 /\ r.op \notin Unnamed
      /\ r.op # "cancel_order" /\ r.product \in Products /\ r.pc < Len(Does[r.op])
      /\ r.op \in DOMAIN CheckAt => r.pc < CheckAt[r.op]
  <2> HIDE DEF r
  <2>1. r.pc = 1 /\ r.op \notin Unnamed
    BY <1>2, Places DEF Operations, Unnamed
  <2>2. r.product \in Products
    BY <1>2, <2>1 DEF Fits, Operations, Sales, Unnamed
  <2>3. r.pc < Len(Does[r.op]) /\ (r.op \in DOMAIN CheckAt => r.pc < CheckAt[r.op])
    BY <1>2, <2>1 DEF Does, CheckAt, Operations, Unnamed
  <2> QED  BY <2>1, <2>2, <2>3 DEF Unnamed
<1>4. ASSUME NEW status \in {"404", "422"}, Refuse(c, status) PROVE Inv'
  BY <1>2, <1>3, <1>4, RefuseInv
<1>5. CASE Proceed(c, [r EXCEPT !.loaded = products[r.product]])
  <2>1. products[r.product] \in Item
    BY <1>3 DEF Inv, TypeOK
  <2> QED  BY <1>2, <1>3, <1>5, <2>1, LoadInv
<1> QED  BY <1>4, <1>5 DEF LoadProduct

LEMMA LoadVariantInv == ASSUME Inv, NEW c \in Clients, LoadVariant(c) PROVE Inv'
<1> DEFINE r == request[c]
<1>1. At(c, "load_variant")
  BY DEF LoadVariant
<1>2. /\ r \in Request /\ Running(c) /\ r.op \in Operations
      /\ r.pc \in 1 .. Len(Does[r.op]) /\ Does[r.op][r.pc] = "load_variant" /\ Fits(r)
  BY <1>1, AtPlaces
<1>3. /\ r.pc = 2 /\ r.op # "cancel_order" /\ r.pc < Len(Does[r.op])
      /\ r.op \in DOMAIN CheckAt => r.pc < CheckAt[r.op]
  <2> HIDE DEF r
  <2>1. /\ r.pc = 2
        /\ r.op \in {"update_variant", "delete_variant", "submit_order", "create_pos_order"}
    BY <1>2, Places DEF Operations
  <2>2. Len(Does[r.op]) \in {3, 5}
    <3>1. CASE r.op = "update_variant"
      BY <3>1, Lengths
    <3>2. CASE r.op = "delete_variant"
      BY <3>2, Lengths
    <3>3. CASE r.op = "submit_order"
      BY <3>3, Lengths
    <3>4. CASE r.op = "create_pos_order"
      BY <3>4, Lengths
    <3> QED  BY <2>1, <3>1, <3>2, <3>3, <3>4
  <2>3. r.op \in DOMAIN CheckAt => r.pc < CheckAt[r.op]
    <3>1. CASE r.op = "update_variant"
      BY <2>1, <3>1 DEF CheckAt
    <3>2. CASE r.op \in {"delete_variant", "submit_order", "create_pos_order"}
      BY <2>1, <3>2 DEF CheckAt
    <3> QED  BY <2>1, <3>1, <3>2
  <2>4. r.op # "cancel_order"
    BY <2>1
  <2>5. r.pc < Len(Does[r.op])
    <3>1. PICK n \in {3, 5} : n = Len(Does[r.op])
      BY <2>2
    <3>2. r.pc = 2 /\ 2 < n
      BY <2>1, <3>1
    <3> QED  BY <3>1, <3>2
  <2> QED  BY <2>1, <2>3, <2>4, <2>5
<1>4. ASSUME NEW status \in {"404", "422"}, Refuse(c, status) PROVE Inv'
  BY <1>2, <1>3, <1>4, RefuseInv
<1>5. CASE r.variant # None /\ Proceed(c, [r EXCEPT !.loaded = variants[r.variant]])
  <2>1. variants[r.variant] \in Item
    BY <1>2, <1>5 DEF Inv, TypeOK, Request
  <2> QED  BY <1>2, <1>3, <1>5, <2>1, LoadInv
<1>6. CASE Proceed(c, r)
  <2>1. r.loaded \in Item \cup {None} /\ [r EXCEPT !.loaded = r.loaded] = r
    BY <1>2 DEF Request
  <2> QED  BY <1>2, <1>3, <1>6, <2>1, LoadInv
<1> QED  BY <1>4, <1>5, <1>6 DEF LoadVariant

LEMMA LoadCategoryInv == ASSUME Inv, NEW c \in Clients, LoadCategory(c) PROVE Inv'
<1> DEFINE r == request[c]
<1>1. At(c, "load_category")
  BY DEF LoadCategory
<1>2. /\ r \in Request /\ Running(c) /\ r.op \in Operations
      /\ r.pc \in 1 .. Len(Does[r.op]) /\ Does[r.op][r.pc] = "load_category" /\ Fits(r)
  BY <1>1, AtPlaces
<1>3. r.pc = 1 /\ r.op = "delete_category" /\ r.pc < Len(Does[r.op]) /\ r.op \notin DOMAIN CheckAt
  <2> HIDE DEF r
  <2>1. r.pc = 1 /\ r.op = "delete_category"
    BY <1>2, Places DEF Operations
  <2> QED  BY <2>1 DEF Does, CheckAt
<1>4. CASE Refuse(c, "404")
  BY <1>2, <1>3, <1>4, RefuseInv
<1>5. CASE Proceed(c, r)
  <2>1. r.loaded \in Item \cup {None} /\ [r EXCEPT !.loaded = r.loaded] = r
    BY <1>2 DEF Request
  <2> QED  BY <1>2, <1>3, <1>5, <2>1, LoadInv
<1> QED  BY <1>4, <1>5 DEF LoadCategory

LEMMA LookForProductInv == ASSUME Inv, NEW c \in Clients, LookForProduct(c) PROVE Inv'
<1> DEFINE r == request[c]
           row == products[r.product]
<1>1. At(c, "look_for_product")
  BY DEF LookForProduct
<1>2. /\ r \in Request /\ Running(c) /\ r.op \in Operations
      /\ r.pc \in 1 .. Len(Does[r.op]) /\ Does[r.op][r.pc] = "look_for_product" /\ Fits(r)
  BY <1>1, AtPlaces
<1>3. r.pc = 2 /\ r.op = "cancel_order" /\ r.pc < Len(Does[r.op]) /\ r.op \notin DOMAIN CheckAt
  <2> HIDE DEF r
  <2>1. r.pc = 2 /\ r.op = "cancel_order"
    BY <1>2, Places DEF Operations
  <2> QED  BY <2>1 DEF Does, CheckAt
<1>4. r.product \in Products
  BY <1>2, <1>3 DEF Fits, Inv, OrdersFit
<1>5. (IF row.row = "live" THEN row ELSE None) \in Item \cup {None}
  BY <1>4 DEF Inv, TypeOK
<1>6. Proceed(c, [r EXCEPT !.loaded = IF row.row = "live" THEN row ELSE None])
  BY DEF LookForProduct
<1> HIDE DEF row
<1> QED  BY <1>2, <1>3, <1>5, <1>6, LoadInv

\* The order's product and variant are what it gives back.
LEMMA LoadOrderInv == ASSUME Inv, NEW c \in Clients, LoadOrder(c) PROVE Inv'
<1> DEFINE r == request[c]
           o == orders[r.order]
<1>1. At(c, "load_order")
  BY DEF LoadOrder
<1>2. /\ r \in Request /\ Running(c) /\ r.op \in Operations /\ r.status = "running"
      /\ r.pc \in 1 .. Len(Does[r.op]) /\ Does[r.op][r.pc] = "load_order" /\ Fits(r)
  BY <1>1, AtPlaces
<1>3. r.pc = 1 /\ r.op = "cancel_order" /\ Len(Does[r.op]) = 3 /\ r.op \notin DOMAIN CheckAt
  <2> HIDE DEF r
  <2>1. r.pc = 1 /\ r.op = "cancel_order"
    BY <1>2, Places DEF Operations
  <2> QED  BY <2>1 DEF Does, CheckAt
<1>4. CASE Refuse(c, "422")
  BY <1>2, <1>3, <1>4, RefuseInv
<1>5. CASE Proceed(c, [r EXCEPT !.product = o.product, !.variant = o.variant])
  <2>1. r.order \in Orders /\ o.status # "new"
    BY <1>2, <1>3 DEF Fits
  <2>2. /\ o.product \in Products /\ o.variant \in Variants \cup {None}
        /\ products[o.product].row # "new"
    BY <2>1 DEF Inv, TypeOK, Order, OrdersFit
  <2>3. PICK q \in Request :
          /\ request' = [request EXCEPT ![c] = q] /\ q.op = "cancel_order"
          /\ q.product = o.product /\ q.variant = o.variant /\ q.order = r.order
          /\ q.status = "running" /\ q.pc = 2
    <3> DEFINE p == [r EXCEPT !.product = o.product, !.variant = o.variant]
               q == [p EXCEPT !.pc = @ + 1]
    <3>1. request' = [request EXCEPT ![c] = q]
      BY <1>5 DEF Proceed
    <3> HIDE DEF r, o
    <3>2. /\ p \in Request /\ p.pc = 1 /\ p.op = r.op /\ p.product = o.product
          /\ p.variant = o.variant /\ p.order = r.order /\ p.status = r.status
      BY <1>2, <1>3, <2>2 DEF Request
    <3> HIDE DEF p
    <3>3. /\ q \in Request /\ q.pc = 2 /\ q.op = p.op /\ q.product = p.product
          /\ q.variant = p.variant /\ q.order = p.order /\ q.status = p.status
      BY <3>2, NextPlace
    <3> HIDE DEF q
    <3> QED  BY <1>2, <1>3, <3>1, <3>2, <3>3
  <2>4. UNCHANGED <<products, variants, categories, orders, movements, begun, raced>>
    BY <1>5 DEF Proceed
  <2> HIDE DEF r
  <2>5. Fits(q) /\ Failed(q) /\ Inserts(q) /\ Looked(q)
    <3>1. q.op = "cancel_order" /\ Len(Does[q.op]) = 3 /\ q.op \notin DOMAIN CheckAt
      BY <1>3, <2>3
    <3>2. Fits(q)
      BY <2>1, <2>3, <3>1 DEF Fits, Sales, Unnamed, o
    <3> QED  BY <2>3, <3>1, <3>2 DEF Failed, Inserts, Looked, Sales
  <2>6. \A d \in Clients : Differ(q, request[d]) /\ Differ(request[d], q)
    BY <2>3 DEF Differ, Sales
  <2>7. begun' \in 0 .. MaxRequests
    BY <2>4 DEF Inv, TypeOK
  <2> QED  BY <2>3, <2>4, <2>5, <2>6, <2>7, OneRequest
<1> QED  BY <1>4, <1>5 DEF LoadOrder

\* The code of the request is looked for in one of the tables.
LEMMA CheckCodeInv ==
    ASSUME Inv, NEW c \in Clients, NEW step \in {"check_products", "check_variants"},
           NEW table, CheckCode(c, step, table),
           step = "check_products" => table = products,
           step = "check_variants" => table = variants
    PROVE  Inv'
<1> DEFINE r == request[c]
<1>1. At(c, step)
  BY DEF CheckCode
<1>2. /\ r \in Request /\ Running(c) /\ r.op \in Operations /\ r.status = "running"
      /\ r.pc \in 1 .. Len(Does[r.op]) /\ step = Does[r.op][r.pc] /\ Fits(r) /\ Looked(r)
      /\ r.pc \in Nat
  BY <1>1, AtPlaces
<1>3. /\ r.op \in DOMAIN CheckAt /\ CheckAt[r.op] \in Nat /\ r.op # "cancel_order"
      /\ r.pc < Len(Does[r.op])
      /\ step = "check_products" => r.pc = CheckAt[r.op]
      /\ step = "check_variants" => r.pc = CheckAt[r.op] + 1
  <2> HIDE DEF r
  <2>1. \/ r.op = "create_product" /\ r.pc = 1 /\ step = "check_products"
        \/ r.op = "create_product" /\ r.pc = 2 /\ step = "check_variants"
        \/ r.op = "update_product" /\ r.pc = 2 /\ step = "check_products"
        \/ r.op = "update_product" /\ r.pc = 3 /\ step = "check_variants"
        \/ r.op = "create_variant" /\ r.pc = 2 /\ step = "check_products"
        \/ r.op = "create_variant" /\ r.pc = 3 /\ step = "check_variants"
        \/ r.op = "update_variant" /\ r.pc = 3 /\ step = "check_products"
        \/ r.op = "update_variant" /\ r.pc = 4 /\ step = "check_variants"
    BY <1>2, Places DEF Operations
  <2>2. CASE r.op = "create_product"
    BY <2>1, <2>2, Lengths DEF CheckAt
  <2>3. CASE r.op = "update_product"
    BY <2>1, <2>3, Lengths DEF CheckAt
  <2>4. CASE r.op = "create_variant"
    BY <2>1, <2>4, Lengths DEF CheckAt
  <2>5. CASE r.op = "update_variant"
    BY <2>1, <2>5, Lengths DEF CheckAt
  <2> QED  BY <2>1, <2>2, <2>3, <2>4, <2>5
<1>4. CASE Refuse(c, "409")
  BY <1>2, <1>3, <1>4, RefuseInv
<1>5. CASE /\ ~ (r.code # None /\ Holders(table, r) # {})
           /\ Proceed(c, [r EXCEPT !.missed = @ \ DOMAIN table])
  <2>1. PICK q \in Request :
          /\ request' = [request EXCEPT ![c] = q] /\ q.op = r.op
          /\ q.product = r.product /\ q.variant = r.variant /\ q.order = r.order
          /\ q.status = "running" /\ q.pc = r.pc + 1 /\ q.code = r.code
          /\ q.missed = r.missed \ DOMAIN table
    <3> DEFINE p == [r EXCEPT !.missed = @ \ DOMAIN table]
               q == [p EXCEPT !.pc = @ + 1]
    <3>1. request' = [request EXCEPT ![c] = q]
      BY <1>5 DEF Proceed
    <3> HIDE DEF r
    <3>2. /\ p \in Request /\ p.pc = r.pc /\ p.op = r.op /\ p.product = r.product
          /\ p.variant = r.variant /\ p.order = r.order /\ p.status = r.status
          /\ p.code = r.code /\ p.missed = r.missed \ DOMAIN table
      BY <1>2 DEF Request
    <3> HIDE DEF p
    <3>3. /\ q \in Request /\ q.pc = p.pc + 1 /\ q.op = p.op /\ q.product = p.product
          /\ q.variant = p.variant /\ q.order = p.order /\ q.status = p.status
          /\ q.code = p.code /\ q.missed = p.missed
      BY <3>2, NextPlace
    <3> HIDE DEF q
    <3> QED  BY <1>2, <3>1, <3>2, <3>3
  <2>2. UNCHANGED <<products, variants, categories, orders, movements, begun, raced>>
    BY <1>5 DEF Proceed
  <2>3. DOMAIN products = Products /\ DOMAIN variants = Variants
    BY DEF Inv, TypeOK
  <2>4. r.code # None => \A i \in Live(table) \ {Itself(r)} : table[i].code # r.code
    BY <1>5 DEF Holders
  <2>5. Itself(q) = Itself(r)
    BY <2>1 DEF Itself
  <2>6. CASE step = "check_products"
    <3>1. table = products /\ r.pc = CheckAt[r.op]
      BY <1>3, <2>6
    <3> HIDE DEF r
    <3>2. ~ (q.pc > CheckAt[q.op] + 1)
      BY <1>3, <2>1, <3>1
    <3> QED  BY <1>2, <1>3, <2>1, <2>2, <2>4, <2>5, <3>1, <3>2, ProceedInv DEF Looked, r
  <2>7. CASE step = "check_variants"
    <3>1. table = variants /\ r.pc = CheckAt[r.op] + 1
      BY <1>3, <2>7
    <3>2. r.code # None => \A i \in Live(products) \ {Itself(r)} :
                             products[i].code = r.code => i \in r.missed
      BY <1>2, <1>3, <3>1 DEF Looked
    <3>3. \A i \in Live(products) : i \notin DOMAIN table
      BY <2>3, <3>1, Apart DEF Live
    <3>4. Looked(q)
      BY <2>1, <2>4, <2>5, <3>1, <3>2, <3>3 DEF Looked
    <3> QED  BY <1>2, <1>3, <2>1, <2>2, <3>4, ProceedInv
  <2> QED  BY <2>6, <2>7
<1> QED  BY <1>4, <1>5 DEF CheckCode

-----------------------------------------------------------------------------
(* Writes.                                                                   *)

\* What a write of the request does to the rows: it inserts what it has the ids
\* of, it deletes, and it changes the codes of no other items.
Writes(r, items) ==
    /\ products' \in [Products -> Item] /\ variants' \in [Variants -> Item]
    /\ categories' \subseteq Categories /\ orders' \in [Orders -> Order]
    /\ \A p \in Products :
         /\ products[p].row # "new" => products'[p].row # "new"
         /\ products[p].row = "new" /\ products'[p].row # "new" =>
              r.op = "create_product" /\ p = r.product
         /\ products[p].row = "gone" => products'[p].row = "gone"
         /\ products'[p].row = "live" /\ p \notin items =>
              products[p].row = "live" /\ products'[p].code = products[p].code
    /\ \A v \in Variants :
         /\ variants[v].row # "new" =>
              variants'[v].row # "new" /\ variants'[v].product = variants[v].product
         /\ variants[v].row = "new" /\ variants'[v].row # "new" =>
              r.op = "create_variant" /\ v = r.variant
         /\ variants'[v].row = "new" => variants'[v].product = variants[v].product
         /\ variants[v].row = "gone" => variants'[v].row = "gone"
         /\ variants'[v].row = "live" /\ v \notin items =>
              variants[v].row = "live" /\ variants'[v].code = variants[v].code
    /\ \A o \in Orders :
         /\ orders[o].status # "new" =>
              /\ orders'[o].status # "new" /\ orders'[o].product = orders[o].product
              /\ orders'[o].variant = orders[o].variant
         /\ orders[o].status = "new" /\ orders'[o].status # "new" =>
              /\ r.op \in Sales /\ o = r.order
              /\ orders'[o].product = r.product /\ orders'[o].variant = r.variant

\* What is as it was when the request asked for it still is.
LEMMA FitsKept ==
    ASSUME Inv, NEW r, NEW items, Writes(r, items),
           NEW p \in Request, Fits(p), Failed(p),
           NEW q \in Request, q.op = p.op, q.product = p.product, q.variant = p.variant,
           q.order = p.order, q.pc = p.pc, q.status = p.status \/ q.status = "ok"
    PROVE  Fits(q)' /\ Failed(q)'
<1>1. \A v \in Variants : variants[v].product \in Products =>
        variants[v].row # "new" /\ variants'[v].product = variants[v].product
  BY Apart DEF Inv, NewVariants, Writes
<1>2. \A i \in Products : products[i].row # "new" => products'[i].row # "new"
  BY DEF Writes
<1>3. \A o \in Orders : orders[o].status # "new" =>
        /\ orders'[o].status # "new" /\ orders'[o].product = orders[o].product
        /\ orders'[o].variant = orders[o].variant
  BY DEF Writes
<1>4. p.op \in Operations /\ p.variant \in Variants \cup {None}
  BY DEF Request
<1>5. p.op \notin Unnamed => p.product \in Products
  BY <1>4 DEF Fits, Operations, Sales, Unnamed
<1>6. Fits(q)'
  BY <1>1, <1>2, <1>3, <1>4, <1>5 DEF Fits, Sales
<1>7. Failed(q)'
  <2> SUFFICES ASSUME q.op = "cancel_order", q.status = "error"
               PROVE  q.pc >= 2 /\ ~ Recordable(q)'
    BY DEF Failed
  <2>1. p.op = "cancel_order" /\ p.pc >= 2 /\ ~ Recordable(p)
    BY DEF Failed
  <2>2. /\ p.product \in Products /\ products[p.product].row # "new"
        /\ p.variant # None => variants[p.variant].product = p.product
    BY <2>1 DEF Fits, Inv, OrdersFit
  <2>3. \A i \in Products : products[i].row \notin {"live", "new"} => products'[i].row = "gone"
    BY DEF Writes, Inv, TypeOK, Item
  <2>4. \A v \in Variants : variants[v].row \notin {"live", "new"} => variants'[v].row = "gone"
    BY DEF Writes, Inv, TypeOK, Item
  <2> QED  BY <1>1, <1>4, <2>1, <2>2, <2>3, <2>4 DEF Recordable, Present
<1> QED  BY <1>6, <1>7

LEMMA WriteInv ==
    ASSUME Inv, NEW c \in Clients, Running(c), NEW items \in SUBSET (Products \cup Variants),
           Done(c, items), Writes(request[c], items),
           movements' \subseteq Movement, begun' = begun,
           OrdersFit', MovementsFit', LedgerKeepsItsItems', CodesAreSharedOnlyInARace'
    PROVE  Inv'
<1> DEFINE r == request[c]
<1>1. r \in Request /\ r # None
  BY DEF Running, Inv, TypeOK
<1>2. \A d \in Clients : request[d] \in Request \cup {None}
  BY DEF Inv, TypeOK
<1>3. /\ request'[c] \in Request /\ request'[c].status = "ok"
      /\ request'[c].op = r.op /\ request'[c].product = r.product
      /\ request'[c].variant = r.variant /\ request'[c].order = r.order
      /\ request'[c].pc = r.pc
  BY <1>1, EndedRequest DEF Done, Same
<1>4. ASSUME NEW d \in Clients, d # c, Running(d)
      PROVE  LET p == request[d]
                 q == request'[d] IN
             /\ q \in Request /\ q.op = p.op /\ q.product = p.product /\ q.variant = p.variant
             /\ q.order = p.order /\ q.pc = p.pc /\ q.status = p.status /\ q.code = p.code
             /\ q.missed = p.missed \cup items
  <2>1. request[d] \in Request
    BY <1>2, <1>4 DEF Running
  <2>2. request'[d] = [request[d] EXCEPT !.missed = @ \cup items]
    BY <1>4 DEF Done
  <2> QED  BY <2>1, <2>2 DEF Request
<1>5. \A d \in Clients : d # c /\ ~ Running(d) => request'[d] = request[d]
  BY DEF Done
<1>6. TypeOK'
  <2>1. request' \in [Clients -> Request \cup {None}]
    <3>1. \A d \in Clients : request'[d] \in Request \cup {None}
      BY <1>2, <1>3, <1>4, <1>5
    <3>2. request' = [d \in Clients |-> request'[d]]
      BY DEF Done
    <3> HIDE DEF r
    <3> QED  BY <3>1, <3>2
  <2> QED  BY <2>1 DEF TypeOK, Writes, Inv
<1>7. \A d \in Clients : (Running(d))' => d # c /\ Running(d)
  BY <1>3, <1>5 DEF Running
<1>8. RequestsFit'
  <2> SUFFICES ASSUME NEW d \in Clients, request'[d] # None
               PROVE  /\ Fits(request[d])' /\ Failed(request[d])'
                      /\ (Running(d))' => Inserts(request[d])' /\ Looked(request[d])'
    BY DEF RequestsFit
  <2> PICK p, q : p = request[d] /\ q = request'[d]
    OBVIOUS
  <2>1. p \in Request /\ p # None /\ q \in Request
    BY <1>1, <1>2, <1>3, <1>4, <1>5, Apart DEF Running
  <2>2. Fits(p) /\ Failed(p)
    BY <2>1 DEF Inv, RequestsFit
  <2>3. /\ q.op = p.op /\ q.product = p.product /\ q.variant = p.variant
        /\ q.order = p.order /\ q.pc = p.pc /\ (q.status = p.status \/ q.status = "ok")
    BY <1>3, <1>4, <1>5
  <2>4. Fits(request[d])' /\ Failed(request[d])'
    <3>1. Fits(q)' /\ Failed(q)'
      BY <2>1, <2>2, <2>3, FitsKept
    <3> QED  BY <3>1 DEF Fits, Failed, Recordable, Present
  <2>5. ASSUME (Running(d))' PROVE Inserts(request[d])' /\ Looked(request[d])'
    <3>1. d # c /\ Running(d)
      BY <1>7, <2>5
    <3>2. /\ Inserts(p) /\ Looked(p) /\ q.code = p.code /\ q.missed = p.missed \cup items
      BY <1>4, <2>1, <3>1 DEF Inv, RequestsFit
    <3>3. Differ(p, r) /\ Differ(r, p)
      BY <3>1 DEF Inv, InsertsDiffer, Differ
    <3>4. q.op \in Operations /\ p.op = q.op
      BY <2>1, <2>3 DEF Request
    <3> HIDE DEF r
    <3>5. Inserts(q)'
      <4>1. q.op = "create_product" => products'[q.product].row = "new"
        <5> SUFFICES ASSUME q.op = "create_product" PROVE products'[q.product].row = "new"
          OBVIOUS
        <5>1. q.product \in Products /\ products[q.product].row = "new"
          BY <2>2, <2>3, <3>2 DEF Fits, Inserts
        <5> QED  BY <2>3, <3>3, <5>1 DEF Writes, Differ, r
      <4>2. q.op = "create_variant" => variants'[q.variant].row = "new"
        <5> SUFFICES ASSUME q.op = "create_variant" PROVE variants'[q.variant].row = "new"
          OBVIOUS
        <5>1. q.variant \in Variants /\ variants[q.variant].row = "new"
          BY <2>2, <2>3, <3>2 DEF Fits, Inserts
        <5> QED  BY <2>3, <3>3, <5>1 DEF Writes, Differ, r
      <4>3. q.op \in Sales => orders'[q.order].status = "new"
        <5> SUFFICES ASSUME q.op \in Sales PROVE orders'[q.order].status = "new"
          OBVIOUS
        <5>1. q.order \in Orders /\ orders[q.order].status = "new"
          BY <2>2, <2>3, <3>2 DEF Fits, Inserts
        <5> QED  BY <2>3, <3>3, <5>1 DEF Writes, Differ, r
      <4> QED  BY <4>1, <4>2, <4>3 DEF Inserts
    <3>6. Looked(q)'
      <4>1. DOMAIN products = Products /\ DOMAIN variants = Variants
        BY DEF Inv, TypeOK
      <4>2. DOMAIN products' = Products /\ DOMAIN variants' = Variants
        BY DEF Writes
      <4>3. \A i \in Live(products)' \ items :
              i \in Live(products) /\ products'[i].code = products[i].code
        BY <4>1, <4>2 DEF Live, Writes
      <4>4. \A i \in Live(variants)' \ items :
              i \in Live(variants) /\ variants'[i].code = variants[i].code
        BY <4>1, <4>2 DEF Live, Writes
      <4>5. Itself(q) = Itself(p)
        BY <2>3 DEF Itself
      <4> HIDE DEF CheckAt
      <4> QED  BY <2>3, <3>2, <4>3, <4>4, <4>5 DEF Looked
    <3>7. Inserts(request[d])' /\ Looked(request[d])'
      BY <3>5, <3>6 DEF Inserts, Looked, Itself, Live
    <3> QED  BY <3>7
  <2> QED  BY <2>4, <2>5
<1>9. InsertsDiffer'
  <2> SUFFICES ASSUME NEW d \in Clients, NEW e \in Clients, (Running(d))', (Running(e))', d # e
               PROVE  Differ(request'[d], request'[e])
    BY DEF InsertsDiffer, Differ
  <2>1. d # c /\ Running(d) /\ e # c /\ Running(e)
    BY <1>7
  <2>2. Differ(request[d], request[e])
    BY <2>1 DEF Inv, InsertsDiffer, Differ
  <2> QED  BY <1>4, <2>1, <2>2 DEF Differ
<1>10. NewVariants'
  <2> SUFFICES ASSUME NEW v \in Variants, variants'[v].row = "new"
               PROVE  variants'[v].product = None
    BY DEF NewVariants
  <2> QED  BY DEF Inv, NewVariants, Writes
<1> QED  BY <1>6, <1>8, <1>9, <1>10 DEF Inv

\* A request begins.
LEMMA BeginInv == ASSUME Inv, NEW c \in Clients, Begin(c) PROVE Inv'
<1>1. PICK a \in Asked : /\ Sensible(a)
        /\ request' = [request EXCEPT ![c] =
             [op |-> a.op, product |-> a.product, variant |-> a.variant, code |-> a.code,
              order |-> a.order, category |-> a.category, pc |-> 1, body |-> None,
              loaded |-> None, missed |-> {}, status |-> "running"]]
  BY DEF Begin
<1>2. PICK q : /\ request' = [request EXCEPT ![c] = q]
               /\ q = [op |-> a.op, product |-> a.product, variant |-> a.variant,
                       code |-> a.code, order |-> a.order, category |-> a.category, pc |-> 1,
                       body |-> None, loaded |-> None, missed |-> {}, status |-> "running"]
  BY <1>1
<1>3. /\ q.op = a.op /\ q.product = a.product /\ q.variant = a.variant /\ q.code = a.code
      /\ q.order = a.order /\ q.pc = 1 /\ q.status = "running"
  BY <1>2
<1>4. /\ a.op \in Operations /\ a.product \in Products \cup {None}
      /\ a.variant \in Variants \cup {None} /\ a.code \in Codes \cup {None}
      /\ a.order \in Orders \cup {None} /\ a.category \in Categories \cup {None}
      /\ a.op \in {"create_product", "update_product", "delete_product", "restock_product"} =>
           a.product \in Products /\ a.variant = None
      /\ a.op \in {"create_variant", "update_variant", "delete_variant"} =>
           a.product \in Products /\ a.variant \in Variants
      /\ a.op \in Sales => a.product \in Products /\ a.order \in Orders
      /\ a.op = "cancel_order" => a.order \in Orders
  BY DEF Asked, Asks, Operations, Sales
<1>5. q \in Request
  BY <1>2, <1>4 DEF Request
<1>6. /\ a.op \in Sales => orders[a.order].status = "new"
      /\ a.op = "cancel_order" => orders[a.order].status # "new"
      /\ a.product # None /\ a.op = "create_product" => products[a.product].row = "new"
      /\ a.product # None /\ a.op # "create_product" => products[a.product].row # "new"
      /\ a.variant # None /\ a.op = "create_variant" => variants[a.variant].row = "new"
      /\ a.variant # None /\ a.op # "create_variant" => variants[a.variant].product = a.product
  BY <1>1 DEF Sensible
<1>7. \A d \in Clients : Running(d) =>
        /\ a.op \in Sales => request[d].order # a.order
        /\ a.product # None /\ a.op = "create_product" => request[d].product # a.product
        /\ a.variant # None /\ a.op = "create_variant" => request[d].variant # a.variant
  BY <1>1 DEF Sensible
<1>8. q.pc \in 1 .. Len(Does[q.op])
  <2>1. \A op \in Operations : Len(Does[op]) \in {1, 2, 3, 4, 5}
    <3>1. \A op \in {"create_product", "delete_variant", "submit_order", "create_pos_order",
                     "cancel_order"} : Len(Does[op]) = 3
      BY Lengths
    <3>2. \A op \in {"update_product", "create_variant"} : Len(Does[op]) = 4
      BY Lengths
    <3>3. \A op \in {"delete_product", "restock_product", "delete_category"} : Len(Does[op]) = 2
      BY Lengths
    <3> QED  BY <3>1, <3>2, <3>3, Lengths DEF Operations
  <2>2. PICK n \in {1, 2, 3, 4, 5} : n = Len(Does[q.op])
    <3>1. q.op \in Operations
      BY <1>3, <1>4
    <3>2. Len(Does[q.op]) \in {1, 2, 3, 4, 5}
      BY <2>1, <3>1
    <3> QED  BY <3>2
  <2>3. n \in Nat /\ 1 <= n
    <3>1. \A m \in {1, 2, 3, 4, 5} : m \in Nat /\ 1 <= m
      OBVIOUS
    <3> QED  BY <2>2, <3>1
  <2> QED  BY <1>3, <2>2, <2>3
<1>9. Fits(q)
  BY <1>3, <1>4, <1>6, <1>8, Apart DEF Fits, Operations, Sales, Unnamed
<1>10. Failed(q) /\ Inserts(q)
  BY <1>3, <1>4, <1>6, Apart DEF Failed, Inserts
<1>11. Looked(q)
  <2>1. \A op \in DOMAIN CheckAt : CheckAt[op] \in Nat /\ CheckAt[op] >= 1
    BY DEF CheckAt
  <2> QED  BY <1>3, <2>1 DEF Looked
<1>12. \A d \in Clients : Running(d) /\ d # c => Differ(q, request[d]) /\ Differ(request[d], q)
  BY <1>3, <1>4, <1>7, Apart DEF Differ
<1>13. /\ begun' \in 0 .. MaxRequests
       /\ UNCHANGED <<products, variants, categories, orders, movements, raced>>
  BY Apart DEF Begin, Inv, TypeOK
<1> QED  BY <1>2, <1>5, <1>9, <1>10, <1>11, <1>12, <1>13, OneRequest

\* What a create or an edit sends, and what of it is written.
LEMMA SentBody ==
    ASSUME NEW r \in Request, NEW b \in Sent(r)
    PROVE  /\ b \in Body
           /\ r.op \notin Edits => b.code = r.code /\ (Written(r, b).code <=> r.code # None)
           /\ r.op \in Edits =>
                /\ Written(r, b).code <=> b.code # r.loaded.code
                /\ Written(r, b).code => b.code = r.code
BY DEF Sent, Written

LEMMA SavedItem ==
    ASSUME NEW r \in Request, NEW b \in Body, NEW row \in Item
    PROVE  /\ Saved(r, b, row) \in Item
           /\ Saved(r, b, row).row = row.row /\ Saved(r, b, row).product = row.product
           /\ Saved(r, b, row).code = IF Written(r, b).code THEN b.code ELSE row.code
<1> DEFINE code == IF Written(r, b).code THEN b.code ELSE row.code
           name == IF Written(r, b).name THEN b.name ELSE row.name
           category == IF Written(r, b).category THEN b.category ELSE row.category
<1>1. Saved(r, b, row) = [row EXCEPT !.code = code, !.name = name, !.category = category]
  BY DEF Saved
<1>2. code \in Codes \cup {None} /\ name \in Names \cup {None}
      /\ category \in Categories \cup {None}
  BY DEF Body, Item
<1> HIDE DEF name, category, code
<1>3. /\ Saved(r, b, row) \in Item
      /\ Saved(r, b, row).row = row.row /\ Saved(r, b, row).product = row.product
      /\ Saved(r, b, row).code = code
  BY <1>1, <1>2 DEF Item
<1> QED  BY <1>3 DEF code

\* A write that leaves alone which items there are and their codes.
LEMMA KeptInv ==
    ASSUME Inv, NEW c \in Clients, Running(c), Done(c, {}),
           products' \in [Products -> Item], variants' \in [Variants -> Item],
           \A p \in Products : products'[p].row = products[p].row
                               /\ products'[p].code = products[p].code,
           \A v \in Variants : /\ variants'[v].row = variants[v].row
                               /\ variants'[v].code = variants[v].code
                               /\ variants'[v].product = variants[v].product,
           categories' \subseteq Categories, UNCHANGED <<orders, movements, begun, raced>>
    PROVE  Inv'
<1>1. products \in [Products -> Item] /\ variants \in [Variants -> Item]
  BY DEF Inv, TypeOK
<1>2. /\ Live(products)' = Live(products) /\ Live(variants)' = Live(variants)
      /\ Live(products) \subseteq Products /\ Live(variants) \subseteq Variants
  BY <1>1 DEF Live
<1>3. Writes(request[c], {})
  BY <1>1 DEF Writes, Inv, TypeOK
<1>4. OrdersFit'
  <2>1. \A o \in Orders : orders[o].variant \in Variants \cup {None}
    BY DEF Inv, TypeOK, Order
  <2> QED  BY <2>1 DEF Inv, OrdersFit
<1>5. MovementsFit'
  BY DEF Inv, MovementsFit
<1>6. LedgerKeepsItsItems'
  BY <1>2 DEF Inv, LedgerKeepsItsItems
<1>7. CodesAreSharedOnlyInARace'
  <2>1. \A i, j \in Live(products)' :
          products'[i].code = products'[j].code /\ products'[i].code # None => i = j
    BY <1>2 DEF Inv, CodesAreSharedOnlyInARace
  <2>2. \A i, j \in Live(variants)' :
          variants'[i].code = variants'[j].code /\ variants'[i].code # None => i = j
    BY <1>2 DEF Inv, CodesAreSharedOnlyInARace
  <2>3. \A p \in Live(products)', v \in Live(variants)' :
          products'[p].code = variants'[v].code /\ products'[p].code # None => {p, v} \in raced'
    BY <1>2 DEF Inv, CodesAreSharedOnlyInARace
  <2> QED  BY <2>1, <2>2, <2>3 DEF CodesAreSharedOnlyInARace, Live
<1>8. movements' \subseteq Movement /\ begun' = begun
  BY DEF Inv, TypeOK
<1> QED  BY <1>3, <1>4, <1>5, <1>6, <1>7, <1>8, WriteInv

\* A new product: its code is of no other but those that took it meanwhile.
LEMMA InsertProductInv == ASSUME Inv, NEW c \in Clients, InsertProduct(c) PROVE Inv'
<1> PICK r : r = request[c]
  OBVIOUS
<1>1. At(c, "insert_product")
  BY DEF InsertProduct
<1>2. /\ r \in Request /\ Running(c) /\ r.op \in Operations
      /\ r.pc \in 1 .. Len(Does[r.op]) /\ Does[r.op][r.pc] = "insert_product"
      /\ Fits(r) /\ Inserts(r) /\ Looked(r)
  BY <1>1, AtPlaces
<1>3. r.pc = 3 /\ r.op = "create_product"
  BY <1>2, Places DEF Operations
<1> PICK b \in Sent(r) :
       \/ Conflict(c, b)
       \/ /\ ~ Violates(r, b, products)
          /\ products' = [products EXCEPT ![r.product] =
                 [row |-> "live", code |-> r.code, product |-> None, name |-> b.name,
                  category |-> b.category]]
          /\ Took(c, r.product) /\ UNCHANGED variants
  BY DEF InsertProduct
<1>b. b \in Body /\ b.name \in Names \cup {None} /\ b.category \in Categories \cup {None}
      /\ (Written(r, b).code <=> r.code # None)
  BY <1>2, <1>3, SentBody DEF Body, Edits
<1>4. CASE Conflict(c, b)
  BY <1>2, <1>b, <1>4, ConflictInv
<1>5. CASE /\ ~ Violates(r, b, products)
           /\ products' = [products EXCEPT ![r.product] =
                  [row |-> "live", code |-> r.code, product |-> None, name |-> b.name,
                   category |-> b.category]]
           /\ Took(c, r.product) /\ UNCHANGED variants
  <2>1. /\ Done(c, {r.product}) /\ UNCHANGED <<categories, orders, movements, begun>>
        /\ raced' = raced \cup {{r.product, other} : other \in r.missed}
    BY <1>5 DEF Took
  <2>2. /\ r.product \in Products /\ r.variant = None /\ products[r.product].row = "new"
        /\ Itself(r) = r.product /\ r.code \in Codes \cup {None}
    BY <1>2, <1>3 DEF Fits, Inserts, Itself, Request
  <2>3. /\ products' \in [Products -> Item] /\ variants' \in [Variants -> Item]
        /\ orders' \in [Orders -> Order] /\ movements' \subseteq Movement
        /\ products'[r.product].row = "live" /\ products'[r.product].code = r.code
        /\ \A p \in Products : p # r.product => products'[p] = products[p]
    BY <1>b, <1>5, <2>1, <2>2 DEF Inv, TypeOK, Item
  <2>4. Writes(r, {r.product})
    BY <1>3, <1>5, <2>1, <2>2, <2>3 DEF Writes, Inv, TypeOK
  <2>5. /\ Live(products)' = Live(products) \cup {r.product} /\ Live(variants)' = Live(variants)
        /\ Live(products) \subseteq Products /\ Live(variants) \subseteq Variants
        /\ r.product \notin Live(products)
    BY <1>5, <2>2, <2>3 DEF Live, Inv, TypeOK
  <2>6. OrdersFit'
    BY <1>5, <2>1, <2>2, <2>3 DEF Inv, OrdersFit
  <2>7. MovementsFit' /\ LedgerKeepsItsItems'
    BY <1>5, <2>1, <2>5 DEF Inv, MovementsFit, LedgerKeepsItsItems
  <2>8. r.code # None =>
          /\ \A p \in Live(products) : products[p].code # r.code
          /\ \A v \in Live(variants) : variants[v].code = r.code => v \in r.missed
    <3>1. r.op \in DOMAIN CheckAt /\ CheckAt[r.op] = 1
      BY <1>3 DEF CheckAt
    <3>2. r.code # None => \A v \in Live(variants) \ {Itself(r)} :
                             variants[v].code = r.code => v \in r.missed
      BY <1>2, <1>3, <3>1 DEF Looked
    <3>3. r.product \notin Live(variants)
      BY <2>2, <2>5, Apart
    <3> QED  BY <1>b, <1>5, <2>2, <2>5, <3>2, <3>3 DEF Violates, Holders
  <2>9. CodesAreSharedOnlyInARace'
    <3>1. \A i, j \in Live(products)' :
            products'[i].code = products'[j].code /\ products'[i].code # None => i = j
      BY <2>3, <2>5, <2>8 DEF Inv, CodesAreSharedOnlyInARace
    <3>2. \A i, j \in Live(variants)' :
            variants'[i].code = variants'[j].code /\ variants'[i].code # None => i = j
      BY <1>5, <2>5 DEF Inv, CodesAreSharedOnlyInARace
    <3>3. \A p \in Live(products)', v \in Live(variants)' :
            products'[p].code = variants'[v].code /\ products'[p].code # None => {p, v} \in raced'
      <4> SUFFICES ASSUME NEW p \in Live(products)', NEW v \in Live(variants)',
                          products'[p].code = variants'[v].code, products'[p].code # None
                   PROVE  {p, v} \in raced'
        OBVIOUS
      <4>1. CASE p = r.product
        <5>1. v \in r.missed
          BY <1>5, <2>3, <2>5, <2>8, <4>1
        <5> QED  BY <2>1, <4>1, <5>1
      <4>2. CASE p # r.product
        <5>1. {p, v} \in raced
          BY <1>5, <2>3, <2>5, <4>2 DEF Inv, CodesAreSharedOnlyInARace
        <5> QED  BY <2>1, <5>1
      <4> QED  BY <4>1, <4>2
    <3> QED  BY <3>1, <3>2, <3>3 DEF CodesAreSharedOnlyInARace, Live
  <2>10. {r.product} \in SUBSET (Products \cup Variants) /\ begun' = begun
    BY <2>1, <2>2
  <2> QED  BY <1>2, <2>1, <2>3, <2>4, <2>6, <2>7, <2>9, <2>10, WriteInv
<1> QED  BY <1>4, <1>5

\* A new variant of a product that is there.
LEMMA InsertVariantInv == ASSUME Inv, NEW c \in Clients, InsertVariant(c) PROVE Inv'
<1> PICK r : r = request[c]
  OBVIOUS
<1>1. At(c, "insert_variant")
  BY DEF InsertVariant
<1>2. /\ r \in Request /\ Running(c) /\ r.op \in Operations
      /\ r.pc \in 1 .. Len(Does[r.op]) /\ Does[r.op][r.pc] = "insert_variant"
      /\ Fits(r) /\ Inserts(r) /\ Looked(r)
  BY <1>1, AtPlaces
<1>3. r.pc = 4 /\ r.op = "create_variant"
  BY <1>2, Places DEF Operations
<1> PICK b \in Sent(r) :
       \/ Conflict(c, b)
       \/ /\ ~ Violates(r, b, variants)
          /\ variants' = [variants EXCEPT ![r.variant] =
                 [row |-> "live", code |-> r.code, product |-> r.product, name |-> None,
                  category |-> None]]
          /\ Took(c, r.variant) /\ UNCHANGED products
  BY DEF InsertVariant
<1>b. b \in Body /\ (Written(r, b).code <=> r.code # None)
  BY <1>2, <1>3, SentBody DEF Edits
<1>4. CASE Conflict(c, b)
  BY <1>2, <1>b, <1>4, ConflictInv
<1>5. CASE /\ ~ Violates(r, b, variants)
           /\ variants' = [variants EXCEPT ![r.variant] =
                  [row |-> "live", code |-> r.code, product |-> r.product, name |-> None,
                   category |-> None]]
           /\ Took(c, r.variant) /\ UNCHANGED products
  <2>0. products[r.product].row = "live"
    BY <1>3, <1>5 DEF Violates
  <2>1. /\ Done(c, {r.variant}) /\ UNCHANGED <<categories, orders, movements, begun>>
        /\ raced' = raced \cup {{r.variant, other} : other \in r.missed}
    BY <1>5 DEF Took
  <2>2. /\ r.product \in Products /\ r.variant \in Variants /\ variants[r.variant].row = "new"
        /\ Itself(r) = r.variant /\ r.code \in Codes \cup {None}
    BY <1>2, <1>3, Apart DEF Fits, Inserts, Itself, Request
  <2>3. /\ products' \in [Products -> Item] /\ variants' \in [Variants -> Item]
        /\ orders' \in [Orders -> Order] /\ movements' \subseteq Movement
        /\ variants'[r.variant].row = "live" /\ variants'[r.variant].code = r.code
        /\ variants'[r.variant].product = r.product
        /\ \A v \in Variants : v # r.variant => variants'[v] = variants[v]
    BY <1>5, <2>1, <2>2 DEF Inv, TypeOK, Item
  <2>4. Writes(r, {r.variant})
    BY <1>3, <1>5, <2>1, <2>2, <2>3 DEF Writes, Inv, TypeOK
  <2>5. /\ Live(variants)' = Live(variants) \cup {r.variant} /\ Live(products)' = Live(products)
        /\ Live(products) \subseteq Products /\ Live(variants) \subseteq Variants
        /\ r.variant \notin Live(variants) /\ r.product \in Live(products)
    BY <1>5, <2>0, <2>2, <2>3 DEF Live, Inv, TypeOK
  <2>6. OrdersFit'
    <3>1. \A o \in Orders : orders[o].variant \in Variants \cup {None}
      BY DEF Inv, TypeOK, Order
    <3>2. variants[r.variant].product = None
      BY <2>2 DEF Inv, NewVariants
    <3> QED  BY <1>5, <2>1, <2>3, <3>1, <3>2, Apart DEF Inv, OrdersFit
  <2>7. MovementsFit'
    BY <2>1 DEF Inv, MovementsFit
  <2>8. LedgerKeepsItsItems'
    <3>1. \A v \in Live(variants)' : variants'[v].product \in Live(products)
      BY <2>3, <2>5 DEF Inv, LedgerKeepsItsItems
    <3>2. \A x \in movements : x.product \in Live(products)
                                /\ x.variant \in Live(variants) \cup {None}
      BY DEF Inv, LedgerKeepsItsItems
    <3> QED  BY <2>1, <2>5, <3>1, <3>2 DEF LedgerKeepsItsItems
  <2>9. r.code # None =>
          /\ \A v \in Live(variants) : variants[v].code # r.code
          /\ \A p \in Live(products) : products[p].code = r.code => p \in r.missed
    <3>1. r.op \in DOMAIN CheckAt /\ CheckAt[r.op] = 2
      BY <1>3 DEF CheckAt
    <3>2. r.code # None => \A p \in Live(products) \ {Itself(r)} :
                             products[p].code = r.code => p \in r.missed
      BY <1>2, <1>3, <3>1 DEF Looked
    <3>3. r.variant \notin Live(products)
      BY <2>2, <2>5, Apart
    <3> QED  BY <1>b, <1>5, <2>2, <2>5, <3>2, <3>3 DEF Violates, Holders
  <2>10. CodesAreSharedOnlyInARace'
    <3>1. \A i, j \in Live(variants)' :
            variants'[i].code = variants'[j].code /\ variants'[i].code # None => i = j
      BY <2>3, <2>5, <2>9 DEF Inv, CodesAreSharedOnlyInARace
    <3>2. \A i, j \in Live(products)' :
            products'[i].code = products'[j].code /\ products'[i].code # None => i = j
      BY <1>5, <2>5 DEF Inv, CodesAreSharedOnlyInARace
    <3>3. \A p \in Live(products)', v \in Live(variants)' :
            products'[p].code = variants'[v].code /\ products'[p].code # None => {p, v} \in raced'
      <4> SUFFICES ASSUME NEW p \in Live(products)', NEW v \in Live(variants)',
                          products'[p].code = variants'[v].code, products'[p].code # None
                   PROVE  {p, v} \in raced'
        OBVIOUS
      <4>1. CASE v = r.variant
        <5>1. p \in r.missed
          BY <1>5, <2>3, <2>5, <2>9, <4>1
        <5>2. {p, v} = {r.variant, p}
          BY <4>1
        <5> QED  BY <2>1, <5>1, <5>2
      <4>2. CASE v # r.variant
        <5>1. {p, v} \in raced
          BY <1>5, <2>3, <2>5, <4>2 DEF Inv, CodesAreSharedOnlyInARace
        <5> QED  BY <2>1, <5>1
      <4> QED  BY <4>1, <4>2
    <3> QED  BY <3>1, <3>2, <3>3 DEF CodesAreSharedOnlyInARace, Live
  <2>11. {r.variant} \in SUBSET (Products \cup Variants) /\ begun' = begun
    BY <2>1, <2>2
  <2> QED  BY <1>2, <2>1, <2>3, <2>4, <2>6, <2>7, <2>8, <2>10, <2>11, WriteInv
<1> QED  BY <1>4, <1>5

LEMMA UnsavedInv ==
    ASSUME Inv, NEW c \in Clients, Running(c), request[c].op # "cancel_order",
           NEW table, NEW b \in Body, Unsaved(c, b, table)
    PROVE  Inv'
<1>1. CASE Refuse(c, "error")
  BY <1>1, RefuseInv
<1>2. CASE Conflict(c, b)
  BY <1>2, ConflictInv
<1> QED  BY <1>1, <1>2 DEF Unsaved

\* An item takes the code it did not have before.
LEMMA SaveProductInv == ASSUME Inv, NEW c \in Clients, SaveProduct(c) PROVE Inv'
<1> PICK r : r = request[c]
  OBVIOUS
<1>1. At(c, "save_product")
  BY DEF SaveProduct
<1>2. /\ r \in Request /\ Running(c) /\ r.op \in Operations
      /\ r.pc \in 1 .. Len(Does[r.op]) /\ Does[r.op][r.pc] = "save_product"
      /\ Fits(r) /\ Inserts(r) /\ Looked(r)
  BY <1>1, AtPlaces
<1>3. r.pc = 4 /\ r.op = "update_product"
  BY <1>2, Places DEF Operations
<1> PICK b \in Sent(r) :
       \/ Unsaved(c, b, products)
       \/ /\ Saves(r, b, products)
          /\ products' = [products EXCEPT ![r.product] = Saved(r, b, @)]
          /\ Stored(c, b, r.product) /\ UNCHANGED variants
  BY DEF SaveProduct
<1>b. b \in Body /\ (Written(r, b).code => b.code = r.code)
  BY <1>2, <1>3, SentBody DEF Edits
<1>4. CASE Unsaved(c, b, products)
  BY <1>2, <1>3, <1>b, <1>4, UnsavedInv
<1>i. r.product \in Products /\ products[r.product] \in Item
  BY <1>2, <1>3 DEF Fits, Inv, TypeOK
<1>s. LET row == Saved(r, b, products[r.product]) IN
      /\ row \in Item /\ row.row = products[r.product].row
      /\ row.product = products[r.product].product
      /\ row.code = IF Written(r, b).code THEN r.code ELSE products[r.product].code
  BY <1>2, <1>b, <1>i, SavedItem
<1>k. CASE /\ ~ Written(r, b).code /\ Saves(r, b, products)
           /\ products' = [products EXCEPT ![r.product] = Saved(r, b, @)]
           /\ Stored(c, b, r.product) /\ UNCHANGED variants
  <2>1. /\ Done(c, {}) /\ UNCHANGED <<categories, orders, movements, begun, raced>>
    BY <1>k DEF Stored
  <2>2. /\ products' \in [Products -> Item] /\ variants' = variants
        /\ \A i \in Products : /\ products'[i].row = products[i].row
                               /\ products'[i].code = products[i].code
                               /\ products'[i].product = products[i].product
    BY <1>k, <1>i, <1>s DEF Inv, TypeOK
  <2>3. variants \in [Variants -> Item] /\ categories \subseteq Categories
    BY DEF Inv, TypeOK
  <2> QED  BY <1>2, <2>1, <2>2, <2>3, KeptInv
<1>5. CASE /\ Written(r, b).code /\ Saves(r, b, products)
           /\ products' = [products EXCEPT ![r.product] = Saved(r, b, @)]
           /\ Stored(c, b, r.product) /\ UNCHANGED variants
  <2>0. Took(c, r.product)
    BY <1>5 DEF Stored
  <2>1. /\ Done(c, {r.product}) /\ UNCHANGED <<categories, orders, movements, begun>>
        /\ raced' = raced \cup {{r.product, other} : other \in r.missed}
    BY <2>0 DEF Took
  <2>2. /\ r.product \in Products /\ r.variant = None /\ Itself(r) = r.product
        /\ r.code \in Codes \cup {None}
    BY <1>2, <1>3 DEF Fits, Itself, Request
  <2>3. /\ products' \in [Products -> Item] /\ variants' \in [Variants -> Item]
        /\ orders' \in [Orders -> Order] /\ movements' \subseteq Movement
        /\ products'[r.product].row = products[r.product].row
        /\ products'[r.product].code = r.code
        /\ \A p \in Products : p # r.product => products'[p] = products[p]
    BY <1>5, <1>i, <1>s, <2>1, <2>2 DEF Inv, TypeOK
  <2>4. products[r.product].row = "live"
    BY <1>5, <2>2 DEF Saves
  <2>5. Writes(r, {r.product})
    BY <1>3, <1>5, <2>1, <2>2, <2>3, <2>4 DEF Writes, Inv, TypeOK
  <2>6. /\ Live(products)' = Live(products) /\ Live(variants)' = Live(variants)
        /\ Live(products) \subseteq Products /\ Live(variants) \subseteq Variants
    BY <1>5, <2>2, <2>3 DEF Live, Inv, TypeOK
  <2>7. OrdersFit'
    BY <1>5, <2>1, <2>2, <2>3 DEF Inv, OrdersFit
  <2>8. MovementsFit' /\ LedgerKeepsItsItems'
    BY <1>5, <2>1, <2>6 DEF Inv, MovementsFit, LedgerKeepsItsItems
  <2>9. r.code # None =>
          /\ \A p \in Live(products) \ {r.product} : products[p].code # r.code
          /\ \A v \in Live(variants) : variants[v].code = r.code => v \in r.missed
    <3>1. r.op \in DOMAIN CheckAt /\ CheckAt[r.op] = 2
      BY <1>3 DEF CheckAt
    <3>2. r.code # None => \A v \in Live(variants) \ {Itself(r)} :
                             variants[v].code = r.code => v \in r.missed
      BY <1>2, <1>3, <3>1 DEF Looked
    <3>3. r.product \notin Live(variants)
      BY <2>2, <2>6, Apart
    <3> QED  BY <1>5, <2>2, <2>6, <3>2, <3>3 DEF Saves, Violates, Holders
  <2>10. CodesAreSharedOnlyInARace'
    <3>1. \A i, j \in Live(products)' :
            products'[i].code = products'[j].code /\ products'[i].code # None => i = j
      BY <2>3, <2>6, <2>9 DEF Inv, CodesAreSharedOnlyInARace
    <3>2. \A i, j \in Live(variants)' :
            variants'[i].code = variants'[j].code /\ variants'[i].code # None => i = j
      BY <1>5, <2>6 DEF Inv, CodesAreSharedOnlyInARace
    <3>3. \A p \in Live(products)', v \in Live(variants)' :
            products'[p].code = variants'[v].code /\ products'[p].code # None => {p, v} \in raced'
      <4> SUFFICES ASSUME NEW p \in Live(products)', NEW v \in Live(variants)',
                          products'[p].code = variants'[v].code, products'[p].code # None
                   PROVE  {p, v} \in raced'
        OBVIOUS
      <4>1. CASE p = r.product
        <5>1. v \in r.missed
          BY <1>5, <2>3, <2>6, <2>9, <4>1
        <5> QED  BY <2>1, <4>1, <5>1
      <4>2. CASE p # r.product
        <5>1. {p, v} \in raced
          BY <1>5, <2>3, <2>6, <4>2 DEF Inv, CodesAreSharedOnlyInARace
        <5> QED  BY <2>1, <5>1
      <4> QED  BY <4>1, <4>2
    <3> QED  BY <3>1, <3>2, <3>3 DEF CodesAreSharedOnlyInARace, Live
  <2>11. {r.product} \in SUBSET (Products \cup Variants) /\ begun' = begun
    BY <2>1, <2>2
  <2> QED  BY <1>2, <2>1, <2>3, <2>5, <2>7, <2>8, <2>10, <2>11, WriteInv
<1> QED  BY <1>4, <1>k, <1>5

LEMMA SaveVariantInv == ASSUME Inv, NEW c \in Clients, SaveVariant(c) PROVE Inv'
<1> PICK r : r = request[c]
  OBVIOUS
<1>1. At(c, "save_variant")
  BY DEF SaveVariant
<1>2. /\ r \in Request /\ Running(c) /\ r.op \in Operations
      /\ r.pc \in 1 .. Len(Does[r.op]) /\ Does[r.op][r.pc] = "save_variant"
      /\ Fits(r) /\ Inserts(r) /\ Looked(r)
  BY <1>1, AtPlaces
<1>3. r.pc = 5 /\ r.op = "update_variant"
  BY <1>2, Places DEF Operations
<1> PICK b \in Sent(r) :
       \/ Unsaved(c, b, variants)
       \/ /\ Saves(r, b, variants)
          /\ variants' = [variants EXCEPT ![r.variant] = Saved(r, b, @)]
          /\ Stored(c, b, r.variant) /\ UNCHANGED products
  BY DEF SaveVariant
<1>b. b \in Body /\ (Written(r, b).code => b.code = r.code)
  BY <1>2, <1>3, SentBody DEF Edits
<1>4. CASE Unsaved(c, b, variants)
  BY <1>2, <1>3, <1>b, <1>4, UnsavedInv
<1>i. r.variant \in Variants /\ variants[r.variant] \in Item
  BY <1>2, <1>3 DEF Fits, Inv, TypeOK
<1>s. LET row == Saved(r, b, variants[r.variant]) IN
      /\ row \in Item /\ row.row = variants[r.variant].row
      /\ row.product = variants[r.variant].product
      /\ row.code = IF Written(r, b).code THEN r.code ELSE variants[r.variant].code
  BY <1>2, <1>b, <1>i, SavedItem
<1>k. CASE /\ ~ Written(r, b).code /\ Saves(r, b, variants)
           /\ variants' = [variants EXCEPT ![r.variant] = Saved(r, b, @)]
           /\ Stored(c, b, r.variant) /\ UNCHANGED products
  <2>1. /\ Done(c, {}) /\ UNCHANGED <<categories, orders, movements, begun, raced>>
    BY <1>k DEF Stored
  <2>2. /\ variants' \in [Variants -> Item] /\ products' = products
        /\ \A i \in Variants : /\ variants'[i].row = variants[i].row
                               /\ variants'[i].code = variants[i].code
                               /\ variants'[i].product = variants[i].product
    BY <1>k, <1>i, <1>s DEF Inv, TypeOK
  <2>3. products \in [Products -> Item] /\ categories \subseteq Categories
    BY DEF Inv, TypeOK
  <2> QED  BY <1>2, <2>1, <2>2, <2>3, KeptInv
<1>5. CASE /\ Written(r, b).code /\ Saves(r, b, variants)
           /\ variants' = [variants EXCEPT ![r.variant] = Saved(r, b, @)]
           /\ Stored(c, b, r.variant) /\ UNCHANGED products
  <2>0. Took(c, r.variant)
    BY <1>5 DEF Stored
  <2>1. /\ Done(c, {r.variant}) /\ UNCHANGED <<categories, orders, movements, begun>>
        /\ raced' = raced \cup {{r.variant, other} : other \in r.missed}
    BY <2>0 DEF Took
  <2>2. /\ r.variant \in Variants /\ Itself(r) = r.variant /\ r.code \in Codes \cup {None}
    BY <1>2, <1>3, Apart DEF Fits, Itself, Request
  <2>3. /\ products' \in [Products -> Item] /\ variants' \in [Variants -> Item]
        /\ orders' \in [Orders -> Order] /\ movements' \subseteq Movement
        /\ variants'[r.variant].row = variants[r.variant].row
        /\ variants'[r.variant].code = r.code
        /\ \A v \in Variants : variants'[v].product = variants[v].product
        /\ \A v \in Variants : v # r.variant => variants'[v] = variants[v]
    BY <1>5, <1>i, <1>s, <2>1, <2>2 DEF Inv, TypeOK
  <2>4. variants[r.variant].row = "live"
    BY <1>5, <2>2 DEF Saves
  <2>5. Writes(r, {r.variant})
    BY <1>3, <1>5, <2>1, <2>2, <2>3, <2>4 DEF Writes, Inv, TypeOK
  <2>6. /\ Live(variants)' = Live(variants) /\ Live(products)' = Live(products)
        /\ Live(products) \subseteq Products /\ Live(variants) \subseteq Variants
    BY <1>5, <2>2, <2>3 DEF Live, Inv, TypeOK
  <2>7. OrdersFit'
    <3>1. \A o \in Orders : orders[o].variant \in Variants \cup {None}
      BY DEF Inv, TypeOK, Order
    <3> QED  BY <1>5, <2>1, <2>3, <3>1 DEF Inv, OrdersFit
  <2>8. MovementsFit' /\ LedgerKeepsItsItems'
    BY <1>5, <2>1, <2>3, <2>6 DEF Inv, MovementsFit, LedgerKeepsItsItems
  <2>9. r.code # None =>
          /\ \A v \in Live(variants) \ {r.variant} : variants[v].code # r.code
          /\ \A p \in Live(products) : products[p].code = r.code => p \in r.missed
    <3>1. r.op \in DOMAIN CheckAt /\ CheckAt[r.op] = 3
      BY <1>3 DEF CheckAt
    <3>2. r.code # None => \A p \in Live(products) \ {Itself(r)} :
                             products[p].code = r.code => p \in r.missed
      BY <1>2, <1>3, <3>1 DEF Looked
    <3>3. r.variant \notin Live(products)
      BY <2>2, <2>6, Apart
    <3> QED  BY <1>5, <2>2, <2>6, <3>2, <3>3 DEF Saves, Violates, Holders
  <2>10. CodesAreSharedOnlyInARace'
    <3>1. \A i, j \in Live(variants)' :
            variants'[i].code = variants'[j].code /\ variants'[i].code # None => i = j
      BY <2>3, <2>6, <2>9 DEF Inv, CodesAreSharedOnlyInARace
    <3>2. \A i, j \in Live(products)' :
            products'[i].code = products'[j].code /\ products'[i].code # None => i = j
      BY <1>5, <2>6 DEF Inv, CodesAreSharedOnlyInARace
    <3>3. \A p \in Live(products)', v \in Live(variants)' :
            products'[p].code = variants'[v].code /\ products'[p].code # None => {p, v} \in raced'
      <4> SUFFICES ASSUME NEW p \in Live(products)', NEW v \in Live(variants)',
                          products'[p].code = variants'[v].code, products'[p].code # None
                   PROVE  {p, v} \in raced'
        OBVIOUS
      <4>1. CASE v = r.variant
        <5>1. p \in r.missed
          BY <1>5, <2>3, <2>6, <2>9, <4>1
        <5>2. {p, v} = {r.variant, p}
          BY <4>1
        <5> QED  BY <2>1, <5>1, <5>2
      <4>2. CASE v # r.variant
        <5>1. {p, v} \in raced
          BY <1>5, <2>3, <2>6, <4>2 DEF Inv, CodesAreSharedOnlyInARace
        <5> QED  BY <2>1, <5>1
      <4> QED  BY <4>1, <4>2
    <3> QED  BY <3>1, <3>2, <3>3 DEF CodesAreSharedOnlyInARace, Live
  <2>11. {r.variant} \in SUBSET (Products \cup Variants) /\ begun' = begun
    BY <2>1, <2>2
  <2> QED  BY <1>2, <2>1, <2>3, <2>5, <2>7, <2>8, <2>10, <2>11, WriteInv
<1> QED  BY <1>4, <1>k, <1>5

\* What no movement names is deleted.
LEMMA DeleteItemsInv ==
    ASSUME Inv, NEW c \in Clients, Running(c), request[c].op # "cancel_order",
           NEW ps \in SUBSET Products, NEW vs \in SUBSET Variants, DeleteItems(c, ps, vs),
           \A p \in ps : products[p].row # "new", \A v \in vs : variants[v].row # "new"
    PROVE  Inv'
<1> PICK cascade : cascade = vs \cup {v \in Live(variants) : variants[v].product \in ps}
  OBVIOUS
<1>1. CASE Refuse(c, "error")
  BY <1>1, RefuseInv
<1>2. CASE /\ ~ Referenced(ps, cascade)
           /\ products' = Gone(products, ps) /\ variants' = Gone(variants, cascade)
           /\ Done(c, {}) /\ UNCHANGED <<categories, orders, movements, begun, raced>>
  <2>1. /\ products \in [Products -> Item] /\ variants \in [Variants -> Item]
        /\ Live(products) \subseteq Products /\ Live(variants) \subseteq Variants
    BY DEF Inv, TypeOK, Live
  <2>2. /\ products' \in [Products -> Item]
        /\ \A p \in Products :
             /\ p \in ps /\ products[p].row = "live" => products'[p].row = "gone"
             /\ p \notin ps \/ products[p].row # "live" => products'[p] = products[p]
    BY <1>2, <2>1 DEF Gone, Live, Item
  <2>3. /\ variants' \in [Variants -> Item]
        /\ \A v \in Variants :
             /\ variants'[v].product = variants[v].product
             /\ v \in cascade /\ variants[v].row = "live" => variants'[v].row = "gone"
             /\ v \notin cascade \/ variants[v].row # "live" => variants'[v] = variants[v]
    BY <1>2, <2>1, ZenonT(30) DEF Gone, Live, Item
  <2>4. /\ Live(products)' = Live(products) \ ps /\ Live(variants)' = Live(variants) \ cascade
    BY <2>1, <2>2, <2>3 DEF Live
  <2>5. Writes(request[c], {})
    BY <1>2, <2>2, <2>3 DEF Writes, Inv, TypeOK
  <2>6. OrdersFit'
    <3>1. \A o \in Orders : orders[o].variant \in Variants \cup {None}
      BY DEF Inv, TypeOK, Order
    <3>2. \A p \in Products : products[p].row # "new" => products'[p].row # "new"
      BY <2>2
    <3> QED  BY <1>2, <2>3, <3>1, <3>2 DEF Inv, OrdersFit
  <2>7. MovementsFit'
    BY <1>2 DEF Inv, MovementsFit
  <2>8. LedgerKeepsItsItems'
    <3>1. \A x \in movements : x.product \notin ps /\ x.variant \notin cascade
      BY <1>2 DEF Referenced
    <3>2. \A x \in movements : x.product \in Live(products)
                                /\ x.variant \in Live(variants) \cup {None}
      BY DEF Inv, LedgerKeepsItsItems
    <3>3. \A v \in Live(variants) \ cascade : variants'[v].product \in Live(products) \ ps
      BY <2>1, <2>3 DEF Inv, LedgerKeepsItsItems
    <3> QED  BY <1>2, <2>4, <3>1, <3>2, <3>3 DEF LedgerKeepsItsItems
  <2>9. CodesAreSharedOnlyInARace'
    <3>1. /\ \A p \in Live(products)' : p \in Live(products) /\ products'[p] = products[p]
          /\ \A v \in Live(variants)' : v \in Live(variants) /\ variants'[v] = variants[v]
      BY <2>1, <2>2, <2>3, <2>4
    <3>2. \A i, j \in Live(products)' :
            products'[i].code = products'[j].code /\ products'[i].code # None => i = j
      BY <3>1 DEF Inv, CodesAreSharedOnlyInARace
    <3>3. \A i, j \in Live(variants)' :
            variants'[i].code = variants'[j].code /\ variants'[i].code # None => i = j
      BY <3>1 DEF Inv, CodesAreSharedOnlyInARace
    <3>4. \A p \in Live(products)', v \in Live(variants)' :
            products'[p].code = variants'[v].code /\ products'[p].code # None => {p, v} \in raced'
      BY <1>2, <3>1 DEF Inv, CodesAreSharedOnlyInARace
    <3> QED  BY <3>2, <3>3, <3>4 DEF CodesAreSharedOnlyInARace, Live
  <2>10. movements' \subseteq Movement /\ begun' = begun /\ Done(c, {})
    BY <1>2 DEF Inv, TypeOK
  <2> QED  BY <2>5, <2>6, <2>7, <2>8, <2>9, <2>10, WriteInv
<1> QED  BY <1>1, <1>2 DEF DeleteItems

LEMMA DeletesInv ==
    ASSUME Inv, NEW c \in Clients,
           DeleteProduct(c) \/ DeleteVariant(c) \/ BulkDeleteProducts(c)
    PROVE  Inv'
<1> PICK r : r = request[c]
  OBVIOUS
<1>1. CASE DeleteProduct(c)
  <2>1. /\ r \in Request /\ Running(c) /\ r.op \in Operations
        /\ r.pc \in 1 .. Len(Does[r.op]) /\ Does[r.op][r.pc] = "delete_product" /\ Fits(r)
    BY <1>1, AtPlaces DEF DeleteProduct
  <2>2. r.op = "delete_product"
    BY <2>1, Places DEF Operations
  <2>3. r.product \in Products /\ products[r.product].row # "new"
    BY <2>1, <2>2 DEF Fits, Unnamed
  <2>4. DeleteItems(c, {r.product}, {})
    BY <1>1 DEF DeleteProduct
  <2>5. {r.product} \in SUBSET Products /\ {} \in SUBSET Variants
    BY <2>3
  <2>6. \A p \in {r.product} : products[p].row # "new"
    BY <2>3
  <2> QED  BY <2>1, <2>2, <2>4, <2>5, <2>6, DeleteItemsInv
<1>2. CASE DeleteVariant(c)
  <2>1. /\ r \in Request /\ Running(c) /\ r.op \in Operations
        /\ r.pc \in 1 .. Len(Does[r.op]) /\ Does[r.op][r.pc] = "delete_variant" /\ Fits(r)
    BY <1>2, AtPlaces DEF DeleteVariant
  <2>2. r.op = "delete_variant"
    BY <2>1, Places DEF Operations
  <2>3. r.variant \in Variants /\ variants[r.variant].row # "new"
    <3>1. r.product \in Products /\ r.variant \in Variants
          /\ variants[r.variant].product = r.product
      BY <2>1, <2>2 DEF Fits
    <3> QED  BY <3>1, Apart DEF Inv, NewVariants
  <2>4. DeleteItems(c, {}, {r.variant})
    BY <1>2 DEF DeleteVariant
  <2>5. {} \in SUBSET Products /\ {r.variant} \in SUBSET Variants
    BY <2>3
  <2>6. \A v \in {r.variant} : variants[v].row # "new"
    BY <2>3
  <2> QED  BY <2>1, <2>2, <2>4, <2>5, <2>6, DeleteItemsInv
<1>3. CASE BulkDeleteProducts(c)
  <2>1. /\ r \in Request /\ Running(c) /\ r.op \in Operations
        /\ r.pc \in 1 .. Len(Does[r.op]) /\ Does[r.op][r.pc] = "delete_products" /\ Fits(r)
    BY <1>3, AtPlaces DEF BulkDeleteProducts
  <2>2. r.op = "bulk_delete_products"
    BY <2>1, Places DEF Operations
  <2>3. PICK ids \in SUBSET Products :
          (\A p \in ids : products[p].row # "new") /\ DeleteItems(c, ids, {})
    BY <1>3 DEF BulkDeleteProducts
  <2>4. {} \in SUBSET Variants /\ \A v \in {} : variants[v].row # "new"
    OBVIOUS
  <2> QED  BY <2>1, <2>2, <2>3, <2>4, DeleteItemsInv
<1> QED  BY <1>1, <1>2, <1>3

LEMMA CategoriesInv ==
    ASSUME Inv, NEW c \in Clients, DeleteCategory(c) \/ BulkDeleteCategories(c)
    PROVE  Inv'
<1>1. PICK gs : DeleteCategories(c, gs)
  BY DEF DeleteCategory, BulkDeleteCategories
<1>2. Running(c)
  BY DEF DeleteCategory, BulkDeleteCategories, At
<1>3. products \in [Products -> Item] /\ variants \in [Variants -> Item]
      /\ categories \subseteq Categories
  BY DEF Inv, TypeOK
<1>4. ASSUME NEW p \in Products
      PROVE  /\ products'[p] \in Item /\ products'[p].row = products[p].row
             /\ products'[p].code = products[p].code
  <2>1. products[p] \in Item
    BY <1>3
  <2>2. products'[p] = [products[p] EXCEPT !.category =
                          IF products[p].category \in gs THEN None ELSE products[p].category]
    BY <1>1 DEF DeleteCategories
  <2> QED  BY <2>1, <2>2 DEF Item
<1>5. products' \in [Products -> Item]
  BY <1>1, <1>4 DEF DeleteCategories
<1>6. /\ Done(c, {}) /\ categories' \subseteq Categories
      /\ UNCHANGED <<variants, orders, movements, begun, raced>>
  BY <1>1, <1>3 DEF DeleteCategories
<1> QED  BY <1>2, <1>3, <1>4, <1>5, <1>6, KeptInv

\* A movement of items that are there, and of the order it is recorded for.
LEMMA RecordedIsSound ==
    ASSUME Inv, NEW r, r.product \in Products, r.variant \in Variants \cup {None},
           Recordable(r), NEW order \in Orders \cup {None},
           NEW reason \in {"manual_restock", "pos_sale", "order_cancel_restore"},
           Recorded(r, order, reason), UNCHANGED <<products, variants>>
    PROVE  /\ movements' \subseteq Movement /\ LedgerKeepsItsItems'
           /\ \A x \in movements' \ movements :
                x.order = order /\ x.product = r.product /\ x.variant = r.variant
<1> PICK m : m = [product |-> r.product, variant |-> r.variant, order |-> order, reason |-> reason]
  OBVIOUS
<1>1. movements' = movements \cup {m} /\ m \in Movement
  BY DEF Recorded, Movement
<1>2. m.product \in Live(products) /\ m.variant \in Live(variants) \cup {None}
  BY DEF Recordable, Present, Live, Inv, TypeOK
<1>3. Live(products)' = Live(products) /\ Live(variants)' = Live(variants)
  BY DEF Live
<1>4. LedgerKeepsItsItems'
  BY <1>1, <1>2, <1>3 DEF Inv, LedgerKeepsItsItems
<1>5. movements \subseteq Movement
  BY DEF Inv, TypeOK
<1> QED  BY <1>1, <1>4, <1>5

LEMMA RestockInv == ASSUME Inv, NEW c \in Clients, Restock(c) PROVE Inv'
<1> PICK r : r = request[c]
  OBVIOUS
<1>1. /\ r \in Request /\ Running(c) /\ r.op \in Operations
      /\ r.pc \in 1 .. Len(Does[r.op]) /\ Does[r.op][r.pc] = "restock" /\ Fits(r)
  BY AtPlaces DEF Restock
<1>2. r.op = "restock_product"
  BY <1>1, Places DEF Operations
<1>3. CASE Refuse(c, "422") \/ Refuse(c, "error")
  BY <1>1, <1>2, <1>3, RefuseInv
<1>4. CASE /\ r.product \in Tracked /\ Recordable(r) /\ Recorded(r, None, "manual_restock")
           /\ Done(c, {}) /\ UNCHANGED <<products, variants, categories, orders, begun, raced>>
  <2>1. r.product \in Products /\ r.variant = None
    BY <1>1, <1>2 DEF Fits
  <2>2. /\ movements' \subseteq Movement /\ LedgerKeepsItsItems'
        /\ \A x \in movements' \ movements : x.order = None
    BY <1>4, <2>1, RecordedIsSound
  <2>3. Writes(r, {}) /\ OrdersFit'
    BY <1>4 DEF Writes, Inv, TypeOK, OrdersFit
  <2>4. MovementsFit'
    BY <1>4, <2>2 DEF Inv, MovementsFit
  <2>5. CodesAreSharedOnlyInARace'
    BY <1>4 DEF Inv, CodesAreSharedOnlyInARace, Live
  <2> QED  BY <1>1, <1>4, <2>2, <2>3, <2>4, <2>5, WriteInv
<1> QED  BY <1>3, <1>4 DEF Restock

\* An order is placed, on the ledger or not.
LEMMA PlacedInv ==
    ASSUME Inv, NEW c \in Clients, Running(c),
           NEW r \in Request, r = request[c], r.op \in Sales, Fits(r), Inserts(r),
           Placed(r), Done(c, {}), UNCHANGED <<products, variants, categories, begun, raced>>,
           movements' \subseteq Movement, LedgerKeepsItsItems',
           \A x \in movements' \ movements :
             x.order = r.order /\ x.product = r.product /\ x.variant = r.variant
    PROVE  Inv'
<1>1. /\ r.product \in Products /\ products[r.product].row # "new"
      /\ r.order \in Orders /\ orders[r.order].status = "new"
      /\ r.variant \in Variants \cup {None}
      /\ r.variant # None => variants[r.variant].product = r.product
  BY DEF Fits, Inserts, Sales, Unnamed, Request
<1>2. /\ orders' \in [Orders -> Order]
      /\ orders'[r.order].status = "placed" /\ orders'[r.order].product = r.product
      /\ orders'[r.order].variant = r.variant
      /\ \A o \in Orders : o # r.order => orders'[o] = orders[o]
  BY <1>1 DEF Placed, Inv, TypeOK, Order
<1>3. Writes(r, {})
  BY <1>1, <1>2 DEF Writes, Inv, TypeOK
<1>4. OrdersFit'
  BY <1>1, <1>2 DEF Inv, OrdersFit
<1>5. MovementsFit'
  <2> SUFFICES ASSUME NEW x \in movements', x.order # None
               PROVE  /\ orders'[x.order].status # "new"
                      /\ x.product = orders'[x.order].product
                      /\ x.variant = orders'[x.order].variant
    BY DEF MovementsFit
  <2>1. CASE x \in movements
    <3>1. /\ x.order \in Orders /\ orders[x.order].status # "new"
          /\ x.product = orders[x.order].product /\ x.variant = orders[x.order].variant
      BY <2>1 DEF Inv, TypeOK, Movement, MovementsFit
    <3> QED  BY <1>1, <1>2, <3>1
  <2>2. CASE x \notin movements
    BY <1>2, <2>2
  <2> QED  BY <2>1, <2>2
<1>6. CodesAreSharedOnlyInARace'
  BY DEF Inv, CodesAreSharedOnlyInARace, Live
<1> QED  BY <1>3, <1>4, <1>5, <1>6, WriteInv

LEMMA SellInv == ASSUME Inv, NEW c \in Clients, Sell(c) PROVE Inv'
<1> PICK r : r = request[c]
  OBVIOUS
<1>1. /\ r \in Request /\ Running(c) /\ r.op \in Operations
      /\ r.pc \in 1 .. Len(Does[r.op]) /\ Does[r.op][r.pc] = "sell"
      /\ Fits(r) /\ Inserts(r)
  BY AtPlaces DEF Sell
<1>2. r.op = "submit_order" /\ r.op \in Sales /\ r.op # "cancel_order"
  BY <1>1, Places DEF Operations, Sales
<1>3. CASE Refuse(c, "409")
  BY <1>1, <1>2, <1>3, RefuseInv
<1>4. CASE /\ Placed(r) /\ Done(c, {})
           /\ UNCHANGED <<products, variants, categories, movements, begun, raced>>
  <2>1. movements' \subseteq Movement /\ LedgerKeepsItsItems'
    BY <1>4 DEF Inv, TypeOK, LedgerKeepsItsItems, Live
  <2>2. \A x \in movements' \ movements :
             x.order = r.order /\ x.product = r.product /\ x.variant = r.variant
    BY <1>4
  <2> QED  BY <1>1, <1>2, <1>4, <2>1, <2>2, PlacedInv
<1> QED  BY <1>3, <1>4 DEF Sell

LEMMA SellAndRecordInv == ASSUME Inv, NEW c \in Clients, SellAndRecord(c) PROVE Inv'
<1> PICK r : r = request[c]
  OBVIOUS
<1>1. /\ r \in Request /\ Running(c) /\ r.op \in Operations
      /\ r.pc \in 1 .. Len(Does[r.op]) /\ Does[r.op][r.pc] = "sell_and_record"
      /\ Fits(r) /\ Inserts(r)
  BY AtPlaces DEF SellAndRecord
<1>2. r.op = "create_pos_order" /\ r.op \in Sales /\ r.op # "cancel_order"
  BY <1>1, Places DEF Operations, Sales
<1>3. CASE Refuse(c, "409")
  BY <1>1, <1>2, <1>3, RefuseInv
<1>4. CASE /\ ~ (r.product \in Tracked /\ ~ Present(r))
           /\ Placed(r) /\ Done(c, {})
           /\ IF r.product \in Tracked THEN Recorded(r, r.order, "pos_sale")
                                       ELSE UNCHANGED movements
           /\ UNCHANGED <<products, variants, categories, begun, raced>>
  <2>1. CASE r.product \notin Tracked
    <3>1. movements' \subseteq Movement /\ LedgerKeepsItsItems' /\ movements' = movements
      BY <1>4, <2>1 DEF Inv, TypeOK, LedgerKeepsItsItems, Live
    <3> QED  BY <1>1, <1>2, <1>4, <3>1, PlacedInv
  <2>2. CASE r.product \in Tracked
    <3>1. /\ r.product \in Products /\ r.variant \in Variants \cup {None} /\ r.order \in Orders
          /\ r.variant # None => variants[r.variant].product = r.product
      BY <1>1, <1>2 DEF Fits, Request
    <3>2. Recordable(r)
      BY <1>4, <2>2, <3>1 DEF Recordable, Present, Inv, TypeOK, LedgerKeepsItsItems, Live
    <3>3. /\ movements' \subseteq Movement /\ LedgerKeepsItsItems'
          /\ \A x \in movements' \ movements :
               x.order = r.order /\ x.product = r.product /\ x.variant = r.variant
      BY <1>4, <2>2, <3>1, <3>2, RecordedIsSound
    <3> QED  BY <1>1, <1>2, <1>4, <3>3, PlacedInv
  <2> QED  BY <2>1, <2>2
<1> QED  BY <1>3, <1>4 DEF SellAndRecord

\* The order is cancelled and its items are given back once.
LEMMA RestoreInv == ASSUME Inv, NEW c \in Clients, Restore(c) PROVE Inv'
<1> PICK r : r = request[c]
  OBVIOUS
<1>1. /\ r \in Request /\ Running(c) /\ r.op \in Operations
      /\ r.pc \in 1 .. Len(Does[r.op]) /\ Does[r.op][r.pc] = "restore" /\ Fits(r)
  BY AtPlaces DEF Restore
<1>2. r.op = "cancel_order" /\ r.pc = 3
  BY <1>1, Places DEF Operations
<1>3. CASE Refuse(c, "error") /\ ~ Recordable(r)
  BY <1>1, <1>2, <1>3, RefuseInv
<1>4. ASSUME NEW needed \in BOOLEAN, needed => Recordable(r),
             orders' = [orders EXCEPT ![r.order].status = "cancelled"],
             IF needed THEN Recorded(r, r.order, "order_cancel_restore") ELSE UNCHANGED movements,
             Done(c, {}), UNCHANGED <<products, variants, categories, begun, raced>>
      PROVE  Inv'
  <2>1. /\ r.order \in Orders /\ orders[r.order].status # "new"
        /\ r.product = orders[r.order].product /\ r.variant = orders[r.order].variant
    BY <1>1, <1>2 DEF Fits
  <2>2. r.product \in Products /\ r.variant \in Variants \cup {None}
    BY <2>1 DEF Inv, TypeOK, Order, OrdersFit
  <2>3. /\ movements' \subseteq Movement /\ LedgerKeepsItsItems'
        /\ \A x \in movements' \ movements :
             x.order = r.order /\ x.product = r.product /\ x.variant = r.variant
    <3>1. CASE needed
      BY <1>4, <2>1, <2>2, <3>1, RecordedIsSound
    <3>2. CASE ~ needed
      BY <1>4, <3>2 DEF Inv, TypeOK, LedgerKeepsItsItems, Live
    <3> QED  BY <3>1, <3>2
  <2>4. /\ orders' \in [Orders -> Order]
        /\ orders'[r.order].status = "cancelled"
        /\ orders'[r.order].product = orders[r.order].product
        /\ orders'[r.order].variant = orders[r.order].variant
        /\ \A o \in Orders : o # r.order => orders'[o] = orders[o]
    BY <1>4, <2>1 DEF Inv, TypeOK, Order
  <2>5. Writes(r, {})
    BY <1>4, <2>1, <2>4 DEF Writes, Inv, TypeOK
  <2>6. OrdersFit'
    BY <1>4, <2>1, <2>4 DEF Inv, OrdersFit
  <2>7. MovementsFit'
    <3> SUFFICES ASSUME NEW x \in movements', x.order # None
                 PROVE  /\ orders'[x.order].status # "new"
                        /\ x.product = orders'[x.order].product
                        /\ x.variant = orders'[x.order].variant
      BY DEF MovementsFit
    <3>1. CASE x \in movements
      <4>1. /\ x.order \in Orders /\ orders[x.order].status # "new"
            /\ x.product = orders[x.order].product /\ x.variant = orders[x.order].variant
        BY <3>1 DEF Inv, TypeOK, Movement, MovementsFit
      <4> QED  BY <2>4, <4>1
    <3>2. CASE x \notin movements
      BY <2>1, <2>3, <2>4, <3>2
    <3> QED  BY <3>1, <3>2
  <2>8. CodesAreSharedOnlyInARace'
    BY <1>4 DEF Inv, CodesAreSharedOnlyInARace, Live
  <2> QED  BY <1>1, <1>4, <2>3, <2>5, <2>6, <2>7, <2>8, WriteInv
<1> QED  BY <1>3, <1>4 DEF Restore

-----------------------------------------------------------------------------
(* The invariant.                                                            *)

LEMMA InitInv == CatalogInit => Inv
<1> SUFFICES ASSUME CatalogInit PROVE Inv
  OBVIOUS
<1> USE DEF CatalogInit
<1>1. TypeOK
  BY CatalogStart, Apart DEF TypeOK, Order
<1>2. RequestsFit /\ InsertsDiffer
  BY DEF RequestsFit, InsertsDiffer, Running
<1>3. NewVariants
  BY CatalogStart DEF NewVariants
<1>4. OrdersFit /\ MovementsFit
  BY DEF OrdersFit, MovementsFit
<1>5. LedgerKeepsItsItems
  BY CatalogStart DEF LedgerKeepsItsItems
<1>6. CodesAreSharedOnlyInARace
  <2>1. \A table, other \in {products, variants} : \A i \in Live(table), j \in Live(other) :
          table[i].code = other[j].code /\ table[i].code # None => i = j
    BY CatalogStart
  <2>2. /\ \A i, j \in Live(products) :
             products[i].code = products[j].code /\ products[i].code # None => i = j
        /\ \A i, j \in Live(variants) :
             variants[i].code = variants[j].code /\ variants[i].code # None => i = j
        /\ \A p \in Live(products), v \in Live(variants) :
             products[p].code = variants[v].code /\ products[p].code # None => p = v
    BY <2>1
  <2>3. \A p \in Live(products), v \in Live(variants) : p # v
    BY CatalogStart, Apart DEF Live
  <2> QED  BY <2>2, <2>3 DEF CodesAreSharedOnlyInARace
<1> QED  BY <1>1, <1>2, <1>3, <1>4, <1>5, <1>6 DEF Inv

LEMMA StutterInv == Inv /\ UNCHANGED catalog => Inv'
BY DEF catalog, Inv, TypeOK, RequestsFit, Fits, Failed, Inserts, Looked, InsertsDiffer, Running,
       NewVariants, OrdersFit, MovementsFit, LedgerKeepsItsItems, CodesAreSharedOnlyInARace,
       Recordable, Present, Live

LEMMA StepInv == Inv /\ [CatalogNext]_catalog => Inv'
<1> SUFFICES ASSUME Inv, [CatalogNext]_catalog PROVE Inv'
  OBVIOUS
<1>1. CASE UNCHANGED catalog
  BY <1>1, StutterInv
<1>2. ASSUME NEW c \in Clients, Begin(c) PROVE Inv'
  BY <1>2, BeginInv
<1>3. ASSUME NEW c \in Clients,
             \/ LoadProduct(c) \/ LoadVariant(c) \/ LoadCategory(c)
             \/ LoadOrder(c) \/ LookForProduct(c)
      PROVE  Inv'
  BY <1>3, LoadProductInv, LoadVariantInv, LoadCategoryInv, LoadOrderInv, LookForProductInv
<1>4. ASSUME NEW c \in Clients, CheckProducts(c) PROVE Inv'
  BY <1>4, CheckCodeInv DEF CheckProducts
<1>5. ASSUME NEW c \in Clients, CheckVariants(c) PROVE Inv'
  BY <1>5, CheckCodeInv DEF CheckVariants
<1>6. ASSUME NEW c \in Clients,
             InsertProduct(c) \/ InsertVariant(c) \/ SaveProduct(c) \/ SaveVariant(c)
      PROVE  Inv'
  BY <1>6, InsertProductInv, InsertVariantInv, SaveProductInv, SaveVariantInv
<1>7. ASSUME NEW c \in Clients,
             \/ DeleteProduct(c) \/ DeleteVariant(c) \/ BulkDeleteProducts(c)
             \/ DeleteCategory(c) \/ BulkDeleteCategories(c)
      PROVE  Inv'
  BY <1>7, DeletesInv, CategoriesInv
<1>8. ASSUME NEW c \in Clients, Restock(c) \/ Sell(c) \/ SellAndRecord(c) \/ Restore(c)
      PROVE  Inv'
  BY <1>8, RestockInv, SellInv, SellAndRecordInv, RestoreInv
<1> QED  BY <1>1, <1>2, <1>3, <1>4, <1>5, <1>6, <1>7, <1>8 DEF CatalogNext

LEMMA Invariance == CatalogSpec => []Inv
BY InitInv, StepInv, PTL DEF CatalogSpec

\* Whatever is deleted and whenever, a movement's product and variant are there:
\* no delete passes the foreign keys of stock_movements (models/stock_movement.py).
THEOREM LedgerKept == CatalogSpec => []LedgerKeepsItsItems
<1>1. Inv => LedgerKeepsItsItems
  BY DEF Inv
<1> QED  BY <1>1, Invariance, PTL

\* A code is of one product and one variant at most, and of both only when
\* neither request could see the other's (services/catalog_codes.py).
THEOREM CodesShared == CatalogSpec => []CodesAreSharedOnlyInARace
<1>1. Inv => CodesAreSharedOnlyInARace
  BY DEF Inv
<1> QED  BY <1>1, Invariance, PTL

\* A cancellation fails with an error only for an order no movement is of: what
\* was recorded keeps its items (restore_stock_for_cancelled_order).
THEOREM SalesCancellable == CatalogSpec => []RecordedSalesCanBeCancelled
<1>1. Inv => RecordedSalesCanBeCancelled
  <2> SUFFICES ASSUME Inv, NEW c \in Clients, request[c] # None,
                      request[c].op = "cancel_order", request[c].status = "error"
               PROVE  /\ \A x \in movements : x.order # request[c].order
                      /\ ~ Recordable(request[c])
    BY DEF RecordedSalesCanBeCancelled
  <2> PICK r : r = request[c]
    OBVIOUS
  <2>1. Fits(r) /\ r.pc >= 2 /\ ~ Recordable(r)
    BY DEF Inv, RequestsFit, Failed
  <2>2. /\ r.order \in Orders /\ r.product = orders[r.order].product
        /\ r.variant = orders[r.order].variant
    BY <2>1 DEF Fits
  <2>3. ASSUME NEW x \in movements, x.order = r.order PROVE FALSE
    <3>1. x.product = r.product /\ x.variant = r.variant
      BY <2>2, <2>3, Apart DEF Inv, MovementsFit
    <3>2. r.product \in Live(products) /\ r.variant \in Live(variants) \cup {None}
      BY <3>1 DEF Inv, LedgerKeepsItsItems
    <3> QED  BY <2>1, <3>2 DEF Recordable, Present, Live
  <2> QED  BY <2>1, <2>3
<1> QED  BY <1>1, Invariance, PTL

-----------------------------------------------------------------------------
(* Conflicts.                                                                *)

\* What a 409 to a create or an edit tells is so.
Real(r, sent) ==
    \/ /\ r.code # None
       /\ \/ \E p \in Live(products) \ {Itself(r)} : products[p].code = r.code
          \/ \E v \in Live(variants) \ {Itself(r)} : variants[v].code = r.code
    \/ /\ sent # None
       /\ \/ /\ sent.name # None
             /\ \E p \in Live(products) \ {r.product} : products[p].name = sent.name
          \/ sent.category \notin categories \cup {None}
          \/ sent.void
    \/ r.op = "create_variant" /\ products[r.product].row = "gone"

\* A statement of c goes on or refuses, and for a reason; or it commits.
GoesOn(c) ==
    \E q \in Request :
        /\ request' = [request EXCEPT ![c] = q]
        /\ q.status = "409" /\ request[c].op \in Creates \cup Edits => Real(request[c], q.body)
Outcome(c) == Running(c) /\ (GoesOn(c) \/ \E items : Done(c, items))

LEMMA Refusal ==
    ASSUME Inv, NEW c \in Clients, Running(c), NEW status \in {"404", "409", "422", "error"},
           Refuse(c, status),
           status = "409" /\ request[c].op \in Creates \cup Edits =>
             \A sent : Real(request[c], sent)
    PROVE  Outcome(c)
<1> PICK r, q : r = request[c] /\ q = Ended(r, status)
  OBVIOUS
<1>1. r \in Request
  BY DEF Running, Inv, TypeOK
<1>2. q \in Request /\ q.status = status
  BY <1>1, EndedRequest
<1>3. request' = [request EXCEPT ![c] = q]
  BY DEF Refuse
<1> QED  BY <1>2, <1>3 DEF Outcome, GoesOn

LEMMA ConflictOutcome ==
    ASSUME Inv, NEW c \in Clients, Running(c), NEW b \in Body, Conflict(c, b),
           Real(request[c], b)
    PROVE  Outcome(c)
<1> PICK r, q : r = request[c] /\ q = [Ended(r, "409") EXCEPT !.body = b]
  OBVIOUS
<1>1. r \in Request
  BY DEF Running, Inv, TypeOK
<1>2. q \in Request /\ q.status = "409" /\ q.body = b
  BY <1>1, RefusedRequest
<1>3. request' = [request EXCEPT ![c] = q]
  BY DEF Conflict
<1> QED  BY <1>2, <1>3 DEF Outcome, GoesOn

LEMMA Advance ==
    ASSUME Inv, NEW c \in Clients, Running(c), NEW p \in Request, Proceed(c, p),
           p.status = "running"
    PROVE  Outcome(c)
<1> PICK q : q = [p EXCEPT !.pc = @ + 1]
  OBVIOUS
<1>1. q \in Request /\ q.status = p.status
  BY NextPlace
<1>2. request' = [request EXCEPT ![c] = q]
  BY DEF Proceed
<1> QED  BY <1>1, <1>2 DEF Outcome, GoesOn

LEMMA ReadOutcome ==
    ASSUME Inv, NEW c \in Clients,
           \/ LoadProduct(c) \/ LoadVariant(c) \/ LoadCategory(c)
           \/ LoadOrder(c) \/ LookForProduct(c)
    PROVE  Outcome(c)
<1> PICK r : r = request[c]
  OBVIOUS
<1>1. r \in Request /\ Running(c) /\ r.status = "running" /\ r.op \in Operations /\ Fits(r)
      /\ r.pc \in 1 .. Len(Does[r.op])
  BY AtPlaces DEF LoadProduct, LoadVariant, LoadCategory, LoadOrder, LookForProduct
<1>2. ASSUME NEW status \in {"404", "422"}, Refuse(c, status) PROVE Outcome(c)
  BY <1>1, <1>2, Refusal
<1>3. ASSUME NEW row \in Item \cup {None}, Proceed(c, [r EXCEPT !.loaded = row])
      PROVE  Outcome(c)
  <2> PICK p : p = [r EXCEPT !.loaded = row]
    OBVIOUS
  <2>1. p \in Request /\ p.status = r.status
    BY <1>1 DEF Request
  <2> QED  BY <1>1, <1>3, <2>1, Advance
<1>4. CASE LoadProduct(c)
  <2>1. Does[r.op][r.pc] = "load_product"
    BY <1>4 DEF LoadProduct, At
  <2>2. r.op \notin Unnamed
    BY <1>1, <2>1, Places DEF Operations, Unnamed
  <2>3. r.product \in Products
    BY <1>1, <2>2 DEF Fits, Operations, Sales, Unnamed
  <2>4. products[r.product] \in Item \cup {None}
    BY <2>3 DEF Inv, TypeOK
  <2> QED  BY <1>2, <1>3, <1>4, <2>4 DEF LoadProduct
<1>5. CASE LoadVariant(c)
  <2>1. CASE r.variant = None /\ Proceed(c, r)
    BY <1>1, <2>1, Advance
  <2>2. CASE r.variant # None /\ Proceed(c, [r EXCEPT !.loaded = variants[r.variant]])
    <3>1. variants[r.variant] \in Item \cup {None}
      BY <1>1, <2>2 DEF Inv, TypeOK, Request
    <3> QED  BY <1>3, <2>2, <3>1
  <2> QED  BY <1>2, <1>5, <2>1, <2>2 DEF LoadVariant
<1>6. CASE LoadOrder(c)
  <2>1. Does[r.op][r.pc] = "load_order"
    BY <1>6 DEF LoadOrder, At
  <2>2. r.op = "cancel_order"
    BY <1>1, <2>1, Places DEF Operations
  <2> PICK o : o = orders[r.order]
    OBVIOUS
  <2>3. o \in Order
    BY <1>1, <2>2 DEF Fits, Inv, TypeOK
  <2>4. CASE Proceed(c, [r EXCEPT !.product = o.product, !.variant = o.variant])
    <3> PICK p : p = [r EXCEPT !.product = o.product, !.variant = o.variant]
      OBVIOUS
    <3>1. p \in Request /\ p.status = r.status
      BY <1>1, <2>3 DEF Request, Order
    <3> QED  BY <1>1, <2>4, <3>1, Advance
  <2> QED  BY <1>2, <1>6, <2>4 DEF LoadOrder
<1>7. CASE LookForProduct(c)
  <2>1. Does[r.op][r.pc] = "look_for_product"
    BY <1>7 DEF LookForProduct, At
  <2>2. r.op = "cancel_order" /\ r.pc = 2
    BY <1>1, <2>1, Places DEF Operations
  <2>3. r.product \in Products
    BY <1>1, <2>2 DEF Fits, Inv, OrdersFit
  <2> PICK row : row = IF products[r.product].row = "live" THEN products[r.product] ELSE None
    OBVIOUS
  <2>4. row \in Item \cup {None}
    BY <2>3 DEF Inv, TypeOK
  <2> QED  BY <1>3, <1>7, <2>4 DEF LookForProduct
<1>8. CASE LoadCategory(c)
  <2>1. CASE Proceed(c, r)
    BY <1>1, <2>1, Advance
  <2> QED  BY <1>2, <1>8, <2>1 DEF LoadCategory
<1> QED  BY <1>4, <1>5, <1>6, <1>7, <1>8

\* An item that keeps others from a code holds it.
LEMMA HolderIsReal ==
    ASSUME NEW r, NEW table, table \in {products, variants},
           r.code # None, Holders(table, r) # {}
    PROVE  \A sent : Real(r, sent)
BY DEF Real, Holders

\* And so is everything else the flush is refused for.
LEMMA ViolationIsReal ==
    ASSUME Inv, NEW c \in Clients, Running(c), NEW b \in Body,
           NEW table, table \in {products, variants}, Violates(request[c], b, table)
    PROVE  Real(request[c], b)
<1> PICK r : r = request[c]
  OBVIOUS
<1>1. r \in Request /\ Fits(r) /\ b # None
  BY Apart DEF Running, Inv, TypeOK, RequestsFit
<1>2. CASE r.code # None /\ Holders(table, r) # {}
  BY <1>2, HolderIsReal
<1>3. CASE r.op = "create_variant" /\ products[r.product].row # "live"
  <2>1. r.product \in Products /\ products[r.product].row # "new"
    BY <1>1, <1>3 DEF Fits, Unnamed
  <2>2. products[r.product].row = "gone"
    BY <1>3, <2>1 DEF Inv, TypeOK, Item
  <2> QED  BY <1>3, <2>2 DEF Real
<1> QED  BY <1>1, <1>2, <1>3 DEF Violates, Real

LEMMA CheckOutcome ==
    ASSUME Inv, NEW c \in Clients, CheckProducts(c) \/ CheckVariants(c)
    PROVE  Outcome(c)
<1> PICK r : r = request[c]
  OBVIOUS
<1>1. PICK step, table : table \in {products, variants} /\ CheckCode(c, step, table)
  BY DEF CheckProducts, CheckVariants
<1>2. r \in Request /\ Running(c) /\ r.status = "running" /\ r # None
  BY <1>1, AtPlaces DEF CheckCode
<1>3. CASE r.code # None /\ Holders(table, r) # {} /\ Refuse(c, "409")
  <2>1. \A sent : Real(r, sent)
    BY <1>1, <1>3, HolderIsReal
  <2> QED  BY <1>2, <1>3, <2>1, Refusal
<1>4. CASE Proceed(c, [r EXCEPT !.missed = @ \ DOMAIN table])
  <2> PICK p : p = [r EXCEPT !.missed = @ \ DOMAIN table]
    OBVIOUS
  <2>1. p \in Request /\ p.status = r.status
    BY <1>2 DEF Request
  <2> QED  BY <1>2, <1>4, <2>1, Advance
<1> QED  BY <1>1, <1>3, <1>4 DEF CheckCode

LEMMA FlushOutcome ==
    ASSUME Inv, NEW c \in Clients,
           InsertProduct(c) \/ InsertVariant(c) \/ SaveProduct(c) \/ SaveVariant(c)
    PROVE  Outcome(c)
<1> PICK r : r = request[c]
  OBVIOUS
<1>1. r \in Request /\ Running(c)
  BY AtPlaces DEF InsertProduct, InsertVariant, SaveProduct, SaveVariant
<1>2. PICK b \in Sent(r), table \in {products, variants} :
         \/ Violates(r, b, table) /\ Conflict(c, b)
         \/ Refuse(c, "error")
         \/ \E items : Done(c, items)
  BY DEF InsertProduct, InsertVariant, SaveProduct, SaveVariant, Took, Stored, Saves, Unsaved
<1>3. b \in Body
  BY <1>1, SentBody
<1>4. CASE Violates(r, b, table) /\ Conflict(c, b)
  <2>1. Real(r, b)
    BY <1>1, <1>3, <1>4, ViolationIsReal
  <2> QED  BY <1>1, <1>3, <1>4, <2>1, ConflictOutcome
<1>5. CASE Refuse(c, "error")
  BY <1>1, <1>5, Refusal
<1> QED  BY <1>1, <1>2, <1>4, <1>5 DEF Outcome

LEMMA OtherOutcome ==
    ASSUME Inv, NEW c \in Clients,
           \/ DeleteProduct(c) \/ DeleteVariant(c) \/ BulkDeleteProducts(c)
           \/ DeleteCategory(c) \/ BulkDeleteCategories(c)
           \/ Restock(c) \/ Sell(c) \/ SellAndRecord(c) \/ Restore(c)
    PROVE  Outcome(c)
<1> PICK r : r = request[c]
  OBVIOUS
<1>1. PICK step \in {"delete_product", "delete_variant", "delete_products", "delete_category",
                     "delete_categories", "restock", "sell", "sell_and_record", "restore"} :
        At(c, step)
  BY DEF DeleteProduct, DeleteVariant, BulkDeleteProducts, DeleteCategory, BulkDeleteCategories,
     Restock, Sell, SellAndRecord, Restore
<1>2. r \in Request /\ Running(c) /\ r # None /\ r.op \in Operations
      /\ r.pc \in 1 .. Len(Does[r.op]) /\ step = Does[r.op][r.pc]
  BY <1>1, AtPlaces
<1>3. r.op \notin Creates \cup Edits
  BY <1>1, <1>2, Places, SMTT(30) DEF Operations, Creates, Edits
<1>4. \/ \E status \in {"409", "422", "error"} : Refuse(c, status)
      \/ \E items : Done(c, items)
  BY DEF DeleteProduct, DeleteVariant, BulkDeleteProducts, DeleteItems, DeleteCategory,
     BulkDeleteCategories, DeleteCategories, Restock, Sell, SellAndRecord, Restore
<1> QED  BY <1>2, <1>3, <1>4, Refusal DEF Outcome

\* Every step is a beginning, or a statement with its outcome.
LEMMA Outcomes ==
    ASSUME Inv, [CatalogNext]_catalog
    PROVE  UNCHANGED request \/ \E c \in Clients : Begin(c) \/ Outcome(c)
BY ReadOutcome, CheckOutcome, FlushOutcome, OtherOutcome DEF CatalogNext, catalog

\* A running request is refused by a statement of its own.
LEMMA OutcomeOf ==
    ASSUME Inv, NEW c \in Clients, Outcome(c), NEW d \in Clients, Running(d),
           request[d].op \in Creates \cup Edits, request'[d].status = "409"
    PROVE  Real(request[d], request'[d].body)
<1>1. /\ request[c] \in Request /\ request[d] \in Request /\ request[d] # None
      /\ request[d].status = "running"
  BY DEF Outcome, Running, Inv, TypeOK
<1>2. CASE GoesOn(c)
  <2>1. PICK q \in Request :
          /\ request' = [request EXCEPT ![c] = q]
          /\ q.status = "409" /\ request[c].op \in Creates \cup Edits =>
               Real(request[c], q.body)
    BY <1>2 DEF GoesOn
  <2>2. request'[c] = q /\ (d # c => request'[d] = request[d])
    BY <2>1 DEF Inv, TypeOK
  <2> QED  BY <1>1, <2>1, <2>2
<1>3. ASSUME NEW items, Done(c, items) PROVE FALSE
  <2>1. CASE d = c
    <3>1. request'[d] = Ended(request[d], "ok")
      BY <1>3, <2>1 DEF Done
    <3> QED  BY <1>1, <3>1, EndedRequest
  <2>2. CASE d # c
    <3>1. request'[d] = [request[d] EXCEPT !.missed = @ \cup items]
      BY <1>3, <2>2 DEF Done
    <3> QED  BY <1>1, <3>1 DEF Request
  <2> QED  BY <2>1, <2>2
<1> QED  BY <1>2, <1>3 DEF Outcome

\* A create or an edit is answered 409 only for a reason that is real at that
\* moment, whoever writes in between: its code, its name, its category, a null, or
\* the product it is for (services/catalog_codes.py, and the IntegrityError
\* handlers of products.py and product_variants.py).
THEOREM ConflictsReal == CatalogSpec => ConflictsAreReal
<1>1. Inv /\ [CatalogNext]_catalog =>
        \A c \in Clients :
          LET r == request[c]
              sent == request'[c].body IN
          /\ Running(c) /\ r.op \in Creates \cup Edits
          /\ request'[c] # None /\ request'[c].status = "409"
          => Real(r, sent)
  <2> SUFFICES ASSUME Inv, [CatalogNext]_catalog, NEW c \in Clients,
                      Running(c), request[c].op \in Creates \cup Edits,
                      request'[c] # None, request'[c].status = "409"
               PROVE  Real(request[c], request'[c].body)
    OBVIOUS
  <2>1. ~ UNCHANGED request
    BY DEF Running
  <2>2. ~ \E d \in Clients : Begin(d)
    <3> SUFFICES ASSUME NEW d \in Clients, Begin(d) PROVE FALSE
      OBVIOUS
    <3>1. d # c /\ request'[c] = request[c]
      BY DEF Begin, Inv, TypeOK
    <3> QED  BY <3>1 DEF Running
  <2>3. PICK d \in Clients : Outcome(d)
    BY <2>1, <2>2, Outcomes
  <2> QED  BY <2>3, OutcomeOf
<1> QED  BY <1>1, Invariance, PTL DEF CatalogSpec, ConflictsAreReal, Real

=============================================================================
