------------------------------- MODULE Catalog -------------------------------
(* The catalogue of one tenant, edited by several people at once while items *)
(* are sold, restocked and given back (api/v1/products.py,                   *)
(* product_variants.py, categories.py, services/catalog_codes.py,            *)
(* order_create.py, inventory.py).                                           *)
(*                                                                           *)
(* A request reads in statements of their own (READ COMMITTED: each sees     *)
(* what is committed by then) and writes at its end. The writes and the      *)
(* commit are one step: they hold the locks of what they touch, so whoever   *)
(* needs it waits for the commit and then sees it. A code stands for a SKU   *)
(* or a barcode. How much stock there is, is the matter of OrderStock. The   *)
(* categories are those of the start, until they are deleted.                *)
EXTENDS Naturals, Sequences, FiniteSets

CONSTANTS
    Products, Variants, Orders,     \* ids, never used twice
    Tracked,        \* the products whose inventory is tracked
    Codes, Names,
    Categories,     \* the ids of categories a client may send
    FirstProducts, FirstVariants, FirstCategories,  \* the rows of the start
    Clients,
    MaxRequests,    \* bound: requests begun
    None

\* row: "new" before it is inserted, "gone" after it is deleted. variants and
\* orders name their product, orders their variant. A product has a name of its
\* own and may be of a category; the name of a variant is not unique.
Item == [row : {"new", "live", "gone"}, code : Codes \cup {None}, product : Products \cup {None},
         name : Names \cup {None}, category : Categories \cup {None}]
Live(table) == {i \in DOMAIN table : table[i].row = "live"}

\* missed: the items that have taken their code since the request looked.
Operations == {"create_product", "update_product", "delete_product", "bulk_delete_products",
               "restock_product", "create_variant", "update_variant", "delete_variant",
               "delete_category", "bulk_delete_categories",
               "submit_order", "create_pos_order", "cancel_order"}
Edits == {"update_product", "update_variant"}
Creates == {"create_product", "create_variant"}

\* What the flush of a create or an edit sends: void, a required column set to null.
Body == [code : Codes \cup {None}, name : Names \cup {None}, category : Categories \cup {None},
         void : BOOLEAN]

\* body: what was sent, of a request the flush refused.
Request == [op : Operations, product : Products \cup {None}, variant : Variants \cup {None},
            code : Codes \cup {None}, order : Orders \cup {None},
            category : Categories \cup {None}, pc : Nat, body : Body \cup {None},
            loaded : Item \cup {None}, missed : SUBSET (Products \cup Variants),
            status : {"running", "ok", "404", "409", "422", "error"}]

ASSUME CatalogAssumption ==
    /\ Tracked \subseteq Products
    /\ MaxRequests \in Nat
    /\ None \notin Products \cup Variants \cup Orders \cup Codes \cup Names \cup Categories
    /\ None \notin Request \cup Body
    /\ Products \cap Variants = {}

\* The catalogue there is at the start: no code is of two items, no name of two
\* products.
ASSUME CatalogStart ==
    /\ FirstProducts \in [Products -> Item] /\ FirstVariants \in [Variants -> Item]
    /\ FirstCategories \subseteq Categories
    /\ \A p \in Live(FirstProducts) :
         /\ FirstProducts[p].name # None
         /\ FirstProducts[p].category \in FirstCategories \cup {None}
         /\ \A q \in Live(FirstProducts) : FirstProducts[p].name = FirstProducts[q].name => p = q
    /\ \A v \in Variants : FirstVariants[v].row = "new" => FirstVariants[v].product = None
    /\ \A v \in Live(FirstVariants) : FirstVariants[v].product \in Live(FirstProducts)
    /\ \A table, other \in {FirstProducts, FirstVariants} :
         \A i \in Live(table), j \in Live(other) :
           table[i].code = other[j].code /\ table[i].code # None => i = j

VARIABLES
    products,       \* products[p]: its row
    variants,
    categories,     \* the ids of those there are
    orders,
    movements,      \* the rows of stock_movements
    request,        \* request[c]: the latest request of c, None before the first
    begun,          \* how many were begun
    raced           \* pairs of items that took a code at the same time

catalog == <<products, variants, categories, orders, movements, request, begun, raced>>

Order == [status : {"new", "placed", "cancelled"}, product : Products \cup {None},
          variant : Variants \cup {None}]

Movement == [product : Products, variant : Variants \cup {None}, order : Orders \cup {None},
             reason : {"manual_restock", "pos_sale", "order_cancel_restore"}]

-----------------------------------------------------------------------------
(* Requests.                                                                 *)

Does == [
    create_product |-> <<"check_products", "check_variants", "insert_product">>,
    update_product |-> <<"load_product", "check_products", "check_variants", "save_product">>,
    delete_product |-> <<"load_product", "delete_product">>,
    bulk_delete_products |-> <<"delete_products">>,
    restock_product |-> <<"load_product", "restock">>,
    create_variant |-> <<"load_product", "check_products", "check_variants", "insert_variant">>,
    update_variant |-> <<"load_product", "load_variant", "check_products", "check_variants",
                         "save_variant">>,
    delete_variant |-> <<"load_product", "load_variant", "delete_variant">>,
    delete_category |-> <<"load_category", "delete_category">>,
    bulk_delete_categories |-> <<"delete_categories">>,
    submit_order |-> <<"load_product", "load_variant", "sell">>,
    create_pos_order |-> <<"load_product", "load_variant", "sell_and_record">>,
    cancel_order |-> <<"load_order", "look_for_product", "restore">>]

Sales == {"submit_order", "create_pos_order"}

Asks(ops, ps, vs, codes, gs, os) ==
    [op : ops, product : ps, variant : vs, code : codes, category : gs, order : os]
Asked ==
    LET none == {None}
        codes == Codes \cup none IN
    Asks({"create_product", "update_product"}, Products, none, codes, none, none)
    \cup Asks({"create_variant", "update_variant"}, Products, Variants, codes, none, none)
    \cup Asks({"delete_product", "restock_product"}, Products, none, none, none, none)
    \cup Asks({"bulk_delete_products", "bulk_delete_categories"}, none, none, none, none, none)
    \cup Asks({"delete_variant"}, Products, Variants, none, none, none)
    \cup Asks({"delete_category"}, none, none, none, Categories, none)
    \cup Asks(Sales, Products, Variants \cup none, none, none, Orders)
    \cup Asks({"cancel_order"}, none, none, none, none, Orders)

Running(c) == request[c] # None /\ request[c].status = "running"
At(c, step) == Running(c) /\ Does[request[c].op][request[c].pc] = step

\* New rows get new ids; the ids a client sends are of rows there are or were.
Sensible(a) ==
    LET Unused(field) == \A d \in Clients : Running(d) => request[d][field] # a[field] IN
    /\ a.op \in Sales => orders[a.order].status = "new" /\ Unused("order")
    /\ a.op = "cancel_order" => orders[a.order].status # "new"
    /\ a.product # None =>
         IF a.op = "create_product" THEN products[a.product].row = "new" /\ Unused("product")
                                    ELSE products[a.product].row # "new"
    /\ a.variant # None =>
         IF a.op = "create_variant" THEN variants[a.variant].row = "new" /\ Unused("variant")
                                    ELSE variants[a.variant].product = a.product

Begin(c) ==
    /\ ~ Running(c) /\ begun < MaxRequests
    /\ begun' = begun + 1
    /\ \E a \in {x \in Asked : Sensible(x)} :
         request' = [request EXCEPT ![c] =
           [op |-> a.op, product |-> a.product, variant |-> a.variant, code |-> a.code,
            order |-> a.order, category |-> a.category, pc |-> 1, body |-> None,
            loaded |-> None, missed |-> {}, status |-> "running"]]
    /\ UNCHANGED <<products, variants, categories, orders, movements, raced>>

Proceed(c, r) ==
    /\ request' = [request EXCEPT ![c] = [r EXCEPT !.pc = @ + 1]]
    /\ UNCHANGED <<products, variants, categories, orders, movements, begun, raced>>

Ended(r, status) == [r EXCEPT !.status = status, !.loaded = None, !.missed = {}]

\* Refused and rolled back. The status is the HTTP one; "error" is a 500.
Refuse(c, status) ==
    /\ request' = [request EXCEPT ![c] = Ended(@, status)]
    /\ UNCHANGED <<products, variants, categories, orders, movements, begun, raced>>

-----------------------------------------------------------------------------
(* Reads.                                                                    *)

LoadProduct(c) ==
    /\ At(c, "load_product")
    /\ LET r == request[c] IN
       IF products[r.product].row = "live"
       THEN Proceed(c, [r EXCEPT !.loaded = products[r.product]])
       ELSE Refuse(c, IF r.op \in Sales THEN "422" ELSE "404")

LoadVariant(c) ==
    /\ At(c, "load_variant")
    /\ LET r == request[c] IN
       CASE r.variant = None -> Proceed(c, r)
         [] r.variant # None /\ variants[r.variant].row = "live" ->
              Proceed(c, [r EXCEPT !.loaded = variants[r.variant]])
         [] OTHER -> Refuse(c, IF r.op \in Sales THEN "422" ELSE "404")

LoadCategory(c) ==
    /\ At(c, "load_category")
    /\ IF request[c].category \in categories THEN Proceed(c, request[c]) ELSE Refuse(c, "404")

Itself(r) == IF r.variant = None THEN r.product ELSE r.variant

\* Mutant: the item itself is not left out.
HoldersAll(table, r) == {i \in Live(table) : table[i].code = r.code}

\* _assert_code_unused, its two queries: the item itself may hold the code.
Holders(table, r) == {i \in Live(table) \ {Itself(r)} : table[i].code = r.code}

CheckCode(c, step, table) ==
    /\ At(c, step)
    /\ LET r == request[c] IN
       IF r.code # None /\ Holders(table, r) # {}
       THEN Refuse(c, "409")
       ELSE Proceed(c, [r EXCEPT !.missed = @ \ DOMAIN table])
CheckProducts(c) == CheckCode(c, "check_products", products)

\* Mutant: the variants are not looked at.
CheckVariantsNot(c) == CheckCode(c, "check_variants", [p \in {} |-> None])

CheckVariants(c) == CheckCode(c, "check_variants", variants)

\* restore_stock_for_cancelled_order reads the product again, whatever it was
\* when it was sold; a line without one is passed over. The status was flushed
\* by then: a second request to cancel waits for the lock of the order's row.
LoadOrder(c) ==
    /\ At(c, "load_order")
    /\ LET r == request[c]
           o == orders[r.order] IN
       IF o.status = "placed"
       THEN Proceed(c, [r EXCEPT !.product = o.product, !.variant = o.variant])
       ELSE Refuse(c, "422")

LookForProduct(c) ==
    /\ At(c, "look_for_product")
    /\ LET r == request[c]
           row == products[r.product] IN
       /\ \A d \in Clients : At(d, "restore") => request[d].order # r.order
       /\ Proceed(c, [r EXCEPT !.loaded = IF row.row = "live" THEN row ELSE None])

-----------------------------------------------------------------------------
(* Writes. PostgreSQL refuses what breaks a unique index or a foreign key.   *)

\* Committed. Who has checked its codes before did not see the item.
Done(c, items) ==
    request' = [d \in Clients |->
        CASE d = c -> Ended(request[c], "ok")
          [] d # c /\ Running(d) -> [request[d] EXCEPT !.missed = @ \cup items]
          [] OTHER -> request[d]]

\* The item has the code of the request.
Took(c, item) ==
    /\ raced' = raced \cup {{item, other} : other \in request[c].missed}
    /\ Done(c, {item})
    /\ UNCHANGED <<categories, orders, movements, begun>>

\* The flush is the first to use what is sent besides the code that was checked.
\* An edit may leave the code alone, or set columns to null that must not be.
Sent(r) ==
    {b \in Body :
        /\ \/ b.code = r.code
           \/ r.op \in Edits /\ r.code = None /\ b.code = r.loaded.code
        /\ IF r.variant = None THEN b.name # None ELSE b.name = None /\ b.category = None
        /\ b.void => r.op \in Edits}

\* Only what differs from the loaded row is written. One answer for all that
\* the database refuses: a unique index, a foreign key or a null.
Written(r, b) ==
    LET from == IF r.op \in Edits THEN r.loaded
                                  ELSE [code |-> None, name |-> None, category |-> None] IN
    [code |-> b.code # from.code, name |-> b.name # from.name,
     category |-> b.category # from.category]
Violates(r, b, table) ==
    \/ b.void
    \/ Written(r, b).code /\ r.code # None /\ Holders(table, r) # {}
    \/ /\ Written(r, b).name /\ b.name # None
       /\ \E p \in Live(products) \ {r.product} : products[p].name = b.name
    \/ Written(r, b).category /\ b.category \notin categories \cup {None}
    \/ r.op = "create_variant" /\ products[r.product].row # "live"

Conflict(c, b) ==
    /\ request' = [request EXCEPT ![c] = [Ended(@, "409") EXCEPT !.body = b]]
    /\ UNCHANGED <<products, variants, categories, orders, movements, begun, raced>>

InsertProduct(c) ==
    /\ At(c, "insert_product")
    /\ LET r == request[c] IN
       \E b \in Sent(r) :
         IF Violates(r, b, products) THEN Conflict(c, b)
         ELSE /\ products' = [products EXCEPT ![r.product] =
                    [row |-> "live", code |-> r.code, product |-> None, name |-> b.name,
                     category |-> b.category]]
              /\ Took(c, r.product)
              /\ UNCHANGED variants

\* The product may be gone.
InsertVariant(c) ==
    /\ At(c, "insert_variant")
    /\ LET r == request[c] IN
       \E b \in Sent(r) :
         IF Violates(r, b, variants) THEN Conflict(c, b)
         ELSE /\ variants' = [variants EXCEPT ![r.variant] =
                    [row |-> "live", code |-> r.code, product |-> r.product, name |-> None,
                     category |-> None]]
              /\ Took(c, r.variant)
              /\ UNCHANGED products

Saved(r, b, row) ==
    [row EXCEPT !.code = IF Written(r, b).code THEN b.code ELSE @,
                !.name = IF Written(r, b).name THEN b.name ELSE @,
                !.category = IF Written(r, b).category THEN b.category ELSE @]

\* The UPDATE, or the refresh after it, finds no row when the item is gone.
Saves(r, b, table) == table[Itself(r)].row = "live" /\ ~ Violates(r, b, table)
Unsaved(c, b, table) ==
    IF table[Itself(request[c])].row = "live" THEN Conflict(c, b) ELSE Refuse(c, "error")
Stored(c, b, item) ==
    IF Written(request[c], b).code
    THEN Took(c, item)
    ELSE Done(c, {}) /\ UNCHANGED <<categories, orders, movements, begun, raced>>

SaveProduct(c) ==
    /\ At(c, "save_product")
    /\ LET r == request[c] IN
       \E b \in Sent(r) :
         IF Saves(r, b, products)
         THEN /\ products' = [products EXCEPT ![r.product] = Saved(r, b, @)]
              /\ Stored(c, b, r.product)
              /\ UNCHANGED variants
         ELSE Unsaved(c, b, products)

SaveVariant(c) ==
    /\ At(c, "save_variant")
    /\ LET r == request[c] IN
       \E b \in Sent(r) :
         IF Saves(r, b, variants)
         THEN /\ variants' = [variants EXCEPT ![r.variant] = Saved(r, b, @)]
              /\ Stored(c, b, r.variant)
              /\ UNCHANGED products
         ELSE Unsaved(c, b, variants)

Gone(table, items) ==
    [i \in DOMAIN table |-> IF i \in items \cap Live(table)
                            THEN [table[i] EXCEPT !.row = "gone", !.code = None, !.name = None,
                                                  !.category = None]
                            ELSE table[i]]

\* Mutant: the foreign key of the variants is forgotten.
ReferencedProducts(ps, vs) == \E x \in movements : x.product \in ps

\* stock_movements has no ON DELETE: a recorded item stays.
Referenced(ps, vs) == \E x \in movements : x.product \in ps \/ x.variant \in vs

\* DELETE; the variants go with their products, in one statement.
DeleteItems(c, ps, vs) ==
    LET cascade == vs \cup {v \in Live(variants) : variants[v].product \in ps} IN
    IF Referenced(ps, cascade) THEN Refuse(c, "error")
    ELSE /\ products' = Gone(products, ps)
         /\ variants' = Gone(variants, cascade)
         /\ Done(c, {})
         /\ UNCHANGED <<categories, orders, movements, begun, raced>>

DeleteProduct(c) == At(c, "delete_product") /\ DeleteItems(c, {request[c].product}, {})
DeleteVariant(c) == At(c, "delete_variant") /\ DeleteItems(c, {}, {request[c].variant})
BulkDeleteProducts(c) ==
    /\ At(c, "delete_products")
    /\ \E ids \in (SUBSET Products) \ {{}} :
         (\A p \in ids : products[p].row # "new") /\ DeleteItems(c, ids, {})

\* DELETE: the products of a category stay, without one (SET NULL).
DeleteCategories(c, gs) ==
    /\ categories' = categories \ gs
    /\ products' = [p \in Products |->
                       [products[p] EXCEPT !.category = IF @ \in gs THEN None ELSE @]]
    /\ Done(c, {})
    /\ UNCHANGED <<variants, orders, movements, begun, raced>>

DeleteCategory(c) == At(c, "delete_category") /\ DeleteCategories(c, {request[c].category})
BulkDeleteCategories(c) ==
    /\ At(c, "delete_categories")
    /\ \E gs \in (SUBSET Categories) \ {{}} : DeleteCategories(c, gs)

Present(r) == IF r.variant = None THEN products[r.product].row = "live"
                                  ELSE variants[r.variant].row = "live"

\* record_stock_movement: its UPDATE, then the row, refused without its items.
Recorded(r, order, reason) ==
    movements' = movements \cup
        {[product |-> r.product, variant |-> r.variant, order |-> order, reason |-> reason]}
Recordable(r) == products[r.product].row = "live" /\ Present(r)

Restock(c) ==
    /\ At(c, "restock")
    /\ LET r == request[c] IN
       CASE r.product \notin Tracked -> Refuse(c, "422")
         [] r.product \in Tracked /\ ~ Recordable(r) -> Refuse(c, "error")
         [] OTHER -> /\ Recorded(r, None, "manual_restock")
                     /\ Done(c, {})
                     /\ UNCHANGED <<products, variants, categories, orders, begun, raced>>

Placed(r) ==
    orders' = [orders EXCEPT ![r.order] =
                 [status |-> "placed", product |-> r.product, variant |-> r.variant]]

\* A storefront order decrements the stock and records no movement.
Sell(c) ==
    /\ At(c, "sell")
    /\ LET r == request[c] IN
       IF r.product \in Tracked /\ ~ Present(r) THEN Refuse(c, "409")
       ELSE /\ Placed(r) /\ Done(c, {})
            /\ UNCHANGED <<products, variants, categories, movements, begun, raced>>

\* Mutant: the movement does not say which variant.
SellAndRecordProduct(c) ==
    /\ At(c, "sell_and_record")
    /\ LET r == request[c] IN
       IF r.product \in Tracked /\ ~ Present(r) THEN Refuse(c, "409")
       ELSE /\ Placed(r) /\ Done(c, {})
            /\ IF r.product \in Tracked
               THEN Recorded([r EXCEPT !.variant = None], r.order, "pos_sale")
               ELSE UNCHANGED movements
            /\ UNCHANGED <<products, variants, categories, begun, raced>>

SellAndRecord(c) ==
    /\ At(c, "sell_and_record")
    /\ LET r == request[c] IN
       IF r.product \in Tracked /\ ~ Present(r) THEN Refuse(c, "409")
       ELSE /\ Placed(r) /\ Done(c, {})
            /\ IF r.product \in Tracked THEN Recorded(r, r.order, "pos_sale")
                                        ELSE UNCHANGED movements
            /\ UNCHANGED <<products, variants, categories, begun, raced>>

Restore(c) ==
    /\ At(c, "restore")
    /\ LET r == request[c]
           restored == \E x \in movements :
                         /\ x.order = r.order /\ x.reason = "order_cancel_restore"
                         /\ x.product = r.product /\ x.variant = r.variant
           needed == r.loaded # None /\ r.product \in Tracked /\ ~ restored IN
       IF needed /\ ~ Recordable(r) THEN Refuse(c, "error")
       ELSE /\ orders' = [orders EXCEPT ![r.order].status = "cancelled"]
            /\ IF needed THEN Recorded(r, r.order, "order_cancel_restore")
                         ELSE UNCHANGED movements
            /\ Done(c, {})
            /\ UNCHANGED <<products, variants, categories, begun, raced>>

-----------------------------------------------------------------------------
CatalogInit ==
    /\ products = FirstProducts
    /\ variants = FirstVariants
    /\ categories = FirstCategories
    /\ orders = [o \in Orders |-> [status |-> "new", product |-> None, variant |-> None]]
    /\ movements = {}
    /\ request = [c \in Clients |-> None]
    /\ begun = 0
    /\ raced = {}

Finished == begun = MaxRequests /\ \A c \in Clients : ~ Running(c)

CatalogNext ==
    \/ \E c \in Clients :
         \/ Begin(c) \/ LoadProduct(c) \/ LoadVariant(c) \/ CheckProducts(c) \/ CheckVariants(c)
         \/ LoadCategory(c) \/ LoadOrder(c) \/ LookForProduct(c)
         \/ InsertProduct(c) \/ InsertVariant(c) \/ SaveProduct(c) \/ SaveVariant(c)
         \/ DeleteProduct(c) \/ DeleteVariant(c) \/ BulkDeleteProducts(c)
         \/ DeleteCategory(c) \/ BulkDeleteCategories(c)
         \/ Restock(c) \/ Sell(c) \/ SellAndRecord(c) \/ Restore(c)
    \/ Finished /\ UNCHANGED catalog

CatalogSpec == CatalogInit /\ [][CatalogNext]_catalog

-----------------------------------------------------------------------------
(* Properties.                                                               *)

TypeOK ==
    /\ products \in [Products -> Item]
    /\ variants \in [Variants -> Item]
    /\ categories \subseteq Categories
    /\ orders \in [Orders -> Order]
    /\ movements \subseteq Movement
    /\ request \in [Clients -> Request \cup {None}]
    /\ begun \in 0 .. MaxRequests

\* Whatever is deleted while it is sold, restocked or given back, one by one, in
\* bulk or with its product: a movement's items are there, and a variant's product.
LedgerKeepsItsItems ==
    /\ \A x \in movements : x.product \in Live(products)
                              /\ x.variant \in Live(variants) \cup {None}
    /\ \A v \in Live(variants) : variants[v].product \in Live(products)

\* A code is of one product and one variant at most, and of both only if neither
\* request could see the other's when it looked (catalog_codes.py: "It is not
\* fully race-proof across tables"): never by requests one after the other.
CodesAreSharedOnlyInARace ==
    /\ \A table \in {products, variants} : \A i, j \in Live(table) :
         table[i].code = table[j].code /\ table[i].code # None => i = j
    /\ \A p \in Live(products), v \in Live(variants) :
         products[p].code = variants[v].code /\ products[p].code # None => {p, v} \in raced

\* A create or an edit is answered 409 only for a reason that is real at that
\* moment: another item, in either table, holds the code it asks for; another
\* product has the name it sends; the category it sends is not there; it sets a
\* required column to null; or the product of the new variant was deleted. What
\* an item already has, or a reader saw and is gone, is never a reason.
ConflictsAreReal ==
    [][\A c \in Clients :
         LET r == request[c]
             sent == request'[c].body IN
         /\ Running(c) /\ r.op \in Creates \cup Edits
         /\ request'[c] # None /\ request'[c].status = "409"
         => \/ /\ r.code # None
               /\ \/ \E p \in Live(products) \ {Itself(r)} : products[p].code = r.code
                  \/ \E v \in Live(variants) \ {Itself(r)} : variants[v].code = r.code
            \/ /\ sent # None
               /\ \/ /\ sent.name # None
                     /\ \E p \in Live(products) \ {r.product} : products[p].name = sent.name
                  \/ sent.category \notin categories \cup {None}
                  \/ sent.void
            \/ r.op = "create_variant" /\ products[r.product].row = "gone"]_catalog

\* Cancelling fails with an error only for an order that is not on the ledger: a
\* storefront order of a variant that was deleted since, which can never be
\* cancelled. What is on the ledger keeps its items, and can be given back.
RecordedSalesCanBeCancelled ==
    \A c \in Clients :
        request[c] # None /\ request[c].op = "cancel_order" /\ request[c].status = "error" =>
            /\ \A x \in movements : x.order # request[c].order
            /\ ~ Recordable(request[c])

==============================================================================
