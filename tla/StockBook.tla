------------------------------ MODULE StockBook ------------------------------
(* What the order and inventory services promise about stock, requests being *)
(* executed whole and one at a time: units are on the shelf or in an order,  *)
(* a sale moves them out, a cancellation moves them back, a restock adds.    *)
EXTENDS Integers

CONSTANTS
    Rows,       \* stock rows: products and variants
    Orders,
    InitStock,
    Null        \* stock_qty NULL: a row no sale can take from

VARIABLES
    shelf,      \* shelf[r]: units of r in stock
    sold        \* sold[o][r]: units of r in order o, 0 unless o is open

Empty == [r \in Rows |-> 0]

Init == shelf = InitStock /\ sold = [o \in Orders |-> Empty]

\* An order takes all its units or none: sold'[o] says which.
Sell(o) ==
    /\ sold[o] = Empty
    /\ sold' = [sold EXCEPT ![o] = sold'[o]]
    /\ \A r \in Rows : sold'[o][r] > 0 => shelf[r] # Null /\ shelf[r] >= sold'[o][r]
    /\ shelf' = [r \in Rows |->
                    IF sold'[o][r] > 0 THEN shelf[r] - sold'[o][r] ELSE shelf[r]]

\* A cancelled order gives back all its units.
Cancel(o) ==
    /\ shelf' = [r \in Rows |->
                    IF sold[o][r] > 0 THEN shelf[r] + sold[o][r] ELSE shelf[r]]
    /\ sold' = [sold EXCEPT ![o] = Empty]

\* Units arrive; nothing else does.
Restock(r) ==
    /\ shelf[r] # Null /\ shelf'[r] > shelf[r]
    /\ shelf' = [shelf EXCEPT ![r] = shelf'[r]]
    /\ UNCHANGED sold

Next ==
    \/ \E o \in Orders : Sell(o) \/ Cancel(o)
    \/ \E r \in Rows : Restock(r)

Spec == Init /\ [][Next]_<<shelf, sold>>
=============================================================================
