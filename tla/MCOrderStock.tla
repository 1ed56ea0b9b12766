---------------------------- MODULE MCOrderStock -----------------------------
(* Two products, one variant of the first, and up to four requests.          *)
EXTENDS OrderStock, TLC

CONSTANTS t1, t2, t3, t4, pa, pb, va

Txns3 == {t1, t2, t3}
Txns4 == {t1, t2, t3, t4}
MCProducts == {pa, pb}
MCVariants == {va}
MCParentOf == [v \in MCVariants |-> pa]
Symmetry4 == Permutations(Txns4)

\* No product is tracked at the start.
Untracked == {}

\* One unit of pa, two of pb, one of the variant.
MCStock == [r \in {pa, pb, va} |-> IF r = pb THEN 2 ELSE 1]

L(r, q) == [row |-> r, qty |-> q]
Ask(k, ls) == [kind |-> k, lines |-> ls, order |-> Nobody]
Cancels(ts) == {[kind |-> "cancel", lines |-> <<>>, order |-> o] : o \in ts}

\* Sales of both channels, whose carts take shared rows in opposite orders, one
\* several units of a product, one a product and a variant of it; cancellations
\* of any of them, a restock.
TradeRequests ==
    {Ask("storefront", <<L(pa, 1), L(pb, 1)>>), Ask("storefront", <<L(pa, 1), L(va, 1)>>),
     Ask("pos", <<L(pb, 2), L(va, 1)>>), Ask("pos", <<L(va, 1), L(pb, 1)>>)}
        \cup Cancels(Txns)
        \cup {Ask("restock", <<L(pb, 1)>>)}

\* Sales and a cancellation while track_inventory and stock_qty are edited, and
\* a POS cart that crosses the storefront's. The edit page sends stock_qty null
\* together with track_inventory false.
EditRequests ==
    {Ask("storefront", <<L(pa, 1), L(pb, 1)>>), Ask("pos", <<L(pb, 2), L(pa, 1)>>)}
        \cup Cancels({t1})
        \cup {Ask("edit", <<L(pa, 2)>>), Ask("edit", <<L(va, 0)>>),
              Ask("track", <<L(pa, 1)>>), Ask("untrack", <<L(pa, Null)>>),
              Ask("restock", <<L(pa, 1)>>)}

\* Sales of one and the same product in both channels.
ChannelRequests == {Ask(k, <<L(pb, 1)>>) : k \in Sales}

\* Two lines of the same product, and its cancellation.
DuplicateRequests ==
    {Ask("storefront", <<L(pb, 1), L(pb, 1)>>)} \cup Cancels({t1})

\* A product whose stock was not tracked when it was sold.
ToggleRequests ==
    {Ask("storefront", <<L(pa, 1)>>), Ask("track", <<L(pa, 1)>>),
     Ask("untrack", <<L(pa, Null)>>)} \cup Cancels({t1})
=============================================================================
