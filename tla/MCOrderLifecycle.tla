-------------------------- MODULE MCOrderLifecycle ---------------------------
(* One row of each kind and three racing dashboard requests.          *)
EXTENDS OrderLifecycle

CONSTANTS t1, t2, t3, web, pos, don, plg

MCTxns == {t1, t2, t3}
MCEntities == {web, pos, don, plg}
MCKindOf == [e \in MCEntities |->
    CASE e = web -> "storefront" [] e = pos -> "pos"
      [] e = don -> "donation" [] e = plg -> "pledge"]

Status(e, ss) == {[op |-> "status", entity |-> e, to |-> s] : s \in ss}
Fulfil(e, fs) == {[op |-> "fulfillment", entity |-> e, to |-> f] : f \in fs}

\* Every status and fulfilment request of the three workflows, and the till's
\* cancellation.
AllRequests ==
    Status(web, {"confirmed", "fulfilled", "cancelled"})
        \cup Fulfil(web, {"packed", "shipped", "delivered"})
        \cup Fulfil(pos, {"packed"})
        \cup {[op |-> "pos_cancel", entity |-> pos, to |-> "cancelled"]}
        \cup Status(don, {"received", "receipted", "cancelled"})
        \cup Status(plg, {"partially_fulfilled", "fulfilled", "lapsed"})

CancelRaceRequests == Status(web, {"confirmed", "cancelled"})
=============================================================================
