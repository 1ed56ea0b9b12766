--------------------------- MODULE OrderLifecycle ----------------------------
(* Status transitions of orders, donations and pledges, the fulfilment of    *)
(* storefront orders (api/v1/status_transitions.py) and the cancellation of  *)
(* POS orders (api/v1/pos.py, lines 295-355), by racing dashboard users.     *)
(*                                                                           *)
(* Each request selects its row without a lock, validates the transition     *)
(* against what it read, updates the row BY ID (the row lock is held to the  *)
(* end of the transaction, the status is not tested again), writes an audit  *)
(* row and, for a cancelled order, restores its stock.                       *)
EXTENDS Naturals, Sequences

CONSTANTS
    Txns,       \* requests, one transaction each
    Entities,   \* rows of orders, donations and pledges
    KindOf,     \* "storefront" or "pos" (orders), "donation", "pledge"
    Requests,   \* what dashboard users may ask for
    Nobody      \* the holder of a free row lock

Orders == {e \in Entities : KindOf[e] \in {"storefront", "pos"}}

ORDER_TRANSITIONS ==
    [pending |-> {"confirmed", "cancelled"}, confirmed |-> {"fulfilled", "cancelled"},
     fulfilled |-> {}, cancelled |-> {}]
DONATION_TRANSITIONS ==
    [pending |-> {"received", "cancelled"}, received |-> {"receipted", "cancelled"},
     receipted |-> {}, cancelled |-> {}]
PLEDGE_TRANSITIONS ==
    [pledged |-> {"partially_fulfilled", "lapsed"},
     partially_fulfilled |-> {"fulfilled", "lapsed"}, fulfilled |-> {}, lapsed |-> {}]
FULFILLMENT_TRANSITIONS ==
    [unfulfilled |-> {"packed"}, packed |-> {"shipped"}, shipped |-> {"delivered"},
     delivered |-> {}]
FULFILLABLE_ORDER_STATUSES == {"pending", "confirmed"}

\* The transition table of an entity's PATCH .../status endpoint.
Table(e) == CASE KindOf[e] \in {"storefront", "pos"} -> ORDER_TRANSITIONS
              [] KindOf[e] = "donation" -> DONATION_TRANSITIONS
              [] KindOf[e] = "pledge" -> PLEDGE_TRANSITIONS

Statuses == {"pending", "confirmed", "fulfilled", "cancelled", "received",
             "receipted", "pledged", "partially_fulfilled", "lapsed"}
Fulfillments == DOMAIN FULFILLMENT_TRANSITIONS

\* PATCH .../status, PATCH .../fulfillment, PATCH pos/orders/{id}/cancel
Operations == {"status", "fulfillment", "pos_cancel"}
Request == [op : Operations, entity : Entities, to : Statuses \cup Fulfillments]

ASSUME LifecycleAssumption ==
    /\ KindOf \in [Entities -> {"storefront", "pos", "donation", "pledge"}]
    /\ Requests \subseteq Request
    /\ \A q \in Requests :
          /\ q.op = "status" => q.to \in Statuses
          /\ q.op = "fulfillment" => q.entity \in Orders /\ q.to \in Fulfillments
          /\ q.op = "pos_cancel" => KindOf[q.entity] = "pos" /\ q.to = "cancelled"
    /\ Nobody \notin Txns

VARIABLES
    status,         \* status[e], committed
    fulfillment,    \* fulfillment_status of an order, "unfulfilled" for NULL
    restored,       \* the orders whose stock a committed cancellation restored
    audit,          \* committed audit_events, in commit order (not of created_at)
    holder,         \* holder[e]: the transaction that holds the row lock of e
    pc, req,        \* what each transaction does next, and its request
    loaded          \* loaded[t]: the value of the column t has read

vars == <<status, fulfillment, restored, audit, holder, pc, req, loaded>>
store == <<status, fulfillment, restored, audit>>

-----------------------------------------------------------------------------
\* The column a request changes; fulfilment has one of its own.
Column(q) == IF q.op = "fulfillment" THEN "fulfillment" ELSE "status"
Current(q) == IF Column(q) = "fulfillment" THEN fulfillment[q.entity]
              ELSE status[q.entity]

\* _validate_transition and the guards of the other two handlers.
Allowed(q) ==
    CASE q.op = "status" -> q.to \in Table(q.entity)[status[q.entity]]
      [] q.op = "pos_cancel" -> status[q.entity] = "fulfilled"
      [] q.op = "fulfillment" ->
            /\ KindOf[q.entity] = "storefront"
            /\ status[q.entity] \in FULFILLABLE_ORDER_STATUSES
            /\ q.to \in FULFILLMENT_TRANSITIONS[fulfillment[q.entity]]

Event(t) == [entity |-> req[t].entity, column |-> Column(req[t]),
             from |-> loaded[t], to |-> req[t].to]

\* Mutant: only a pending order's stock is restored.
RestoresPending(t) ==
    req[t].entity \in Orders /\ req[t].to = "cancelled" /\ loaded[t] = "pending"

\* The transition restores stock: a true transition of an order to cancelled.
Restores(t) ==
    req[t].entity \in Orders /\ req[t].to = "cancelled" /\ loaded[t] # "cancelled"

EndTxn(t) ==
    /\ holder' = [e \in Entities |-> IF holder[e] = t THEN Nobody ELSE holder[e]]
    /\ pc' = [pc EXCEPT ![t] = "done"]

-----------------------------------------------------------------------------
InitialStatus(e) == CASE KindOf[e] = "pos" -> "fulfilled"
                      [] KindOf[e] = "pledge" -> "pledged"
                      [] OTHER -> "pending"

Init ==
    /\ status = [e \in Entities |-> InitialStatus(e)]
    /\ fulfillment = [e \in Entities |-> "unfulfilled"]
    /\ restored = {}
    /\ audit = <<>>
    /\ holder = [e \in Entities |-> Nobody]
    /\ pc = [t \in Txns |-> "idle"]
    /\ req \in [Txns -> Requests]
    /\ loaded = [t \in Txns |-> "pending"]

\* The unlocked select of the row, and a legal transition from what it says.
Load(t) ==
    /\ pc[t] = "idle"
    /\ Allowed(req[t])
    /\ loaded' = [loaded EXCEPT ![t] = Current(req[t])]
    /\ pc' = [pc EXCEPT ![t] = "update"]
    /\ UNCHANGED <<store, holder, req>>

\* HTTP 404, 409 or 422.
Refuse(t) ==
    /\ pc[t] = "idle"
    /\ ~Allowed(req[t])
    /\ EndTxn(t)
    /\ UNCHANGED <<store, req, loaded>>

\* flush: UPDATE ... SET status = :to WHERE id = :id, once the row is free.
Update(t) ==
    /\ pc[t] = "update"
    /\ holder[req[t].entity] = Nobody
    /\ holder' = [holder EXCEPT ![req[t].entity] = t]
    /\ pc' = [pc EXCEPT ![t] = "commit"]
    /\ UNCHANGED <<store, req, loaded>>

\* Mutant: a failure to write the audit row is swallowed.
CommitBestEffortAudit(t) ==
    /\ pc[t] = "commit"
    /\ IF Column(req[t]) = "fulfillment"
       THEN /\ fulfillment' = [fulfillment EXCEPT ![req[t].entity] = req[t].to]
            /\ UNCHANGED status
       ELSE /\ status' = [status EXCEPT ![req[t].entity] = req[t].to]
            /\ UNCHANGED fulfillment
    /\ audit' \in {audit, Append(audit, Event(t))}
    /\ restored' = restored \cup (IF Restores(t) THEN {req[t].entity} ELSE {})
    /\ EndTxn(t)
    /\ UNCHANGED <<req, loaded>>

\* Status, audit row and restored stock commit together.
Commit(t) ==
    /\ pc[t] = "commit"
    /\ IF Column(req[t]) = "fulfillment"
       THEN /\ fulfillment' = [fulfillment EXCEPT ![req[t].entity] = req[t].to]
            /\ UNCHANGED status
       ELSE /\ status' = [status EXCEPT ![req[t].entity] = req[t].to]
            /\ UNCHANGED fulfillment
    /\ audit' = Append(audit, Event(t))
    /\ restored' = restored \cup (IF Restores(t) THEN {req[t].entity} ELSE {})
    /\ EndTxn(t)
    /\ UNCHANGED <<req, loaded>>

\* An exception or a lost connection before the commit.
Rollback(t) ==
    /\ pc[t] \in {"update", "commit"}
    /\ EndTxn(t)
    /\ UNCHANGED <<store, req, loaded>>

Finished == (\A t \in Txns : pc[t] = "done") /\ UNCHANGED vars

Step(t) == Load(t) \/ Refuse(t) \/ Update(t) \/ Commit(t)

Next == (\E t \in Txns : Step(t) \/ Rollback(t)) \/ Finished

Spec == Init /\ [][Next]_vars

-----------------------------------------------------------------------------
Events == [entity : Entities, column : {"status", "fulfillment"},
           from : Statuses \cup Fulfillments, to : Statuses \cup Fulfillments]

TypeOK ==
    /\ status \in [Entities -> Statuses]
    /\ fulfillment \in [Entities -> Fulfillments]
    /\ restored \subseteq Orders
    /\ audit \in Seq(Events)
    /\ holder \in [Entities -> Txns \cup {Nobody}]
    /\ pc \in [Txns -> {"idle", "update", "commit", "done"}]
    /\ req \in [Txns -> Requests]
    /\ loaded \in [Txns -> Statuses \cup Fulfillments]

\* The transition an event records is one of its workflow; a till order is also
\* cancelled from "fulfilled".
Legal(e) ==
    \/ e.column = "fulfillment" /\ e.to \in FULFILLMENT_TRANSITIONS[e.from]
    \/ e.column = "status" /\ e.to \in Table(e.entity)[e.from]
    \/ KindOf[e.entity] = "pos" /\ e.from = "fulfilled" /\ e.to = "cancelled"

\* No step of a workflow is skipped, even by races: an event is a transition of
\* its workflow that leaves the initial value, or one an earlier event about the
\* column had reached, so that a delivered order was packed and shipped and a
\* receipted donation received.
NoStepSkipped ==
    \A i \in DOMAIN audit :
        /\ Legal(audit[i])
        /\ \/ audit[i].from \in {"unfulfilled", InitialStatus(audit[i].entity)}
           \/ \E j \in 1..(i - 1) :
                 /\ audit[j].entity = audit[i].entity
                 /\ audit[j].column = audit[i].column
                 /\ audit[j].to = audit[i].from

\* Stock is restored for exactly the orders with an audited cancellation.
RestoredIffCancelled ==
    \A e \in Orders :
        e \in restored <=> \E i \in DOMAIN audit :
                              audit[i].entity = e /\ audit[i].to = "cancelled"

\* endpoints.md line 365, "Terminal: fulfilled, cancelled": no request changes
\* the status of a storefront order that has reached one of them.
TerminalIsFinal ==
    [][\A e \in Entities :
          KindOf[e] = "storefront" /\ status[e] \in {"fulfilled", "cancelled"}
              => status'[e] = status[e]]_vars

=============================================================================
