------------------------------ MODULE Numbering ------------------------------
(* Tenant-scoped numbering of orders, donations and pledges                  *)
(* (backend/app/services/numbering.py) inside the transactions that use it.  *)
(*                                                                           *)
(* A request handler runs one READ COMMITTED transaction: it takes the       *)
(* advisory lock of its series, selects MAX(number) from the committed rows, *)
(* inserts its own row with the next number and commits (or is rolled back). *)
(* PostgreSQL releases the advisory lock when the transaction ends.          *)
EXTENDS Naturals, Sequences

CONSTANTS
    Txns,       \* concurrent request handlers, each with its own session
    Series,     \* tenant and prefix ("ORD", "DON", "PLG") pairs
    Locks,      \* advisory lock keys: the values of hashtext
    LockOf,     \* hashtext of "tenant:prefix": series may collide on a lock
    Nobody,     \* the holder of a free lock
    MaxRows     \* bound: rows a series may reach

ASSUME NumberingAssumption ==
    /\ LockOf \in [Series -> Locks]
    /\ Nobody \notin Txns
    /\ MaxRows \in Nat

VARIABLES
    rows,       \* rows[s]: numbers of the committed rows of s, in commit order
    holder,     \* holder[l]: the transaction that holds advisory lock l
    pc,         \* pc[t]: the statement t executes next
    series,     \* series[t]: the series t numbers a row of
    number      \* number[t]: the number t computed for its row

vars == <<rows, holder, pc, series, number>>

Numbers(s) == {rows[s][i] : i \in DOMAIN rows[s]}

\* SELECT MAX(...): 0 when there is no row, numbering.py's "current_max or 0".
CurrentMax(s) ==
    IF Numbers(s) = {} THEN 0
    ELSE CHOOSE n \in Numbers(s) : \A m \in Numbers(s) : m <= n

-----------------------------------------------------------------------------
Init ==
    /\ rows = [s \in Series |-> <<>>]
    /\ holder = [l \in Locks |-> Nobody]
    /\ pc = [t \in Txns |-> "idle"]
    /\ series \in [Txns -> Series]
    /\ number = [t \in Txns |-> 0]

\* A handler reaches _next_number with its tenant and prefix.
Ask(t, s) ==
    /\ pc[t] = "idle"
    /\ Len(rows[s]) < MaxRows
    /\ series' = [series EXCEPT ![t] = s]
    /\ pc' = [pc EXCEPT ![t] = "lock"]
    /\ UNCHANGED <<rows, holder, number>>

\* Mutant: pg_try_advisory_xact_lock with its result ignored does not block.
TryLock(t) ==
    /\ pc[t] = "lock"
    /\ holder' = [holder EXCEPT ![LockOf[series[t]]] = IF @ = Nobody THEN t ELSE @]
    /\ pc' = [pc EXCEPT ![t] = "max"]
    /\ UNCHANGED <<rows, series, number>>

\* SELECT pg_advisory_xact_lock(hashtext(key)): blocks while another holds it.
AcquireLock(t) ==
    /\ pc[t] = "lock"
    /\ holder[LockOf[series[t]]] = Nobody
    /\ holder' = [holder EXCEPT ![LockOf[series[t]]] = t]
    /\ pc' = [pc EXCEPT ![t] = "max"]
    /\ UNCHANGED <<rows, series, number>>

\* The MAX select sees every row committed before this statement starts.
ReadMax(t) ==
    /\ pc[t] = "max"
    /\ number' = [number EXCEPT ![t] = CurrentMax(series[t]) + 1]
    /\ pc' = [pc EXCEPT ![t] = "insert"]
    /\ UNCHANGED <<rows, holder, series>>

\* db.add(row) and flush: the row is visible to its own transaction only.
Insert(t) ==
    /\ pc[t] = "insert"
    /\ pc' = [pc EXCEPT ![t] = "commit"]
    /\ UNCHANGED <<rows, holder, series, number>>

\* Mutant: a session-level pg_advisory_lock outlives the transaction.
SessionLock(t) == holder

\* The transaction's advisory locks after it has ended.
Released(t) == [l \in Locks |-> IF holder[l] = t THEN Nobody ELSE holder[l]]

\* session.commit(): the row becomes visible, then the lock is released.
Commit(t) ==
    /\ pc[t] = "commit"
    /\ rows' = [rows EXCEPT ![series[t]] = Append(@, number[t])]
    /\ holder' = Released(t)
    /\ pc' = [pc EXCEPT ![t] = "idle"]
    /\ number' = [number EXCEPT ![t] = 0]
    /\ UNCHANGED series

\* session.rollback() on any exception, or a lost connection: the row is gone.
Rollback(t) ==
    /\ pc[t] # "idle"
    /\ holder' = Released(t)
    /\ pc' = [pc EXCEPT ![t] = "idle"]
    /\ number' = [number EXCEPT ![t] = 0]
    /\ UNCHANGED <<rows, series>>

Next ==
    \E t \in Txns :
        \/ \E s \in Series : Ask(t, s)
        \/ AcquireLock(t)
        \/ ReadMax(t)
        \/ Insert(t)
        \/ Commit(t)
        \/ Rollback(t)

Spec == Init /\ [][Next]_vars

\* A running handler goes on; PostgreSQL queues the waiters of a lock in order
\* of arrival, so one that waits while the lock is freed again and again gets it.
Fairness ==
    \A t \in Txns :
        /\ SF_vars(AcquireLock(t))
        /\ WF_vars(ReadMax(t))
        /\ WF_vars(Insert(t))
        /\ WF_vars(Commit(t))

FairSpec == Spec /\ Fairness

-----------------------------------------------------------------------------
NumberingTypeOK ==
    /\ rows \in [Series -> Seq(Nat)]
    /\ holder \in [Locks -> Txns \cup {Nobody}]
    /\ pc \in [Txns -> {"idle", "lock", "max", "insert", "commit"}]
    /\ series \in [Txns -> Series]
    /\ number \in [Txns -> Nat]

\* A transaction holds an advisory lock exactly from the statement that takes it
\* to its end, and only the lock of its own series: nothing leaks on a rollback.
LockDiscipline ==
    \A t \in Txns, l \in Locks :
        holder[l] = t <=> /\ pc[t] \in {"max", "insert", "commit"}
                          /\ l = LockOf[series[t]]

\* A number computed but not yet committed is still the next one of its series:
\* no concurrent handler committed a row between the MAX select and the commit.
NumberStillNext ==
    \A t \in Txns :
        pc[t] \in {"insert", "commit"} => number[t] = Len(rows[series[t]]) + 1

\* numbering.py lines 3-4, "race-safe, gap-free": rows of a series carry
\* 1, 2, 3, ... in the order they commit, whatever was rolled back in between,
\* so the unique constraint on (tenant_id, order_number) never fires.
GapFree ==
    \A s \in Series : \A i \in DOMAIN rows[s] : rows[s][i] = i

\* The inductive invariant.
NumberingInv == NumberingTypeOK /\ LockDiscipline /\ NumberStillNext /\ GapFree

\* numbering.py lines 22-27: callers of one series serialise on the lock and
\* every handler that asks for a number ends, committed or rolled back.
HandlersEnd == \A t \in Txns : pc[t] # "idle" ~> pc[t] = "idle"

\* The series as an abstract counter: every commit issues the next number.
Counter == INSTANCE SequenceCounter WITH issued <- rows

\* Numbering implements the counter it promises.
ImplementsCounter == Counter!Spec
=============================================================================
