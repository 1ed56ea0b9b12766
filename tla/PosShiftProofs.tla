--------------------------- MODULE PosShiftProofs ----------------------------
(* Proofs about PosShift for any number of cashiers opening and closing      *)
(* shifts, selling and cancelling.                                           *)
EXTENDS PosShift, FiniteSetTheorems, TLAPS

\* The partial unique index: one shift is open, or one is being inserted.
IndexHolds ==
    /\ \A s, u \in OpenShifts : s = u
    /\ \A t \in Openers : pc[t] = "commit" =>
          OpenShifts = {} /\ \A u \in Openers : pc[u] = "commit" => u = t

\* Rows exist from the commit of the request that inserts them.
RowsCommitted ==
    /\ \A s \in Shifts : shift[s] # "none" => pc[s] = "done"
    /\ \A o \in Sales : pc[o] # "done" => order[o] = "none" /\ shift_id[o] = Nobody

\* What began before a request is over.
PastIsDone == \A t \in Txns : \A u \in before[t] : pc[u] = "done"

\* What the requests have selected: a close a committed shift, closed once it
\* is done; a sale a shift nobody had closed before it; a cancellation a
\* committed order, cancelled once it is done.
Selections ==
    /\ \A c \in Closers : pc[c] \in {"compute", "update", "commit", "done"} =>
          /\ found[c] \in Shifts /\ pc[found[c]] = "done"
          /\ pc[c] = "done" => shift[found[c]] = "closed"
    /\ \A o \in Sales : pc[o] = "commit" =>
          found[o] \in Shifts /\ \A c \in Closers \cap before[o] : found[c] # found[o]
    /\ \A u \in Cancels : pc[u] \in {"update", "commit", "done"} =>
          /\ found[u] \in Sales /\ order[found[u]] # "none"
          /\ pc[u] = "done" => order[found[u]] = "cancelled"

\* A sum is sound for what was over when the close c began.
Sound(c, sum) ==
    /\ \A o \in sum : shift_id[o] = found[c] /\ \A u \in Cancels \cap before[c] : found[u] # o
    /\ \A o \in CashSales \cap before[c] :
          shift_id[o] = found[c] /\ order[o] = "fulfilled" => o \in sum

SumsAreSound ==
    /\ \A c \in Closers : pc[c] \in {"update", "commit"} => Sound(c, cash_sales[c])
    /\ \A s \in Shifts : shift[s] = "closed" =>
          /\ closed_by[s] \in Closers /\ pc[closed_by[s]] = "done"
          /\ found[closed_by[s]] = s
          /\ Sound(closed_by[s], counted[s])

Inv == TypeOK /\ IndexHolds /\ RowsCommitted /\ PastIsDone /\ Selections
         /\ SumsAreSound /\ NoSaleAfterClose

-----------------------------------------------------------------------------
\* No row exists and no request has begun.
LEMMA InitInv == Init => Inv
<1> SUFFICES ASSUME Init PROVE Inv
  OBVIOUS
<1>1. TypeOK
  BY DEF Init, TypeOK
<1>2. IndexHolds /\ RowsCommitted /\ PastIsDone
  BY DEF Init, IndexHolds, RowsCommitted, PastIsDone, OpenShifts, Shifts, Txns, Sales
<1>3. Selections /\ SumsAreSound /\ NoSaleAfterClose
  BY DEF Init, Selections, SumsAreSound, NoSaleAfterClose, Shifts, Txns, Sales
<1> QED  BY <1>1, <1>2, <1>3 DEF Inv

\* What a step leaves of the requests that have begun and of those that are done.
Settled ==
    /\ \A t \in Txns : pc[t] # "idle" => before'[t] = before[t] /\ found'[t] = found[t]
    /\ \A t \in Txns : pc[t] = "done" => pc'[t] = "done"
    /\ \A o \in Sales : pc[o] = "done" =>
          shift_id'[o] = shift_id[o] /\ (order'[o] = "fulfilled" => order[o] = "fulfilled")

\* A sound sum remains sound: what is over cannot be sold or uncancelled again.
LEMMA SoundStays ==
    ASSUME Inv, Settled, NEW c \in Closers, pc[c] # "idle", found[c] \in Shifts,
           NEW sum \in SUBSET CashSales, Sound(c, sum)
    PROVE  /\ \A o \in sum :
                 shift_id'[o] = found'[c] /\ \A u \in Cancels \cap before'[c] : found'[u] # o
           /\ \A o \in CashSales \cap before'[c] :
                 shift_id'[o] = found'[c] /\ order'[o] = "fulfilled" => o \in sum
<1>1. found'[c] = found[c] /\ before'[c] = before[c]
  BY DEF Settled, Txns
<1>2. found[c] # Nobody
  BY ShiftAssumption DEF Shifts, Txns
<1>3. ASSUME NEW o \in sum
      PROVE  shift_id'[o] = found'[c] /\ \A u \in Cancels \cap before'[c] : found'[u] # o
  <2>1. shift_id[o] = found[c] /\ o \in Sales
    BY <1>3 DEF Sound, Sales
  <2>2. pc[o] = "done"
    BY <1>2, <2>1 DEF Inv, RowsCommitted
  <2>3. \A u \in Cancels \cap before[c] : found'[u] = found[u]
    BY DEF Settled, Inv, PastIsDone, Txns
  <2> QED  BY <1>1, <1>3, <2>1, <2>2, <2>3 DEF Settled, Sound
<1>4. ASSUME NEW o \in CashSales \cap before'[c],
             shift_id'[o] = found'[c], order'[o] = "fulfilled"
      PROVE  o \in sum
  <2>1. o \in Sales /\ o \in before[c]
    BY <1>1, <1>4 DEF Sales
  <2>2. pc[o] = "done"
    BY <2>1 DEF Inv, PastIsDone, Txns
  <2> QED  BY <1>1, <1>4, <2>1, <2>2 DEF Settled, Sound
<1> QED  BY <1>3, <1>4

\* The sums that are left alone, of the closes that go on or are done.
LEMMA SumsStay ==
    ASSUME Inv, Settled, NEW S \in SUBSET Closers, NEW R \in SUBSET Shifts,
           \A c \in S : pc'[c] \in {"update", "commit"} =>
              pc[c] \in {"update", "commit"} /\ cash_sales'[c] = cash_sales[c],
           \A s \in R : shift'[s] = "closed" =>
              shift[s] = "closed" /\ closed_by'[s] = closed_by[s] /\ counted'[s] = counted[s]
    PROVE  /\ \A c \in S : pc'[c] \in {"update", "commit"} => Sound(c, cash_sales[c])'
           /\ \A s \in R : shift'[s] = "closed" =>
                 /\ closed_by'[s] \in Closers /\ pc'[closed_by'[s]] = "done"
                 /\ found'[closed_by'[s]] = s
                 /\ Sound(closed_by[s], counted[s])'
<1>1. ASSUME NEW c \in S, pc'[c] \in {"update", "commit"} PROVE Sound(c, cash_sales[c])'
  <2>1. /\ Sound(c, cash_sales[c]) /\ cash_sales'[c] = cash_sales[c]
        /\ pc[c] # "idle" /\ found[c] \in Shifts /\ cash_sales[c] \in SUBSET CashSales
    BY <1>1 DEF Inv, SumsAreSound, Selections, TypeOK
  <2> QED  BY <2>1, SoundStays DEF Sound
<1>2. ASSUME NEW s \in R, shift'[s] = "closed"
      PROVE  /\ closed_by'[s] \in Closers /\ pc'[closed_by'[s]] = "done"
             /\ found'[closed_by'[s]] = s
             /\ Sound(closed_by[s], counted[s])'
  <2> DEFINE c == closed_by[s]
  <2>1. /\ closed_by'[s] = c /\ counted'[s] = counted[s] /\ c \in Closers
        /\ pc[c] = "done" /\ found[c] = s /\ Sound(c, counted[s])
        /\ counted[s] \in SUBSET CashSales /\ s \in Shifts
    BY <1>2 DEF Inv, SumsAreSound, TypeOK
  <2>2. pc'[c] = "done" /\ found'[c] = s
    BY <2>1 DEF Settled, Txns
  <2>3. /\ \A o \in counted[s] :
               shift_id'[o] = found'[c] /\ \A u \in Cancels \cap before'[c] : found'[u] # o
        /\ \A o \in CashSales \cap before'[c] :
               shift_id'[o] = found'[c] /\ order'[o] = "fulfilled" => o \in counted[s]
    BY <2>1, SoundStays
  <2>4. Sound(closed_by[s], counted[s])'
    BY <2>1, <2>3 DEF Sound
  <2> QED  BY <2>1, <2>2, <2>4
<1> QED  BY <1>1, <1>2

\* The past of a request remains over.
LEMMA PastStays ==
    ASSUME Inv, Settled, TypeOK',
           \A u \in Txns : \A w \in before'[u] : pc[w] = "done"
    PROVE  PastIsDone'
<1>1. \A u \in Txns : \A w \in before'[u] : w \in Txns
  BY DEF TypeOK
<1> QED  BY <1>1 DEF Settled, PastIsDone

-----------------------------------------------------------------------------
\* Every step keeps the invariant: one case per action.
LEMMA StepInv == Inv /\ [Next]_vars => Inv'
<1> SUFFICES ASSUME Inv, [Next]_vars PROVE Inv'
  OBVIOUS
<1> USE ShiftAssumption DEF Txns, Sales, Shifts
<1>t. TypeOK
  BY DEF Inv
<1>1. ASSUME NEW t \in Txns, Refuse(t) \/ Rollback(t) PROVE Inv'
  <2>1. TypeOK'
    BY <1>1, <1>t DEF Refuse, Rollback, Begin, End, store, TypeOK
  <2>2. /\ UNCHANGED <<store, found, cash_sales>> /\ pc'[t] = "failed" /\ pc[t] # "done"
        /\ \A u \in Txns \ {t} : pc'[u] = pc[u] /\ before'[u] = before[u]
        /\ pc[t] # "idle" => before'[t] = before[t]
        /\ \A u \in Txns : \A w \in before'[u] : pc[w] = "done"
        /\ \A x \in Txns : holder'[x] \in {holder[x], Nobody}
    BY <1>1, <1>t, SMTT(30) DEF Refuse, Rollback, Begin, End, TypeOK, Inv, PastIsDone
  <2>3. Settled
    BY <2>2 DEF Settled, store
  <2>4. IndexHolds'
    BY <2>2 DEF Inv, IndexHolds, OpenShifts, store
  <2>5. RowsCommitted' /\ PastIsDone'
    <3>1. RowsCommitted'
      BY <2>2 DEF Inv, RowsCommitted, store
    <3>2. PastIsDone'
      BY <2>1, <2>2, <2>3, PastStays
    <3> QED  BY <3>1, <3>2
  <2>6. Selections'
    BY <2>2 DEF Inv, Selections, RowsCommitted, store
  <2>7. NoSaleAfterClose'
    BY <2>2 DEF Inv, NoSaleAfterClose, RowsCommitted, store
  <2>8. SumsAreSound'
    BY <2>2, <2>3, SumsStay DEF SumsAreSound, store
  <2> QED  BY <2>1, <2>4, <2>5, <2>6, <2>7, <2>8 DEF Inv
<1>2. ASSUME NEW t \in Txns, NEW x, NEW next, Select(t, x, next),
             \/ t \in Openers /\ x = t /\ next = "insert"
             \/ t \in Closers /\ x \in OpenShifts /\ next = "compute"
             \/ t \in Sales /\ x \in OpenShifts /\ next = "commit"
             \/ t \in Cancels /\ x \in Sales /\ order[x] = "fulfilled" /\ next = "update"
      PROVE  Inv'
  <2>1. TypeOK'
    BY <1>2, <1>t DEF Select, Begin, store, OpenShifts, TypeOK
  <2>2. /\ UNCHANGED <<store, holder, cash_sales>> /\ pc[t] = "idle"
        /\ pc'[t] = next /\ found'[t] = x /\ before'[t] = {u \in Txns : pc[u] = "done"}
        /\ \A u \in Txns \ {t} : /\ pc'[u] = pc[u] /\ found'[u] = found[u]
                                 /\ before'[u] = before[u]
    BY <1>2, <1>t DEF Select, Begin, TypeOK
  <2>3. Settled
    BY <2>2 DEF Settled, store
  <2>4. IndexHolds'
    BY <1>2, <2>2 DEF Inv, IndexHolds, OpenShifts, store
  <2>5. RowsCommitted'
    BY <1>2, <2>2 DEF Inv, RowsCommitted, store
  <2>6. PastIsDone'
    <3>1. \A u \in Txns : \A w \in before'[u] : pc[w] = "done"
      BY <2>2 DEF Inv, PastIsDone
    <3> QED  BY <2>1, <2>3, <3>1, PastStays
  <2>7. Selections'
    <3>1. ASSUME NEW c \in Closers, pc'[c] \in {"compute", "update", "commit", "done"}
          PROVE  /\ found'[c] \in Shifts /\ pc'[found'[c]] = "done"
                 /\ pc'[c] = "done" => shift'[found'[c]] = "closed"
      BY <1>2, <2>2, <3>1 DEF Inv, Selections, RowsCommitted, OpenShifts, store
    <3>2. ASSUME NEW o \in Sales, pc'[o] = "commit"
          PROVE  /\ found'[o] \in Shifts
                 /\ \A c \in Closers \cap before'[o] : found'[c] # found'[o]
      <4>1. CASE o = t
        BY <1>2, <2>2, <4>1 DEF Inv, Selections, OpenShifts
      <4>2. CASE o # t
        BY <2>2, <3>2, <4>2 DEF Inv, Selections, PastIsDone
      <4> QED  BY <4>1, <4>2
    <3>3. ASSUME NEW u \in Cancels, pc'[u] \in {"update", "commit", "done"}
          PROVE  /\ found'[u] \in Sales /\ order'[found'[u]] # "none"
                 /\ pc'[u] = "done" => order'[found'[u]] = "cancelled"
      BY <1>2, <2>2, <3>3 DEF Inv, Selections, store
    <3> QED  BY <3>1, <3>2, <3>3 DEF Selections
  <2>8. NoSaleAfterClose'
    BY <2>2 DEF Inv, NoSaleAfterClose, RowsCommitted, PastIsDone, store
  <2>9. SumsAreSound'
    BY <1>2, <2>2, <2>3, SumsStay DEF SumsAreSound, store
  <2> QED  BY <2>1, <2>4, <2>5, <2>6, <2>7, <2>8, <2>9 DEF Inv
<1>3. ASSUME NEW t \in Txns, InsertShift(t) PROVE Inv'
  <2>1. CASE End(t, "failed")
    BY <1>1, <1>3, <2>1 DEF InsertShift, Rollback
  <2>2. CASE pc' = [pc EXCEPT ![t] = "commit"] /\ UNCHANGED holder
    <3>1. TypeOK'
      BY <1>3, <2>2, <1>t DEF InsertShift, store, TypeOK
    <3>2. /\ UNCHANGED <<store, found, cash_sales, before>> /\ t \in Openers
          /\ pc[t] = "insert" /\ pc'[t] = "commit" /\ \A u \in Txns \ {t} : pc'[u] = pc[u]
      BY <1>3, <2>2, <1>t DEF InsertShift, TypeOK
    <3>3. Settled
      BY <3>2 DEF Settled, store
    <3>4. IndexHolds'
      BY <1>3, <2>2, <3>2 DEF Inv, IndexHolds, InsertShift, IndexBusy, End, OpenShifts,
             store, TypeOK
    <3>5. RowsCommitted' /\ NoSaleAfterClose'
      BY <3>2 DEF Inv, RowsCommitted, NoSaleAfterClose, store
    <3>8. PastIsDone'
      BY <3>1, <3>2, <3>3, PastStays DEF Inv, PastIsDone
    <3>6. Selections'
      BY <3>2 DEF Inv, Selections, store
    <3>7. SumsAreSound'
      BY <3>2, <3>3, SumsStay DEF SumsAreSound, store
    <3> QED  BY <3>1, <3>4, <3>5, <3>6, <3>7, <3>8 DEF Inv
  <2> QED  BY <1>3, <2>1, <2>2 DEF InsertShift
<1>4. ASSUME NEW t \in Txns, CommitOpen(t) PROVE Inv'
  <2>1. TypeOK'
    BY <1>4, <1>t DEF CommitOpen, End, TypeOK
  <2>2. /\ UNCHANGED <<counted, closed_by, order, shift_id, found, cash_sales, before>>
        /\ t \in Openers /\ pc[t] = "commit" /\ pc'[t] = "done" /\ shift'[t] = "open"
        /\ \A u \in Txns \ {t} : pc'[u] = pc[u]
        /\ \A s \in Shifts \ {t} : shift'[s] = shift[s]
    BY <1>4, <1>t DEF CommitOpen, End, TypeOK
  <2>3. Settled
    BY <2>2 DEF Settled
  <2>4. IndexHolds'
    BY <2>2 DEF Inv, IndexHolds, OpenShifts
  <2>5. RowsCommitted' /\ NoSaleAfterClose'
    BY <2>2 DEF Inv, RowsCommitted, NoSaleAfterClose
  <2>8. PastIsDone'
    BY <2>1, <2>2, <2>3, PastStays DEF Inv, PastIsDone
  <2>6. Selections'
    BY <2>2 DEF Inv, Selections
  <2>7. SumsAreSound'
    BY <2>2, <2>3, SumsStay DEF SumsAreSound
  <2> QED  BY <2>1, <2>4, <2>5, <2>6, <2>7, <2>8 DEF Inv
<1>5. ASSUME NEW t \in Txns, ComputeCashSales(t) PROVE Inv'
  <2>1. TypeOK'
    BY <1>5, <1>t DEF ComputeCashSales, CashOf, store, TypeOK
  <2>2. /\ UNCHANGED <<store, holder, found, before>> /\ t \in Closers
        /\ pc[t] = "compute" /\ pc'[t] = "update"
        /\ cash_sales'[t] = CashOf(found[t])
        /\ \A u \in Txns \ {t} : pc'[u] = pc[u]
        /\ \A c \in Closers \ {t} : cash_sales'[c] = cash_sales[c]
    BY <1>5, <1>t DEF ComputeCashSales, TypeOK
  <2>3. Settled
    BY <2>2 DEF Settled, store
  <2>4. IndexHolds' /\ RowsCommitted' /\ NoSaleAfterClose'
    BY <2>2 DEF Inv, IndexHolds, OpenShifts, RowsCommitted, NoSaleAfterClose, store
  <2>5. PastIsDone'
    BY <2>1, <2>2, <2>3, PastStays DEF Inv, PastIsDone
  <2>6. Selections'
    BY <2>2 DEF Inv, Selections, store
  <2>7. SumsAreSound'
    <3>1. \A o \in CashSales : o \in cash_sales'[t] <=>
             shift_id[o] = found[t] /\ order[o] = "fulfilled"
      BY <2>2 DEF CashOf
    <3>2. \A u \in Cancels \cap before[t] : order[found[u]] = "cancelled"
      BY DEF Inv, PastIsDone, Selections
    <3>3. cash_sales'[t] \subseteq CashSales
      BY <2>2 DEF CashOf
    <3>4. Sound(t, cash_sales[t])'
      BY <2>2, <3>1, <3>2, <3>3 DEF Sound, store
    <3> DEFINE S == Closers \ {t}
    <3>5. /\ S \in SUBSET Closers
          /\ \A c \in S : pc'[c] \in {"update", "commit"} =>
                pc[c] \in {"update", "commit"} /\ cash_sales'[c] = cash_sales[c]
      BY <2>2
    <3> HIDE DEF S
    <3>6. /\ \A c \in S : pc'[c] \in {"update", "commit"} => Sound(c, cash_sales[c])'
          /\ \A s \in Shifts : shift'[s] = "closed" =>
                /\ closed_by'[s] \in Closers /\ pc'[closed_by'[s]] = "done"
                /\ found'[closed_by'[s]] = s
                /\ Sound(closed_by[s], counted[s])'
      BY <2>2, <2>3, <3>5, SumsStay DEF store
    <3> QED  BY <3>4, <3>6 DEF SumsAreSound, S
  <2> QED  BY <2>1, <2>4, <2>5, <2>6, <2>7 DEF Inv
<1>6. ASSUME NEW t \in Txns, UpdateShift(t) \/ UpdateOrder(t) PROVE Inv'
  <2>1. TypeOK'
    BY <1>6, <1>t DEF UpdateShift, UpdateOrder, store, TypeOK
  <2>2. /\ UNCHANGED <<store, found, cash_sales, before>> /\ t \notin Openers \cup Sales
        /\ pc[t] = "update" /\ pc'[t] = "commit" /\ \A u \in Txns \ {t} : pc'[u] = pc[u]
    BY <1>6, <1>t DEF UpdateShift, UpdateOrder, TypeOK
  <2>3. Settled
    BY <2>2 DEF Settled, store
  <2>4. IndexHolds'
    BY <2>2 DEF Inv, IndexHolds, OpenShifts, store
  <2>5. RowsCommitted' /\ NoSaleAfterClose'
    BY <2>2 DEF Inv, RowsCommitted, NoSaleAfterClose, store
  <2>6. PastIsDone'
    BY <2>1, <2>2, <2>3, PastStays DEF Inv, PastIsDone
  <2>7. Selections'
    BY <2>2 DEF Inv, Selections, store
  <2>8. SumsAreSound'
    BY <2>2, <2>3, SumsStay DEF SumsAreSound, store
  <2> QED  BY <2>1, <2>4, <2>5, <2>6, <2>7, <2>8 DEF Inv
<1>7. ASSUME NEW t \in Txns, CommitClose(t) PROVE Inv'
  <2>1. /\ t \in Closers /\ pc[t] = "commit" /\ found[t] \in Shifts /\ pc[found[t]] = "done"
        /\ Sound(t, cash_sales[t]) /\ cash_sales[t] \in SUBSET CashSales
    BY <1>7, <1>t DEF CommitClose, Inv, Selections, SumsAreSound, TypeOK
  <2>2. TypeOK'
    BY <1>7, <2>1, <1>t DEF CommitClose, End, TypeOK
  <2>3. /\ UNCHANGED <<order, shift_id, found, cash_sales, before>>
        /\ pc'[t] = "done" /\ \A u \in Txns \ {t} : pc'[u] = pc[u]
        /\ shift'[found[t]] = "closed" /\ counted'[found[t]] = cash_sales[t]
        /\ closed_by'[found[t]] = t
        /\ \A s \in Shifts \ {found[t]} : /\ shift'[s] = shift[s] /\ counted'[s] = counted[s]
                                        /\ closed_by'[s] = closed_by[s]
    BY <1>7, <2>1, <1>t DEF CommitClose, End, TypeOK
  <2>4. Settled
    BY <2>1, <2>3 DEF Settled
  <2>5. IndexHolds'
    BY <2>1, <2>3 DEF Inv, IndexHolds, OpenShifts
  <2>6. RowsCommitted' /\ NoSaleAfterClose'
    BY <2>1, <2>3 DEF Inv, RowsCommitted, NoSaleAfterClose
  <2>7. PastIsDone'
    BY <2>2, <2>3, <2>4, PastStays DEF Inv, PastIsDone
  <2>8. Selections'
    BY <2>1, <2>3 DEF Inv, Selections
  <2>9. SumsAreSound'
    <3> DEFINE R == Shifts \ {found[t]}
    <3>1. R \in SUBSET Shifts
      OBVIOUS
    <3>2. Sound(closed_by[found[t]], counted[found[t]])'
      BY <2>1, <2>3, <2>4, SoundStays DEF Sound
    <3>3. /\ \A c \in Closers : pc'[c] \in {"update", "commit"} =>
                pc[c] \in {"update", "commit"} /\ cash_sales'[c] = cash_sales[c]
          /\ \A s \in R : shift'[s] = "closed" =>
                shift[s] = "closed" /\ closed_by'[s] = closed_by[s] /\ counted'[s] = counted[s]
      BY <2>1, <2>3
    <3> HIDE DEF R
    <3>4. /\ \A c \in Closers : pc'[c] \in {"update", "commit"} => Sound(c, cash_sales[c])'
          /\ \A s \in R : shift'[s] = "closed" =>
                /\ closed_by'[s] \in Closers /\ pc'[closed_by'[s]] = "done"
                /\ found'[closed_by'[s]] = s
                /\ Sound(closed_by[s], counted[s])'
      BY <2>4, <3>1, <3>3, SumsStay
    <3> QED  BY <2>1, <2>3, <3>2, <3>4 DEF SumsAreSound, R
  <2> QED  BY <2>2, <2>5, <2>6, <2>7, <2>8, <2>9 DEF Inv
<1>8. ASSUME NEW t \in Txns, CommitSale(t) PROVE Inv'
  <2>1. TypeOK'
    BY <1>8, <1>t DEF CommitSale, End, TypeOK, Inv, Selections
  <2>2. /\ UNCHANGED <<shift, counted, closed_by, found, cash_sales, before>> /\ t \in Sales
        /\ pc[t] = "commit" /\ pc'[t] = "done" /\ \A u \in Txns \ {t} : pc'[u] = pc[u]
        /\ order'[t] = "fulfilled" /\ shift_id'[t] = found[t]
        /\ \A o \in Sales \ {t} : order'[o] = order[o] /\ shift_id'[o] = shift_id[o]
    BY <1>8, <1>t DEF CommitSale, End, TypeOK
  <2>3. Settled
    BY <2>2 DEF Settled
  <2>4. IndexHolds'
    BY <2>2 DEF Inv, IndexHolds, OpenShifts
  <2>5. RowsCommitted'
    BY <2>2 DEF Inv, RowsCommitted
  <2>6. PastIsDone'
    BY <2>1, <2>2, <2>3, PastStays DEF Inv, PastIsDone
  <2>7. Selections'
    BY <2>2 DEF Inv, Selections, RowsCommitted
  <2>8. NoSaleAfterClose'
    BY <2>2 DEF Inv, Selections, NoSaleAfterClose
  <2>9. SumsAreSound'
    BY <2>2, <2>3, SumsStay DEF SumsAreSound
  <2> QED  BY <2>1, <2>4, <2>5, <2>6, <2>7, <2>8, <2>9 DEF Inv
<1>9. ASSUME NEW t \in Txns, CommitCancel(t) PROVE Inv'
  <2>1. t \in Cancels /\ pc[t] = "commit" /\ found[t] \in Sales /\ order[found[t]] # "none"
    BY <1>9 DEF CommitCancel, Inv, Selections
  <2>2. TypeOK'
    BY <1>9, <2>1, <1>t DEF CommitCancel, End, TypeOK
  <2>3. /\ UNCHANGED <<shift, counted, closed_by, shift_id, found, cash_sales, before>>
        /\ pc'[t] = "done" /\ \A u \in Txns \ {t} : pc'[u] = pc[u]
        /\ order'[found[t]] = "cancelled"
        /\ \A o \in Sales \ {found[t]} : order'[o] = order[o]
    BY <1>9, <2>1, <1>t DEF CommitCancel, End, TypeOK
  <2>4. Settled
    BY <2>1, <2>3 DEF Settled
  <2>5. IndexHolds'
    BY <2>1, <2>3 DEF Inv, IndexHolds, OpenShifts
  <2>6. RowsCommitted' /\ NoSaleAfterClose'
    BY <2>1, <2>3 DEF Inv, RowsCommitted, NoSaleAfterClose
  <2>7. PastIsDone'
    BY <2>2, <2>3, <2>4, PastStays DEF Inv, PastIsDone
  <2>8. Selections'
    BY <2>1, <2>3 DEF Inv, Selections
  <2>9. SumsAreSound'
    BY <2>1, <2>3, <2>4, SumsStay DEF SumsAreSound
  <2> QED  BY <2>2, <2>5, <2>6, <2>7, <2>8, <2>9 DEF Inv
<1>10. ASSUME UNCHANGED vars PROVE Inv'
  <2>1. TypeOK'
    BY <1>10, <1>t DEF vars, TypeOK
  <2>2. IndexHolds' /\ RowsCommitted' /\ PastIsDone' /\ Selections' /\ NoSaleAfterClose'
    BY <1>10 DEF vars, Inv, IndexHolds, OpenShifts, RowsCommitted, PastIsDone, Selections,
                 NoSaleAfterClose
  <2>3. SumsAreSound'
    BY <1>10 DEF vars, Inv, SumsAreSound, Sound
  <2> QED  BY <2>1, <2>2, <2>3 DEF Inv
<1>11. ASSUME NEW t \in Txns, Step(t) PROVE Inv'
  <2>1. CASE CheckNoneOpen(t)
    BY <1>1, <1>2, <2>1 DEF CheckNoneOpen
  <2>2. CASE FindShiftToClose(t)
    BY <1>1, <1>2, <2>2 DEF FindShiftToClose
  <2>3. CASE FindShiftForSale(t)
    BY <1>1, <1>2, <2>3 DEF FindShiftForSale
  <2>4. CASE FindOrder(t)
    BY <1>1, <1>2, <2>4 DEF FindOrder
  <2> QED
    BY <1>3, <1>4, <1>5, <1>6, <1>7, <1>8, <1>9, <1>11, <2>1, <2>2, <2>3, <2>4 DEF Step
<1> QED  BY <1>1, <1>10, <1>11 DEF Next, Finished

\* The invariant of the till.
THEOREM Invariance == Spec => []Inv
<1>1. Inv /\ UNCHANGED vars => Inv'
  BY StepInv
<1> QED  BY InitInv, StepInv, PTL DEF Spec

\* However cashiers race, the partial unique index leaves one shift open, and
\* the sum a close writes down holds for everything that was over when the
\* close began (pos.py, _compute_cash_sales and close_shift).
THEOREM CountHolds == Spec => []CountIsSound
<1>1. Inv => Cardinality(OpenShifts) <= 1
  <2> SUFFICES ASSUME Inv PROVE Cardinality(OpenShifts) <= 1
    OBVIOUS
  <2>1. CASE OpenShifts = {}
    BY <2>1, FS_EmptySet
  <2>2. CASE OpenShifts # {}
    <3>1. PICK s : OpenShifts = {s}
      BY <2>2 DEF Inv, IndexHolds
    <3> QED  BY <3>1, FS_Singleton
  <2> QED  BY <2>1, <2>2
<1>2. Inv => \A s \in Shifts : shift[s] = "closed" =>
        LET past == before[closed_by[s]]
            live == {o \in CashSales : shift_id[o] = s /\ order[o] = "fulfilled"}
        IN  /\ \A o \in counted[s] :
                  shift_id[o] = s /\ \A u \in Cancels \cap past : found[u] # o
            /\ live \cap past \subseteq counted[s]
  BY DEF Inv, SumsAreSound, Sound
<1>3. Inv => CountIsSound
  BY <1>1, <1>2 DEF CountIsSound
<1> QED  BY <1>3, Invariance, PTL

\* A sale that begins after a close has answered joins another shift or none,
\* though neither locks the shift it has selected (pos.py, create_pos_order).
THEOREM SalesStopAtClose == Spec => []NoSaleAfterClose
<1>1. Inv => NoSaleAfterClose
  BY DEF Inv
<1> QED  BY <1>1, Invariance, PTL

=============================================================================
