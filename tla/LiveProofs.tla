----------------------------- MODULE LiveProofs -----------------------------
(* What the relay has accepted is stored or about to be, in every session:    *)
(* whatever the pages send, with any number of faults and idle days.          *)
EXTENDS LiveSession, TLAPS

RowShape == row = NoRow \/ \E s, i : row = [state |-> s, idle |-> i]

\* A save under way has all that the relay has accepted, unless another is due.
SaveIsCurrent == save # NoDoc /\ doc # NoDoc => timer \/ Within(doc, save)

StoredInv == RowShape /\ SaveIsCurrent /\ StoredOrDue

\* What the invariant speaks of.
storage == <<doc, timer, row, save, excused>>

LEMMA WithinRefl == \A d : Within(d, d)
  BY DEF Within

LEMMA RowIsNotNoRow == \A s, i : [state |-> s, idle |-> i] # NoRow
<1> SUFFICES ASSUME NEW s, NEW i PROVE [state |-> s, idle |-> i] # NoRow
  OBVIOUS
<1>1. DOMAIN [state |-> s, idle |-> i] = {"state", "idle"}
  OBVIOUS
<1>2. DOMAIN NoRow = {"none"}
  BY DEF NoRow, NoDoc
<1> QED
  BY <1>1, <1>2

\* Setting the idle flag changes nothing that is stored.
LEMMA IdleKeepsState ==
  ASSUME RowShape, row # NoRow, NEW b, row' = [row EXCEPT !.idle = b]
  PROVE  RowShape' /\ Stored' = Stored
<1>1. PICK s, i : row = [state |-> s, idle |-> i]
  BY DEF RowShape
<1>2. row' = [state |-> s, idle |-> b]
  BY <1>1
<1>3. row' # NoRow /\ row'.state = row.state
  BY <1>1, <1>2, RowIsNotNoRow
<1> QED
  BY <1>2, <1>3 DEF RowShape, Stored

LEMMA StorageKept == ASSUME StoredInv, UNCHANGED storage PROVE StoredInv'
  BY DEF StoredInv, RowShape, SaveIsCurrent, StoredOrDue, Stored, storage

\* The constructor's load.
LEMMA LoadKeeps ==
  ASSUME StoredInv, InMemory, UNCHANGED <<timer, row, save>>
  PROVE  StoredInv'
<1>1. CASE UNCHANGED <<doc, excused>>
  BY <1>1, StorageKept DEF storage
<1>2. CASE save = NoDoc /\ doc' = Stored
  BY <1>2, WithinRefl DEF StoredInv, RowShape, SaveIsCurrent, StoredOrDue, Stored
<1>3. CASE save = NoDoc /\ excused' = TRUE
  BY <1>3 DEF StoredInv, RowShape, SaveIsCurrent, StoredOrDue
<1> QED
  BY <1>1, <1>2, <1>3 DEF InMemory

LEMMA RelayKeeps == ASSUME StoredInv, RelayStep PROVE StoredInv'
<1> USE DEF StoredInv
<1>1. ASSUME NEW c \in Pages, Accept(c) PROVE StoredInv'
  BY <1>1, LoadKeeps DEF Accept
<1>2. ASSUME NEW c \in Pages, AnswerInit(c) \/ AnswerVector(c) \/ Close(c) \/ Cut(c)
      PROVE  StoredInv'
  BY <1>2, StorageKept DEF AnswerInit, AnswerVector, Close, Cut, storage
<1>3. ASSUME NEW c \in Pages, ApplyUpdate(c) PROVE StoredInv'
  BY <1>3 DEF ApplyUpdate, SchedulePersist, RowShape, SaveIsCurrent, StoredOrDue
<1>4. CASE CloseGhost \/ AlarmDecides
  BY <1>4, StorageKept DEF CloseGhost, AlarmDecides, storage
<1>5. CASE Touch
  <2>1. CASE row' = row
    BY <1>5, <2>1, StorageKept DEF Touch, storage
  <2>2. CASE row = NoRow /\ row' = [state |-> NoDoc, idle |-> FALSE]
    <3>1. row' # NoRow /\ row'.state = NoDoc
      BY <2>2, RowIsNotNoRow
    <3>2. Stored' = Stored
      BY <2>2, <3>1 DEF Stored
    <3> QED
      BY <1>5, <2>2, <3>2 DEF Touch, RowShape, SaveIsCurrent, StoredOrDue
  <2>3. CASE row # NoRow /\ row' = [row EXCEPT !.idle = FALSE]
    <3>1. RowShape' /\ Stored' = Stored
      BY <2>3, IdleKeepsState
    <3> QED
      BY <1>5, <3>1 DEF Touch, SaveIsCurrent, StoredOrDue
  <2> QED
    BY <1>5, <2>1, <2>2, <2>3 DEF Touch
<1>6. CASE Persist
  BY <1>6, WithinRefl DEF Persist, RowShape, SaveIsCurrent, StoredOrDue, Stored
<1>7. CASE SaveLands
  <2>1. row' # NoRow /\ row'.state = save
    BY <1>7, RowIsNotNoRow DEF SaveLands
  <2>2. Stored' = save
    BY <1>7, <2>1 DEF SaveLands, Stored
  <2> QED
    BY <1>7, <2>2 DEF SaveLands, RowShape, SaveIsCurrent, StoredOrDue
<1>8. CASE SaveFails
  BY <1>8 DEF SaveFails, RowShape, SaveIsCurrent, StoredOrDue
<1>9. CASE AlarmReads
  BY <1>9, LoadKeeps DEF AlarmReads
<1>10. CASE AlarmDeletes
  BY <1>10 DEF AlarmDeletes, RowShape, SaveIsCurrent, StoredOrDue
<1>11. CASE Evict
  BY <1>11 DEF Evict, RowShape, SaveIsCurrent, StoredOrDue
<1>12. CASE DayPasses
  <2>1. RowShape' /\ Stored' = Stored
    BY <1>12, IdleKeepsState DEF DayPasses
  <2> QED
    BY <1>12, <2>1 DEF DayPasses, SaveIsCurrent, StoredOrDue
<1> QED
  BY <1>1, <1>2, <1>3, <1>4, <1>5, <1>6, <1>7, <1>8, <1>9, <1>10, <1>11, <1>12 DEF RelayStep

\* A page touches none of it.
LEMMA PageKeeps ==
  ASSUME NEW c \in Pages,
         Start(c) \/ Open(c) \/ Retry(c) \/ Deliver(c) \/ Bind(c) \/ User(c)
  PROVE  UNCHANGED storage
<1>1. CASE Start(c) \/ Open(c) \/ Retry(c)
  BY <1>1 DEF Start, Open, Retry, relayOwn, storage
<1>2. CASE Deliver(c)
  BY <1>2 DEF Deliver, PageInit, PageVector, PageDiff, PageUpdate, Receive, relayOwn, storage
<1>3. CASE Bind(c)
  BY <1>3 DEF Bind, relayOwn, storage
<1>4. CASE User(c)
  BY <1>4 DEF User, Leave, AddTab, Type, TypeSolo, RemoveTab, Act, relayOwn, storage
<1> QED
  BY <1>1, <1>2, <1>3, <1>4

\* What the relay has accepted is in its row, or a save of it is due or under way,
\* unless a statement failed or the session was cleaned up with no save since: for
\* every set of pages, any traffic, faults and days.  (applyUpdate, schedulePersist,
\* save, load, alarm)
THEOREM StoredOrDueAlways == Spec => []StoredOrDue
<1>1. Init => StoredInv
  BY DEF Init, RelayInit, StoredInv, RowShape, SaveIsCurrent, StoredOrDue
<1>2. StoredInv /\ [Next]_vars => StoredInv'
  <2> SUFFICES ASSUME StoredInv, [Next]_vars PROVE StoredInv'
    OBVIOUS
  <2>1. CASE Relay
    BY <2>1, RelayKeeps DEF Relay
  <2>2. CASE \E c \in Pages : Start(c) \/ Open(c) \/ Retry(c) \/ Deliver(c) \/ Bind(c) \/ User(c)
    BY <2>2, PageKeeps, StorageKept
  <2>3. CASE UNCHANGED vars
    BY <2>3, StorageKept DEF vars, relayVars, storage
  <2> QED
    BY <2>1, <2>2, <2>3 DEF Next
<1>3. StoredInv => StoredOrDue
  BY DEF StoredInv
<1> QED
  BY <1>1, <1>2, <1>3, PTL DEF Spec
=============================================================================
