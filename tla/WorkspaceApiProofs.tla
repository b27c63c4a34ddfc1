------------------------- MODULE WorkspaceApiProofs -------------------------
(***************************************************************************)
(* Proofs about WorkspaceApi, for any sets of ids, users, slots and bodies *)
(* and any bounds.                                                         *)
(*                                                                         *)
(* The argument: a statement only ever moves the table forward (Forward),  *)
(* so what a handler concluded from its own upsert still holds, or holds   *)
(* more strongly, when it reads the row back (RereadKnows).                *)
(***************************************************************************)
EXTENDS WorkspaceApi, TLAPS

\* t2 is a later state of table t1: rows stay, keep their owner, do not go down
\* in version, and stay deleted.
Forward(t1, t2) ==
  \A id \in Ids : Exists(t1, id) =>
    /\ Exists(t2, id)
    /\ t2[id].owner = t1[id].owner
    /\ t2[id].version >= t1[id].version
    /\ t1[id].deleted => t2[id].deleted

\* An upsert, accepted or not, yields a table, and only moves it forward.
LEMMA UpsertForward ==
  ASSUME NEW t \in Tables, NEW id \in Ids, NEW u \in Users, NEW w \in Writes,
         NEW now \in Nat
  PROVE  /\ Upserted(t, id, u, w, now) \in Tables
         /\ Forward(t, Upserted(t, id, u, w, now))
<1> DEFINE t2 == Upserted(t, id, u, w, now)
<1>1. CASE ~Wins(t, id, u, w.version)
  <2>1. t2 = t
    BY <1>1 DEF Upserted
  <2> QED
    BY <2>1 DEF Forward, Tables, Exists, Row
<1>2. CASE Wins(t, id, u, w.version)
  <2> DEFINE row == [owner |-> u, content |-> w.content, version |-> w.version,
                     updatedAt |-> now,
                     deleted |-> Exists(t, id) /\ t[id].deleted,
                     saved |-> w.saved, open |-> w.open]
  <2>1. t2 = [t EXCEPT ![id] = row]
    BY <1>2 DEF Upserted
  <2>2. (Exists(t, id) /\ t[id].deleted) \in BOOLEAN
    BY DEF Exists, Tables, Row
  <2>3. row \in Row
    BY <2>2 DEF Row, Writes
  <2>4. t2 \in Tables /\ t2[id] = row /\ \A i \in Ids \ {id} : t2[i] = t[i]
    BY <2>1, <2>3 DEF Tables
  <2>5. row # NoRow
    BY <2>3, NoRowIsNoRow
  <2>6. ASSUME NEW i \in Ids, Exists(t, i)
        PROVE  /\ Exists(t2, i)
               /\ t2[i].owner = t[i].owner
               /\ t2[i].version >= t[i].version
               /\ t[i].deleted => t2[i].deleted
    <3>1. CASE i = id
      BY <1>2, <2>4, <2>5, <2>6, <3>1 DEF Wins, Exists, Writes, Tables, Row
    <3>2. CASE i # id
      BY <2>4, <2>6, <3>2 DEF Exists, Tables, Row
    <3> QED
      BY <3>1, <3>2
  <2> QED
    BY <2>4, <2>6 DEF Forward
<1> QED
  BY <1>1, <1>2

\* An accepted upsert leaves a row of the caller's at the version sent.
LEMMA UpsertWrites ==
  ASSUME NEW t \in Tables, NEW id \in Ids, NEW u \in Users, NEW w \in Writes,
         NEW now \in Nat, Wins(t, id, u, w.version)
  PROVE  LET t2 == Upserted(t, id, u, w, now)
         IN Owns(t2, id, u) /\ t2[id].version = w.version
<1> DEFINE row == [owner |-> u, content |-> w.content, version |-> w.version,
                   updatedAt |-> now,
                   deleted |-> Exists(t, id) /\ t[id].deleted,
                   saved |-> w.saved, open |-> w.open]
<1>1. Upserted(t, id, u, w, now) = [t EXCEPT ![id] = row]
  BY DEF Upserted
<1>2. (Exists(t, id) /\ t[id].deleted) \in BOOLEAN
  BY DEF Tables, Exists, Row
<1>3. row \in Row
  BY <1>2 DEF Row, Writes
<1> QED
  BY <1>1, <1>3, NoRowIsNoRow DEF Tables, Owns, Exists

\* A soft delete yields a table, and only moves it forward.
LEMMA SoftDeleteForward ==
  ASSUME NEW t \in Tables, NEW id \in Ids, NEW u \in Users, NEW now \in Nat
  PROVE  /\ SoftDeleted(t, id, u, now) \in Tables
         /\ Forward(t, SoftDeleted(t, id, u, now))
<1> DEFINE t2 == SoftDeleted(t, id, u, now)
<1>1. CASE ~Owns(t, id, u)
  <2>1. t2 = t
    BY <1>1 DEF SoftDeleted
  <2> QED
    BY <2>1 DEF Forward, Tables, Exists, Row
<1>2. CASE Owns(t, id, u)
  <2>1. t[id] \in Row
    BY <1>2 DEF Owns, Exists, Tables
  <2> DEFINE row == [owner |-> u, content |-> t[id].content,
                     version |-> t[id].version + 1, updatedAt |-> now,
                     deleted |-> TRUE, saved |-> t[id].saved, open |-> t[id].open]
  <2>2. t2 = [t EXCEPT ![id] = row]
    BY <1>2 DEF SoftDeleted
  <2>3. row \in Row
    BY <2>1 DEF Row
  <2>4. t2 \in Tables /\ t2[id] = row /\ \A i \in Ids \ {id} : t2[i] = t[i]
    BY <2>2, <2>3 DEF Tables
  <2>5. row # NoRow
    BY <2>3, NoRowIsNoRow
  <2>6. row.owner = t[id].owner /\ row.version >= t[id].version /\ row.deleted
    BY <1>2, <2>1 DEF Row, Owns
  <2>7. ASSUME NEW i \in Ids, Exists(t, i)
        PROVE  /\ Exists(t2, i)
               /\ t2[i].owner = t[i].owner
               /\ t2[i].version >= t[i].version
               /\ t[i].deleted => t2[i].deleted
    <3>1. CASE i = id
      BY <2>4, <2>5, <2>6, <3>1 DEF Exists
    <3>2. CASE i # id
      BY <2>4, <2>7, <3>2 DEF Exists, Tables, Row
    <3> QED
      BY <3>1, <3>2
  <2> QED
    BY <2>4, <2>7 DEF Forward
<1> QED
  BY <1>1, <1>2

\* What a PUT writes is a write, whichever fields its body left out.
LEMMA WriteOfType ==
  ASSUME NEW r \in PutRequests
  PROVE  /\ WriteOf(r) \in Writes
         /\ WriteOf(r).version = r.body.version
<1>1. r.body \in [content : Contents, version : Nat,
                  saved : BOOLEAN \cup {Omitted}, open : BOOLEAN \cup {Omitted}]
  BY BodiesAssumption DEF PutRequests
<1>2. r.kept.saved \in BOOLEAN /\ r.kept.open \in BOOLEAN
  BY DEF PutRequests, Flags
<1>3. /\ Effective(r.body.saved, r.kept.saved) \in BOOLEAN
      /\ Effective(r.body.open, r.kept.open) \in BOOLEAN
  BY <1>1, <1>2 DEF Effective
<1> QED
  BY <1>1, <1>3 DEF WriteOf, Writes

-----------------------------------------------------------------------------
(* Types *)

\* The initial state satisfies every part of the invariant.
LEMMA InitIInv == Init => IInv
<1> SUFFICES ASSUME Init PROVE IInv
  OBVIOUS
<1>1. NoReply \in Replies /\ NoReply.row = NoRow /\ NoReply.status = 0
  BY DEF NoReply, Response, Replies
<1>2. TypeOK
  BY <1>1 DEF Init, TypeOK, Tables, Stages
<1>3. LocalsOK /\ RereadKnows
  BY DEF Init, LocalsOK, RereadKnows
<1>4. VerdictIsRight /\ ConflictIsNewer
  BY DEF Init, VerdictIsRight, ConflictIsNewer, Answered
<1>5. OwnRowsOnly
  BY <1>1 DEF Init, OwnRowsOnly
<1>6. ClockIsAhead /\ MissedOnlyIfLate
  BY DEF Init, ClockIsAhead, MissedOnlyIfLate, Owns, Exists
<1> QED
  BY <1>2, <1>3, <1>4, <1>5, <1>6 DEF IInv

\* Every step keeps the types and the locals of the handlers.
LEMMA TypeStep ==
  TypeOK /\ LocalsOK /\ [Next]_vars => TypeOK' /\ LocalsOK'
<1> SUFFICES ASSUME TypeOK, LocalsOK, [Next]_vars PROVE TypeOK' /\ LocalsOK'
  OBVIOUS
<1> USE DEF TypeOK, LocalsOK, Stages
<1>1. CASE UNCHANGED vars
  BY <1>1 DEF vars
<1>2. CASE Tick
  BY <1>2, BoundsAssumption DEF Tick
<1>3. ASSUME NEW s \in Slots, Refuse(s) PROVE TypeOK' /\ LocalsOK'
  BY <1>3 DEF Refuse, Respond, Response, Replies
<1>4. ASSUME NEW s \in Slots, NEW u \in Users, NEW id \in Ids,
             NEW body \in Bodies, PutCheck(s, u, id, body)
      PROVE TypeOK' /\ LocalsOK'
  <2>1. KeptFlags(id) \in Flags
    BY DEF KeptFlags, Flags, Exists, Tables, Row
  <2>2. req'[s] \in PutRequests /\ req' = [req EXCEPT ![s] = req'[s]]
    BY <1>4, <2>1 DEF PutCheck, PutRequests
  <2>3. CASE Respond(s, 404, NoRow)
    BY <1>4, <2>2, <2>3 DEF PutCheck, Respond, Response, Replies
  <2>4. CASE stage' = [stage EXCEPT ![s] = "checked"] /\ UNCHANGED reply
    BY <1>4, <2>2, <2>4 DEF PutCheck
  <2> QED
    BY <1>4, <2>3, <2>4 DEF PutCheck
<1>5. ASSUME NEW s \in Slots, NEW u \in Users, NEW id \in Ids, DeleteStamp(s, u, id)
      PROVE TypeOK' /\ LocalsOK'
  <2>1. req'[s] \in DeleteRequests /\ req' = [req EXCEPT ![s] = req'[s]]
    BY <1>5 DEF DeleteStamp, DeleteRequests
  <2> QED
    BY <1>5, <2>1 DEF DeleteStamp
<1>6. ASSUME NEW s \in Slots, PutStamp(s) PROVE TypeOK' /\ LocalsOK'
  <2>1. req'[s] \in PutRequests /\ req' = [req EXCEPT ![s] = req'[s]]
    BY <1>6 DEF PutStamp, PutRequests
  <2> QED
    BY <1>6, <2>1 DEF PutStamp
<1>7. ASSUME NEW s \in Slots, PutUpsert(s) PROVE TypeOK' /\ LocalsOK'
  <2>1. req[s] \in PutRequests
    BY <1>7 DEF PutUpsert
  <2>2. table' \in Tables
    BY <1>7, <2>1, WriteOfType, UpsertForward DEF PutUpsert, PutRequests
  <2>3. seen' \in [Pullers -> SUBSET Ids] /\ late' \in SUBSET Ids
    BY <1>7, <2>1 DEF PutUpsert, Wrote, PutRequests
  <2> QED
    BY <1>7, <2>2, <2>3 DEF PutUpsert
<1>8. ASSUME NEW s \in Slots, PutReread(s) PROVE TypeOK' /\ LocalsOK'
  <2>1. PICK code \in {200, 404, 409}, row \in Row \cup {NoRow} : Respond(s, code, row)
    <3>1. req[s].id \in Ids
      BY <1>8 DEF PutReread, PutRequests
    <3>2. OwnRow(table, req[s].id, req[s].user) \in Row \cup {NoRow}
      BY <3>1 DEF OwnRow, Tables
    <3> QED
      BY <1>8, <3>2 DEF PutReread
  <2>2. Response(code, row) \in Replies
    BY DEF Response, Replies
  <2> QED
    BY <1>8, <2>1, <2>2 DEF PutReread, Respond
<1>9. ASSUME NEW s \in Slots, Delete(s) PROVE TypeOK' /\ LocalsOK'
  <2>1. req[s] \in DeleteRequests
    BY <1>9 DEF Delete
  <2>2. table' \in Tables
    BY <1>9, <2>1, SoftDeleteForward DEF Delete, DeleteRequests
  <2>3. seen' \in [Pullers -> SUBSET Ids] /\ late' \in SUBSET Ids
    BY <1>9, <2>1 DEF Delete, Wrote, DeleteRequests
  <2>4. Response(IF Owns(table, req[s].id, req[s].user) THEN 204 ELSE 404, NoRow)
          \in Replies
    BY DEF Response, Replies
  <2> QED
    BY <1>9, <2>2, <2>3, <2>4 DEF Delete, Respond
<1>10. ASSUME NEW u \in Pullers, PullStart(u) PROVE TypeOK' /\ LocalsOK'
  BY <1>10 DEF PullStart
<1>11. ASSUME NEW u \in Pullers, PullQuery(u) PROVE TypeOK' /\ LocalsOK'
  <2>1. Listed(u) \subseteq Ids
    BY DEF Listed, LiveRows, ChangedSince
  <2> QED
    BY <1>11, <2>1 DEF PullQuery
<1> QED
  BY <1>1, <1>2, <1>3, <1>4, <1>5, <1>6, <1>7, <1>8, <1>9, <1>10, <1>11
     DEF Next, HandlerStep, DeviceStep

-----------------------------------------------------------------------------
(* What a step may change *)

\* No step moves the table anywhere but forward.
LEMMA TableForward ==
  TypeOK /\ LocalsOK /\ [Next]_vars => Forward(table, table')
<1> SUFFICES ASSUME TypeOK, LocalsOK, [Next]_vars PROVE Forward(table, table')
  OBVIOUS
<1>1. CASE UNCHANGED table
  BY <1>1 DEF Forward, Exists, TypeOK, Tables, Row
<1>2. ASSUME NEW s \in Slots, PutUpsert(s) PROVE Forward(table, table')
  <2>1. req[s] \in PutRequests
    BY <1>2 DEF PutUpsert, LocalsOK
  <2> QED
    BY <1>2, <2>1, WriteOfType, UpsertForward DEF PutUpsert, PutRequests, TypeOK
<1>3. ASSUME NEW s \in Slots, Delete(s) PROVE Forward(table, table')
  <2>1. req[s] \in DeleteRequests
    BY <1>3 DEF Delete, LocalsOK
  <2> QED
    BY <1>3, <2>1, SoftDeleteForward DEF Delete, DeleteRequests, TypeOK
<1> QED
  BY <1>1, <1>2, <1>3
     DEF Next, vars, Tick, HandlerStep, Refuse, PutCheck, PutStamp, PutReread,
         DeleteStamp, DeviceStep, PullStart, PullQuery

\* Slot s is not touched by the step: its handler, locals, reply and history.
Untouched(s) == /\ stage'[s] = stage[s]
                /\ req'[s] = req[s]
                /\ reply'[s] = reply[s]
                /\ s \in applied' <=> s \in applied

\* A step of one handler leaves the locals of every other handler alone.
LEMMA OtherSlotsUntouched ==
  ASSUME TypeOK, NEW s \in Slots, HandlerStep(s), NEW t \in Slots \ {s}
  PROVE  Untouched(t)
<1> USE DEF TypeOK, Untouched
<1>1. CASE Refuse(s)
  BY <1>1 DEF Refuse, Respond
<1>2. ASSUME NEW u \in Users, NEW id \in Ids, NEW body \in Bodies,
             PutCheck(s, u, id, body)
      PROVE Untouched(t)
  BY <1>2 DEF PutCheck, Respond
<1>3. ASSUME NEW u \in Users, NEW id \in Ids, DeleteStamp(s, u, id) PROVE Untouched(t)
  BY <1>3 DEF DeleteStamp
<1>4. CASE PutStamp(s)
  BY <1>4 DEF PutStamp
<1>5. CASE PutUpsert(s)
  BY <1>5 DEF PutUpsert
<1>6. CASE PutReread(s)
  <2>1. \E code, row : Respond(s, code, row)
    BY <1>6 DEF PutReread
  <2> QED
    BY <1>6, <2>1 DEF PutReread, Respond
<1>7. CASE Delete(s)
  BY <1>7 DEF Delete, Respond
<1> QED
  BY <1>1, <1>2, <1>3, <1>4, <1>5, <1>6, <1>7 DEF HandlerStep

\* A step of a device or of the clock leaves every handler alone.
LEMMA NoSlotTouched ==
  ASSUME TypeOK, \/ UNCHANGED vars \/ Tick \/ \E u \in Pullers : DeviceStep(u),
         NEW t \in Slots
  PROVE  Untouched(t)
BY DEF Untouched, vars, Tick, DeviceStep, PullStart, PullQuery

-----------------------------------------------------------------------------
(* The read-back *)

\* Between its upsert and its read-back, what a PUT knows of the row stays true.
LEMMA RereadStep ==
  TypeOK /\ LocalsOK /\ RereadKnows /\ [Next]_vars => RereadKnows'
<1> SUFFICES ASSUME TypeOK, LocalsOK, RereadKnows, [Next]_vars,
                    NEW t \in Slots, stage'[t] = "reread"
             PROVE  LET id == req'[t].id  v == req'[t].body.version
                    IN /\ Exists(table', id)
                       /\ t \in applied' => /\ Owns(table', id, req'[t].user)
                                            /\ table'[id].version >= v
                       /\ t \notin applied' => \/ table'[id].owner # req'[t].user
                                               \/ table'[id].version > v
  BY DEF RereadKnows
<1> DEFINE id == req[t].id
           v == req[t].body.version
<1>0. TypeOK' /\ LocalsOK' /\ Forward(table, table')
  BY TypeStep, TableForward
<1>1. CASE Untouched(t)
  <2>1. stage[t] = "reread" /\ req[t] \in PutRequests
    BY <1>1 DEF Untouched, LocalsOK
  <2>2. id \in Ids /\ v \in Nat
    BY <2>1, BodiesAssumption DEF PutRequests
  <2>3. table[id] \in Row /\ table'[id] \in Row
    BY <1>0, <2>1, <2>2 DEF RereadKnows, TypeOK, Tables, Exists, Forward
  <2>4. table[id].version \in Nat /\ table'[id].version \in Nat
    BY <2>3 DEF Row
  <2>5. /\ Exists(table', id)
        /\ table'[id].owner = table[id].owner
        /\ table'[id].version >= table[id].version
    BY <1>0, <2>1, <2>2 DEF RereadKnows, Forward
  <2>6. /\ t \in applied => Owns(table, id, req[t].user) /\ table[id].version >= v
        /\ t \notin applied => \/ table[id].owner # req[t].user
                               \/ table[id].version > v
    BY <2>1 DEF RereadKnows
  <2>7. t \in applied => table'[id].version >= v
    BY <2>2, <2>4, <2>5, <2>6
  <2>8. t \notin applied => \/ table'[id].owner # req[t].user
                           \/ table'[id].version > v
    BY <2>2, <2>4, <2>5, <2>6
  <2> QED
    BY <1>1, <2>5, <2>6, <2>7, <2>8 DEF Untouched, Owns
<1>2. CASE HandlerStep(t)
  <2>1. PutUpsert(t)
    BY <1>2 DEF HandlerStep, TypeOK, Refuse, PutCheck, DeleteStamp, PutStamp,
                PutReread, Delete, Respond
  <2>2. /\ req' = req /\ req[t] \in PutRequests
        /\ table' = Upserted(table, id, req[t].user, WriteOf(req[t]), req[t].now)
        /\ applied' = IF Wins(table, id, req[t].user, v) THEN applied \cup {t}
                                                        ELSE applied
        /\ t \notin applied
    BY <2>1 DEF PutUpsert, LocalsOK
  <2>3. id \in Ids /\ v \in Nat /\ req[t].user \in Users
    BY <2>2, BodiesAssumption DEF PutRequests
  <2>4. WriteOf(req[t]).version = v
    BY <2>2, WriteOfType
  <2>5. CASE Wins(table, id, req[t].user, v)
    <3>1. WriteOf(req[t]) \in Writes /\ req[t].now \in Nat
      BY <2>2, WriteOfType DEF PutRequests
    <3>2. Owns(table', id, req[t].user) /\ table'[id].version = v
      BY <2>2, <2>3, <2>4, <2>5, <3>1, UpsertWrites DEF TypeOK
    <3> QED
      BY <2>2, <2>3, <2>5, <3>2 DEF Owns
  <2>6. CASE ~Wins(table, id, req[t].user, v)
    <3>1. table' = table
      BY <2>2, <2>4, <2>6 DEF Upserted
    <3>2. Exists(table, id) /\ (table[id].owner # req[t].user \/ ~(v >= table[id].version))
      BY <2>6 DEF Wins
    <3>3. table[id].version \in Nat
      BY <2>3, <3>2 DEF TypeOK, Tables, Exists, Row
    <3> QED
      BY <2>2, <2>3, <2>6, <3>1, <3>2, <3>3
  <2> QED
    BY <2>5, <2>6
<1> QED
  BY <1>1, <1>2, OtherSlotsUntouched, NoSlotTouched DEF Next

\* The responses: a handler's verdict follows from what it knew at its read-back,
\* and a response once given does not change.
LEMMA RepliesStep ==
  TypeOK /\ LocalsOK /\ RereadKnows /\ VerdictIsRight /\ ConflictIsNewer
    /\ OwnRowsOnly /\ [Next]_vars
  => VerdictIsRight' /\ ConflictIsNewer' /\ OwnRowsOnly'
<1> SUFFICES ASSUME TypeOK, LocalsOK, RereadKnows, VerdictIsRight,
                    ConflictIsNewer, OwnRowsOnly, [Next]_vars, NEW t \in Slots
             PROVE  /\ Answered(t, 200)' => t \in applied'
                    /\ Answered(t, 404)' => t \notin applied'
                    /\ Answered(t, 409)' =>
                         reply'[t].row.version > req'[t].body.version
                    /\ Answered(t, 200)' =>
                         reply'[t].row.version = req'[t].body.version
                    /\ reply'[t].row # NoRow => reply'[t].row.owner = req'[t].user
  BY DEF VerdictIsRight, ConflictIsNewer, OwnRowsOnly
<1>0. NoReply.row = NoRow /\ NoReply.status = 0
  BY DEF NoReply, Response
<1>1. CASE Untouched(t)
  BY <1>1 DEF Untouched, Answered, VerdictIsRight, ConflictIsNewer, OwnRowsOnly
<1>2. CASE stage'[t] # "done"
  <2>1. reply'[t] = NoReply
    BY <1>2, TypeStep DEF LocalsOK
  <2> QED
    BY <1>0, <1>2, <2>1 DEF Answered
<1>3. CASE HandlerStep(t) /\ stage'[t] = "done"
  <2>1. CASE Refuse(t)
    BY <2>1 DEF Refuse, Respond, Response, Answered, TypeOK
  <2>2. CASE Delete(t)
    <3>1. reply'[t].row = NoRow /\ reply'[t].status \in {204, 404} /\ t \notin applied'
      BY <2>2 DEF Delete, Respond, Response, TypeOK, LocalsOK
    <3> QED
      BY <3>1 DEF Answered
  <2>3. ASSUME NEW u \in Users, NEW id \in Ids, NEW body \in Bodies,
               PutCheck(t, u, id, body)
        PROVE  /\ reply'[t].row = NoRow /\ reply'[t].status = 404
               /\ t \notin applied'
    BY <1>3, <2>3 DEF PutCheck, Respond, Response, TypeOK, LocalsOK
  <2>4. CASE PutReread(t)
    <3> DEFINE id == req[t].id
               v == req[t].body.version
               row == OwnRow(table, id, req[t].user)
    <3>1. /\ stage[t] = "reread" /\ req' = req /\ applied' = applied
          /\ req[t] \in PutRequests
      BY <2>4 DEF PutReread, LocalsOK
    <3>2. id \in Ids /\ v \in Nat
      BY <3>1, BodiesAssumption DEF PutRequests
    <3>3. /\ t \in applied => Owns(table, id, req[t].user) /\ table[id].version >= v
          /\ t \notin applied => \/ table[id].owner # req[t].user
                                 \/ table[id].version > v
      BY <3>1 DEF RereadKnows
    <3>4. CASE row = NoRow
      <4>1. Respond(t, 404, NoRow)
        BY <2>4, <3>4 DEF PutReread, Accepted
      <4>2. reply'[t].row = NoRow /\ reply'[t].status = 404
        BY <4>1 DEF Respond, Response, TypeOK
      <4>3. t \notin applied
        BY <3>3, <3>4 DEF OwnRow, Owns, Exists
      <4> QED
        BY <3>1, <4>2, <4>3 DEF Answered
    <3>5. CASE row # NoRow
      <4>1. Owns(table, id, req[t].user) /\ row = table[id]
        BY <3>5 DEF OwnRow
      <4>2. row.version \in Nat /\ row.owner = req[t].user
        BY <3>2, <4>1 DEF Owns, Exists, TypeOK, Tables, Row
      <4>3. CASE Accepted(row, v)
        <5>1. Respond(t, 200, row)
          BY <2>4, <3>5, <4>3 DEF PutReread
        <5>2. reply'[t].row = row /\ reply'[t].status = 200
          BY <5>1 DEF Respond, Response, TypeOK
        <5>3. t \in applied /\ row.version = v
          BY <3>2, <3>3, <4>1, <4>2, <4>3 DEF Accepted
        <5> QED
          BY <3>1, <4>2, <5>2, <5>3 DEF Answered
      <4>4. CASE ~Accepted(row, v)
        <5>1. Respond(t, 409, row)
          BY <2>4, <3>5, <4>4 DEF PutReread
        <5>2. reply'[t].row = row /\ reply'[t].status = 409
          BY <5>1 DEF Respond, Response, TypeOK
        <5>3. row.version > v
          BY <3>2, <3>5, <4>2, <4>4 DEF Accepted
        <5> QED
          BY <3>1, <4>2, <5>2, <5>3 DEF Answered
      <4> QED
        BY <4>3, <4>4
    <3> QED
      BY <3>4, <3>5
  <2>5. ~PutStamp(t) /\ ~PutUpsert(t)
         /\ \A u \in Users, id \in Ids : ~DeleteStamp(t, u, id)
    BY <1>3 DEF PutStamp, PutUpsert, DeleteStamp, TypeOK
  <2>6. CASE \E u \in Users, id \in Ids, body \in Bodies : PutCheck(t, u, id, body)
    BY <2>3, <2>6 DEF Answered
  <2> QED
    BY <1>3, <2>1, <2>2, <2>4, <2>5, <2>6 DEF HandlerStep
<1> QED
  BY <1>1, <1>2, <1>3, OtherSlotsUntouched, NoSlotTouched DEF Next

-----------------------------------------------------------------------------
(* Deltas *)

\* Cursors stay behind the clock, and a row can only fall behind a cursor unseen
\* if its statement ran late.
LEMMA DeltaStep ==
  TypeOK /\ LocalsOK /\ ClockIsAhead /\ MissedOnlyIfLate /\ [Next]_vars
  => ClockIsAhead' /\ MissedOnlyIfLate'
<1> SUFFICES ASSUME TypeOK, LocalsOK, ClockIsAhead, MissedOnlyIfLate, [Next]_vars
             PROVE  ClockIsAhead' /\ MissedOnlyIfLate'
  OBVIOUS
<1> USE DEF ClockIsAhead, MissedOnlyIfLate, Pending, Owns, Exists
<1>1. CASE UNCHANGED <<table, since, pull, seen, late>> /\ clock' \in {clock, clock + 1}
  BY <1>1 DEF TypeOK
<1>2. ASSUME NEW s \in Slots, NEW id \in Ids, NEW now \in Nat, NEW effective,
             Wrote(id, effective, now),
             effective \in BOOLEAN,
             UNCHANGED <<since, pull, clock>>,
             ~effective => table' = table,
             effective => /\ \A i \in Ids \ {id} : table'[i] = table[i]
                          /\ table'[id].updatedAt = now
      PROVE  ClockIsAhead' /\ MissedOnlyIfLate'
  <2>1. CASE ~effective
    BY <1>2, <2>1 DEF Wrote
  <2>2. CASE effective
    <3>1. ASSUME NEW u \in Pullers, NEW i \in Ids, Owns(table', i, u),
                 i \notin seen'[u], ~Pending(u, i)'
          PROVE  i \in late'
      <4>1. CASE i = id
        <5>1. since[u] # NoCursor /\ ~(now >= since[u])
          BY <1>2, <2>2, <3>1, <4>1
        <5>2. now < clock
          BY <5>1 DEF TypeOK
        <5> QED
          BY <1>2, <2>2, <4>1, <5>2 DEF Wrote
      <4>2. CASE i # id
        BY <1>2, <2>2, <3>1, <4>2 DEF Wrote, TypeOK
      <4> QED
        BY <4>1, <4>2
    <3> QED
      BY <1>2, <3>1
  <2> QED
    BY <1>2, <2>1, <2>2
<1>3. ASSUME NEW s \in Slots, PutUpsert(s) PROVE ClockIsAhead' /\ MissedOnlyIfLate'
  <2> DEFINE r == req[s]
             won == Wins(table, r.id, r.user, r.body.version)
  <2>1. r \in PutRequests
    BY <1>3 DEF PutUpsert, LocalsOK
  <2>2. r.id \in Ids /\ r.now \in Nat /\ WriteOf(r).version = r.body.version
    BY <2>1, WriteOfType DEF PutRequests
  <2>3. won \in BOOLEAN
    BY DEF Wins
  <2>4. /\ Wrote(r.id, won, r.now) /\ UNCHANGED <<since, pull, clock>>
        /\ table' = Upserted(table, r.id, r.user, WriteOf(r), r.now)
    BY <1>3 DEF PutUpsert
  <2>5. ~won => table' = table
    BY <2>2, <2>4 DEF Upserted
  <2>6. won => /\ \A i \in Ids \ {r.id} : table'[i] = table[i]
               /\ table'[r.id].updatedAt = r.now
    BY <2>2, <2>4 DEF Upserted, TypeOK, Tables
  <2> QED
    BY <1>2, <2>2, <2>3, <2>4, <2>5, <2>6
<1>4. ASSUME NEW s \in Slots, Delete(s) PROVE ClockIsAhead' /\ MissedOnlyIfLate'
  <2> DEFINE r == req[s]
             found == Owns(table, r.id, r.user)
  <2>1. r \in DeleteRequests
    BY <1>4 DEF Delete, LocalsOK
  <2>2. r.id \in Ids /\ r.now \in Nat /\ found \in BOOLEAN
    BY <2>1 DEF DeleteRequests
  <2>3. /\ Wrote(r.id, found, r.now) /\ UNCHANGED <<since, pull, clock>>
        /\ table' = SoftDeleted(table, r.id, r.user, r.now)
    BY <1>4 DEF Delete
  <2>4. ~found => table' = table
    BY <2>3 DEF SoftDeleted
  <2>5. found => /\ \A i \in Ids \ {r.id} : table'[i] = table[i]
                 /\ table'[r.id].updatedAt = r.now
    BY <2>2, <2>3 DEF SoftDeleted, TypeOK, Tables
  <2> QED
    BY <1>2, <2>2, <2>3, <2>4, <2>5
<1>5. ASSUME NEW u \in Pullers, PullStart(u) PROVE ClockIsAhead' /\ MissedOnlyIfLate'
  BY <1>5 DEF PullStart, TypeOK
<1>6. ASSUME NEW u \in Pullers, PullQuery(u) PROVE ClockIsAhead' /\ MissedOnlyIfLate'
  <2>1. /\ UNCHANGED <<clock, table, late>>
        /\ since' = [since EXCEPT ![u] = pull[u]]
        /\ pull' = [pull EXCEPT ![u] = NoCursor]
        /\ seen' = [seen EXCEPT ![u] = @ \cup Listed(u)]
    BY <1>6 DEF PullQuery
  <2>2. ClockIsAhead'
    BY <1>6, <2>1 DEF TypeOK
  <2>3. ASSUME NEW p \in Pullers, NEW i \in Ids, Owns(table, i, p),
               i \notin seen'[p], ~Pending(p, i)'
        PROVE  i \in late
    <3>1. CASE p = u
      <4>1. i \notin seen[u] /\ i \notin Listed(u)
        BY <2>1, <2>3, <3>1 DEF TypeOK
      <4>2. since[u] # NoCursor
        BY <2>3, <3>1, <4>1 DEF Listed, LiveRows
      <4>3. ~(table[i].updatedAt >= since[u])
        BY <2>3, <3>1, <4>1, <4>2 DEF Listed, ChangedSince
      <4> QED
        BY <2>3, <3>1, <4>1, <4>2, <4>3
    <3>2. CASE p # u
      BY <2>1, <2>3, <3>2 DEF TypeOK
    <3> QED
      BY <3>1, <3>2
  <2> QED
    BY <2>1, <2>2, <2>3
<1> QED
  BY <1>1, <1>3, <1>4, <1>5, <1>6
     DEF Next, vars, Tick, HandlerStep, Refuse, PutCheck, PutStamp, PutReread,
         DeleteStamp, DeviceStep

-----------------------------------------------------------------------------
(* The theorems *)

\* The whole invariant holds in every reachable state.
THEOREM Invariance == Spec => []IInv
<1>1. Init => IInv
  BY InitIInv
<1>2. IInv /\ [Next]_vars => IInv'
  BY TypeStep, RereadStep, RepliesStep, DeltaStep DEF IInv
<1> QED
  BY <1>1, <1>2, PTL DEF Spec

\* Type correctness of the API.
THEOREM TypeCorrect == Spec => []TypeOK
BY Invariance, PTL DEF IInv

\* A PUT answered 200 took effect and one answered 404 did not, whatever other
\* requests ran between its two statements.
THEOREM VerdictsRight == Spec => []VerdictIsRight
BY Invariance, PTL DEF IInv

\* A client that adopts the row of a 409 never goes back in version.
THEOREM ConflictsNewer == Spec => []ConflictIsNewer
BY Invariance, PTL DEF IInv

\* No response carries another user's row.
THEOREM NoForeignRows == Spec => []OwnRowsOnly
BY Invariance, PTL DEF IInv

\* Deltas miss a write only if its statement ran after the instant it was
\* stamped with.
THEOREM DeltasComplete == Spec => []MissedOnlyIfLate
BY Invariance, PTL DEF IInv

\* A write to row id alone, seen through the register: the step of LwwStore it is.
LEMMA RegisterStep ==
  ASSUME TypeOK, TypeOK', Forward(table, table'), NEW id \in Ids,
         \A i \in Ids \ {id} : table'[i] = table[i],
         \/ /\ Exists(table', id)
            /\ table'[id].deleted = (Exists(table, id) /\ table[id].deleted)
         \/ /\ Exists(table, id)
            /\ table'[id].version = table[id].version + 1
            /\ table'[id].deleted = TRUE
  PROVE  Lww!Next
<1> DEFINE R == Register
           Q == Register'
<1>1. Exists(table', id) /\ table'[id] \in Row
  BY DEF Forward, Exists, TypeOK, Tables
<1>2. Q[id] = [owner |-> table'[id].owner, version |-> table'[id].version,
               deleted |-> table'[id].deleted]
  BY <1>1 DEF Register, Exists
<1>3. \A i \in Ids \ {id} : Q[i] = R[i]
  BY DEF Register, Exists
<1>4. Lww!Only(id)
  BY <1>3 DEF Lww!Only
<1>5. CASE ~Exists(table, id)
  <2>1. R[id] = NoRow
    BY <1>5 DEF Register
  <2>2. table'[id].deleted = FALSE
    BY <1>5
  <2>3. Q[id] \in [owner : Users, version : Nat, deleted : {FALSE}]
    <3>1. table'[id].owner \in Users /\ table'[id].version \in Nat
      BY <1>1 DEF Row
    <3>2. Q[id] = [owner |-> table'[id].owner, version |-> table'[id].version,
                   deleted |-> FALSE]
      BY <1>2, <2>2
    <3> QED
      BY <3>1, <3>2
  <2> QED
    BY <1>4, <2>1, <2>3 DEF Lww!Next, Lww!Create
<1>6. CASE Exists(table, id)
  <2>1. table[id] \in Row
    BY <1>6 DEF Exists, TypeOK, Tables
  <2>2. R[id] = [owner |-> table[id].owner, version |-> table[id].version,
                 deleted |-> table[id].deleted]
    BY <1>6 DEF Register
  <2>3. R[id] # NoRow
    BY <2>1, <2>2, NoRowIsNoRegister DEF Row
  <2>4. table'[id].owner = table[id].owner /\ table'[id].version >= table[id].version
    BY <1>6 DEF Forward
  <2>5. CASE table'[id].deleted = table[id].deleted
    <3>1. Q[id] = [owner |-> R[id].owner, version |-> Q[id].version,
                   deleted |-> R[id].deleted]
      BY <1>2, <2>2, <2>4, <2>5
    <3>2. Q[id].version >= R[id].version
      BY <1>2, <2>2, <2>4
    <3> QED
      BY <1>4, <2>3, <3>1, <3>2 DEF Lww!Next, Lww!Overwrite
  <2>6. CASE table'[id].version = table[id].version + 1 /\ table'[id].deleted = TRUE
    <3>1. Q[id] = [owner |-> R[id].owner, version |-> R[id].version + 1,
                   deleted |-> TRUE]
      <4>1. R[id].owner = table[id].owner /\ R[id].version = table[id].version
        BY <2>2
      <4> QED
        BY <1>2, <2>4, <2>6, <4>1
    <3> QED
      BY <1>4, <2>3, <3>1 DEF Lww!Next, Lww!Delete
  <2>7. (Exists(table, id) /\ table[id].deleted) = table[id].deleted
    BY <1>6, <2>1 DEF Row
  <2> QED
    BY <2>5, <2>6, <2>7
<1> QED
  BY <1>5, <1>6

\* Every step of the API is a step of the register or leaves it alone.
LEMMA LwwStep ==
  IInv /\ IInv' /\ [Next]_vars => [Lww!Next]_Register
<1> SUFFICES ASSUME IInv, IInv', [Next]_vars PROVE [Lww!Next]_Register
  OBVIOUS
<1>0. TypeOK /\ TypeOK' /\ LocalsOK /\ Forward(table, table')
  BY TableForward DEF IInv
<1>1. CASE UNCHANGED table
  BY <1>1 DEF Register, Exists
<1>2. ASSUME NEW s \in Slots, PutUpsert(s) PROVE [Lww!Next]_Register
  <2> DEFINE r == req[s]
  <2>1. r \in PutRequests /\ table' = Upserted(table, r.id, r.user, WriteOf(r), r.now)
    BY <1>0, <1>2 DEF PutUpsert, LocalsOK
  <2>2. r.id \in Ids
    BY <2>1 DEF PutRequests
  <2>3. CASE ~Wins(table, r.id, r.user, WriteOf(r).version)
    BY <1>1, <2>1, <2>3 DEF Upserted
  <2>4. CASE Wins(table, r.id, r.user, WriteOf(r).version)
    <3>1. /\ \A i \in Ids \ {r.id} : table'[i] = table[i]
          /\ table'[r.id].deleted = (Exists(table, r.id) /\ table[r.id].deleted)
      BY <1>0, <2>1, <2>2, <2>4 DEF Upserted, TypeOK, Tables
    <3>2. Exists(table', r.id)
      <4>1. r.user \in Users /\ r.now \in Nat /\ WriteOf(r) \in Writes
        BY <2>1, WriteOfType DEF PutRequests
      <4> QED
        BY <1>0, <2>1, <2>2, <2>4, <4>1, UpsertWrites DEF TypeOK, Owns
    <3> QED
      BY <1>0, <2>2, <3>1, <3>2, RegisterStep
  <2> QED
    BY <2>3, <2>4
<1>3. ASSUME NEW s \in Slots, Delete(s) PROVE [Lww!Next]_Register
  <2> DEFINE r == req[s]
  <2>1. r \in DeleteRequests /\ table' = SoftDeleted(table, r.id, r.user, r.now)
    BY <1>0, <1>3 DEF Delete, LocalsOK
  <2>2. r.id \in Ids
    BY <2>1 DEF DeleteRequests
  <2>3. CASE ~Owns(table, r.id, r.user)
    BY <1>1, <2>1, <2>3 DEF SoftDeleted
  <2>4. CASE Owns(table, r.id, r.user)
    <3>1. /\ \A i \in Ids \ {r.id} : table'[i] = table[i]
          /\ table'[r.id].version = table[r.id].version + 1
          /\ table'[r.id].deleted = TRUE
      BY <1>0, <2>1, <2>2, <2>4 DEF SoftDeleted, TypeOK, Tables
    <3> QED
      BY <1>0, <2>2, <2>4, <3>1, RegisterStep DEF Owns
  <2> QED
    BY <2>3, <2>4
<1> QED
  BY <1>1, <1>2, <1>3
     DEF Next, vars, Tick, HandlerStep, Refuse, PutCheck, PutStamp, PutReread,
         DeleteStamp, DeviceStep, PullStart, PullQuery

\* The API implements the last-write-wins register: versions never decrease,
\* rows keep their owner and a deleted row stays deleted.
THEOREM ImplementsLww == Spec => IsLwwStore
<1>1. Init => Lww!Init
  BY DEF Init, Lww!Init, Register, Exists
<1>2. IInv /\ IInv' /\ [Next]_vars => [Lww!Next]_Register
  BY LwwStep
<1> QED
  BY <1>1, <1>2, Invariance, PTL DEF Spec, IsLwwStore, Lww!Spec
=============================================================================
