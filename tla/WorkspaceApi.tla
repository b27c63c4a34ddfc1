---------------------------- MODULE WorkspaceApi ----------------------------
(***************************************************************************)
(* The handlers of /api/workspaces running concurrently on one database:   *)
(* functions/api/workspaces/[id].ts (PUT, DELETE), index.ts (GET) and the  *)
(* functions of functions/_lib/db.ts they await.  A handler gives up       *)
(* control at every await, so each statement it sends is an action of its  *)
(* own, and what it read or stamped earlier may be stale by then.          *)
(*                                                                         *)
(* A slot is one invocation of a PUT or DELETE handler; the devices of     *)
(* Pullers also pull deltas, each with the cursor it holds.                *)
(***************************************************************************)
EXTENDS WorkspaceTable

CONSTANTS Slots,      \* PUT and DELETE requests, all of them concurrent
          Pullers,    \* the users one of whose devices sends GETs
          Bodies,     \* request bodies of PUTs
          Omitted,    \* the value of a `saved` or `open` field not in a body
          NoCursor,   \* a device that has never pulled and sends no `since`
          MaxClock,   \* bound: ticks of the server clock
          MaxVersion  \* bound: versions a DELETE may bump a row to

ASSUME BodiesAssumption ==
  Bodies \subseteq [content : Contents, version : Nat,
                    saved : BOOLEAN \cup {Omitted},
                    open : BOOLEAN \cup {Omitted}]
ASSUME PullersAssumption == Pullers \subseteq Users
ASSUME OmittedAssumption == Omitted \notin BOOLEAN
ASSUME NoCursorAssumption == NoCursor \notin Nat
ASSUME BoundsAssumption == MaxClock \in Nat /\ MaxVersion \in Nat

VARIABLES
  clock,   \* Date.now() on the server
  table,   \* the workspaces table
  stage,   \* per slot: the statement its handler is about to run
  req,     \* per slot: the request and what its handler holds in locals
  reply,   \* per slot: the response, once there is one
  since,   \* per puller: the cursor its device holds
  pull,    \* per puller: the cursor captured by the GET in flight, if any
  seen,    \* per puller: ids whose current row its device was given (history)
  applied, \* slots whose upsert took effect (history)
  late     \* ids whose current row was stamped earlier than it was written
           \* (history)

vars == <<clock, table, stage, req, reply, since, pull, seen, applied, late>>

Writes == [content : Contents, version : Nat, saved : BOOLEAN, open : BOOLEAN]
Flags  == [saved : BOOLEAN, open : BOOLEAN]

PutRequests == [user : Users, id : Ids, body : Bodies, kept : Flags, now : Nat]
DeleteRequests == [user : Users, id : Ids, now : Nat]
Replies == [status : Nat, row : Row \cup {NoRow}]

\* "checked": the PUT holds the existing row's flags and has not stamped yet.
Stages == {"idle", "checked", "upsert", "reread", "delete", "done"}

NoRequest == [user |-> "none"]
Response(code, row) == [status |-> code, row |-> row]
NoReply == Response(0, NoRow)

Init ==
  /\ clock = 0
  /\ table = [id \in Ids |-> NoRow]
  /\ stage = [s \in Slots |-> "idle"]
  /\ req = [s \in Slots |-> NoRequest]
  /\ reply = [s \in Slots |-> NoReply]
  /\ since \in [Pullers -> {0, NoCursor}]
  /\ pull = [u \in Pullers |-> NoCursor]
  /\ seen = [u \in Pullers |-> {}]
  /\ applied = {}
  /\ late = {}

Tick == /\ clock < MaxClock
        /\ clock' = clock + 1
        /\ UNCHANGED <<table, stage, req, reply, since, pull, seen, applied,
                       late>>

-----------------------------------------------------------------------------
(* Steps shared by the handlers. *)

Respond(s, code, row) ==
  /\ stage' = [stage EXCEPT ![s] = "done"]
  /\ reply' = [reply EXCEPT ![s] = Response(code, row)]

\* Row id now has contents no device was given, stamped `now` and written at
\* `clock`; if the statement left the table alone, nothing changed.
Wrote(id, effective, now) ==
  IF effective
  THEN /\ seen' = [u \in Pullers |-> seen[u] \ {id}]
       /\ late' = IF now < clock THEN late \cup {id} ELSE late \ {id}
  ELSE UNCHANGED <<seen, late>>

\* No session, or an oversized or malformed body: answered (400 stands for 401
\* and 413 too) before any statement on the table.
Refuse(s) ==
  /\ stage[s] = "idle"
  /\ Respond(s, 400, NoRow)
  /\ UNCHANGED <<clock, table, req, since, pull, seen, applied, late>>

-----------------------------------------------------------------------------
(* PUT /api/workspaces/:id *)

\* What an omitted field falls back to: the row just read, else the schema's
\* defaults.
KeptFlags(id) ==
  IF Exists(table, id)
  THEN [saved |-> table[id].saved, open |-> table[id].open]
  ELSE [saved |-> FALSE, open |-> TRUE]

\* The SELECT of the ownership check.  Another user's id is answered 404.
PutCheck(s, u, id, body) ==
  /\ stage[s] = "idle"
  /\ req' = [req EXCEPT ![s] = [user |-> u, id |-> id, body |-> body,
                                kept |-> KeptFlags(id), now |-> 0]]
  /\ IF Exists(table, id) /\ table[id].owner # u
     THEN Respond(s, 404, NoRow)
     ELSE stage' = [stage EXCEPT ![s] = "checked"] /\ UNCHANGED reply
  /\ UNCHANGED <<clock, table, since, pull, seen, applied, late>>

\* The handler resumes with that row, and upsertWorkspace takes the time.
PutStamp(s) ==
  /\ stage[s] = "checked"
  /\ req' = [req EXCEPT ![s].now = clock]
  /\ stage' = [stage EXCEPT ![s] = "upsert"]
  /\ UNCHANGED <<clock, table, reply, since, pull, seen, applied, late>>

\* Mutant of Effective: an omitted field reaches the statement as it is.
EffectiveRaw(field, kept) == field

Effective(field, kept) == IF field = Omitted THEN kept ELSE field

\* The row a PUT writes.
WriteOf(r) ==
  [content |-> r.body.content, version |-> r.body.version,
   saved |-> Effective(r.body.saved, r.kept.saved),
   open |-> Effective(r.body.open, r.kept.open)]

PutUpsert(s) ==
  LET r   == req[s]
      won == Wins(table, r.id, r.user, r.body.version)
  IN /\ stage[s] = "upsert"
     /\ table' = Upserted(table, r.id, r.user, WriteOf(r), r.now)
     /\ applied' = IF won THEN applied \cup {s} ELSE applied
     /\ Wrote(r.id, won, r.now)
     /\ stage' = [stage EXCEPT ![s] = "reread"]
     /\ UNCHANGED <<clock, req, reply, since, pull>>

\* The read-back and the response: 200 when the stored version is not above
\* the one sent, 409 with the stored row when it is, 404 when it is not theirs.
PutReread(s) ==
  LET row == OwnRow(table, req[s].id, req[s].user)
  IN /\ stage[s] = "reread"
     /\ \/ row = NoRow /\ Respond(s, 404, NoRow)
        \/ Accepted(row, req[s].body.version) /\ Respond(s, 200, row)
        \/ /\ row # NoRow /\ ~Accepted(row, req[s].body.version)
           /\ Respond(s, 409, row)
     /\ UNCHANGED <<clock, table, req, since, pull, seen, applied, late>>

-----------------------------------------------------------------------------
(* DELETE /api/workspaces/:id *)

\* softDeleteWorkspace takes the time before it sends its statement.
DeleteStamp(s, u, id) ==
  /\ stage[s] = "idle"
  /\ req' = [req EXCEPT ![s] = [user |-> u, id |-> id, now |-> clock]]
  /\ stage' = [stage EXCEPT ![s] = "delete"]
  /\ UNCHANGED <<clock, table, reply, since, pull, seen, applied, late>>

Delete(s) ==
  LET r     == req[s]
      found == Owns(table, r.id, r.user)
  IN /\ stage[s] = "delete"
     /\ found => table[r.id].version < MaxVersion
     /\ table' = SoftDeleted(table, r.id, r.user, r.now)
     /\ Wrote(r.id, found, r.now)
     /\ Respond(s, IF found THEN 204 ELSE 404, NoRow)
     /\ UNCHANGED <<clock, req, since, pull, applied>>

-----------------------------------------------------------------------------
(* GET /api/workspaces[?since=] by a puller's device *)

\* The handler captures the cursor it will return.
PullStart(u) ==
  /\ pull[u] = NoCursor
  /\ pull' = [pull EXCEPT ![u] = clock]
  /\ UNCHANGED <<clock, table, stage, req, reply, since, seen, applied, late>>

\* The ids a GET tells its caller about.  A full snapshot lists live rows only,
\* and so tells of the deleted ones by leaving them out.
Listed(u) ==
  IF since[u] = NoCursor
  THEN LiveRows(table, u) \cup {id \in Ids : Owns(table, id, u) /\ table[id].deleted}
  ELSE ChangedSince(table, u, since[u])

\* The query runs; the device takes the rows and keeps the cursor.
PullQuery(u) ==
  /\ pull[u] # NoCursor
  /\ seen' = [seen EXCEPT ![u] = @ \cup Listed(u)]
  /\ since' = [since EXCEPT ![u] = pull[u]]
  /\ pull' = [pull EXCEPT ![u] = NoCursor]
  /\ UNCHANGED <<clock, table, stage, req, reply, applied, late>>

-----------------------------------------------------------------------------
HandlerStep(s) ==
  \/ Refuse(s)
  \/ \E u \in Users, id \in Ids :
       \/ \E body \in Bodies : PutCheck(s, u, id, body)
       \/ DeleteStamp(s, u, id)
  \/ PutStamp(s) \/ PutUpsert(s) \/ PutReread(s) \/ Delete(s)

DeviceStep(u) == PullStart(u) \/ PullQuery(u)

Next == Tick \/ (\E s \in Slots : HandlerStep(s)) \/ (\E u \in Pullers : DeviceStep(u))

Spec == Init /\ [][Next]_vars

-----------------------------------------------------------------------------
(* Properties *)

TypeOK ==
  /\ clock \in Nat
  /\ table \in Tables
  /\ stage \in [Slots -> Stages]
  /\ req \in [Slots -> PutRequests \cup DeleteRequests \cup {NoRequest}]
  /\ reply \in [Slots -> Replies]
  /\ since \in [Pullers -> Nat \cup {NoCursor}]
  /\ pull \in [Pullers -> Nat \cup {NoCursor}]
  /\ seen \in [Pullers -> SUBSET Ids]
  /\ applied \in SUBSET Slots
  /\ late \in SUBSET Ids

Answered(s, code) == /\ stage[s] = "done"
                     /\ reply[s].status = code
                     /\ req[s] \in PutRequests

\* The verdict upsertWorkspace derives from a second read is right although
\* other writes run between the two statements: a PUT answered 200 did take
\* effect, and one answered 404 did not.
VerdictIsRight ==
  \A s \in Slots : /\ Answered(s, 200) => s \in applied
                   /\ Answered(s, 404) => s \notin applied

\* A 409 always carries a row strictly newer than the one refused, so the
\* client that adopts it never goes back in version; a 200 carries exactly the
\* version sent.
ConflictIsNewer ==
  \A s \in Slots :
    /\ Answered(s, 409) => reply[s].row.version > req[s].body.version
    /\ Answered(s, 200) => reply[s].row.version = req[s].body.version

\* No response ever carries another user's row, even when the id is taken by
\* another user between the ownership check and the write.
OwnRowsOnly ==
  \A s \in Slots : reply[s].row # NoRow => reply[s].row.owner = req[s].user

\* A row a device has not been given is at or above its cursor, and so in its
\* next delta.
Pending(u, id) == since[u] = NoCursor \/ table[id].updatedAt >= since[u]

\* What index.ts and listWorkspaces promise of the early cursor and the inclusive
\* boundary: a write that commits while a GET is in flight "will be picked up on
\* the *next* pull [...] rather than silently skipped".  The code does not keep
\* it: upsertWorkspace and softDeleteWorkspace stamp a row before they send the
\* statement, so a GET may capture a later cursor and still query the old row.
NothingSkipped ==
  \A u \in Pullers, id \in Ids :
    Owns(table, id, u) /\ id \notin seen[u] => Pending(u, id)

\* What is left of that promise (NothingSkipped): only a write whose statement ran
\* later than the instant it was stamped with is ever missed.  In particular a
\* write in the very millisecond of the cursor is delivered (db.ts).
MissedOnlyIfLate ==
  \A u \in Pullers, id \in Ids :
    Owns(table, id, u) /\ id \notin seen[u] /\ ~Pending(u, id) => id \in late

\* Handlers, statements and clocks together implement the last-write-wins
\* register: versions never go down, rows keep their owner, and a deleted row
\* is never live again.
Register == [id \in Ids |->
  IF Exists(table, id)
  THEN [owner |-> table[id].owner, version |-> table[id].version,
        deleted |-> table[id].deleted]
  ELSE NoRow]

Lww == INSTANCE LwwStore WITH reg <- Register, Absent <- NoRow

IsLwwStore == Lww!Spec

-----------------------------------------------------------------------------
(* The inductive invariant behind these properties. *)

\* Each stage of a handler has the locals it needs, and no reply before "done".
LocalsOK ==
  \A s \in Slots :
    /\ stage[s] \in {"checked", "upsert", "reread"} => req[s] \in PutRequests
    /\ stage[s] = "delete" => req[s] \in DeleteRequests
    /\ stage[s] # "done" => reply[s] = NoReply
    /\ stage[s] \notin {"reread", "done"} => s \notin applied

\* What is true of the row between a PUT's upsert and its read-back, whatever
\* ran in between: if the write took effect the row is the caller's, no older
\* than the write; if not, it is someone else's or strictly newer.
RereadKnows ==
  \A s \in Slots : stage[s] = "reread" =>
    LET id == req[s].id  v == req[s].body.version
    IN /\ Exists(table, id)
       /\ s \in applied => /\ Owns(table, id, req[s].user)
                           /\ table[id].version >= v
       /\ s \notin applied => \/ table[id].owner # req[s].user
                              \/ table[id].version > v

\* Stamps and cursors are never in the future.
ClockIsAhead ==
  \A u \in Pullers : /\ since[u] # NoCursor => since[u] <= clock
                     /\ pull[u] # NoCursor => pull[u] <= clock

IInv == /\ TypeOK /\ LocalsOK
        /\ RereadKnows /\ VerdictIsRight /\ ConflictIsNewer /\ OwnRowsOnly
        /\ ClockIsAhead /\ MissedOnlyIfLate

=============================================================================
