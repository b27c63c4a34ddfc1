--------------------------- MODULE WorkspaceTable ---------------------------
(***************************************************************************)
(* The `workspaces` table of the D1 database (migrations/0001, 0005) and   *)
(* the SQL statements functions/_lib/db.ts runs on it, as operators: each  *)
(* takes the table and returns the new table or the rows read.  D1 (an     *)
(* SQLite) serializes single statements, so a statement is atomic; what    *)
(* happens between two statements of one handler is WorkspaceApi's.        *)
(*                                                                         *)
(* The encrypted name and payload are one value, the row's "content": the  *)
(* server never looks inside.  A JSON number is a natural here, because    *)
(* the only clients count versions up from 1.                              *)
(***************************************************************************)
EXTENDS Naturals

CONSTANTS Ids,       \* workspace ids (client-generated uuids)
          Users,     \* user ids
          Contents,  \* what a row's name and payload can be
          NoRow      \* no row with that id

Row == [owner : Users, content : Contents, version : Nat, updatedAt : Nat,
        deleted : BOOLEAN, saved : BOOLEAN, open : BOOLEAN]

ASSUME NoRowIsNoRow == NoRow \notin Row
ASSUME NoRowIsNoRegister ==
  NoRow \notin [owner : Users, version : Nat, deleted : BOOLEAN]

Tables == [Ids -> Row \cup {NoRow}]

Exists(table, id) == table[id] # NoRow
Owns(table, id, u) == Exists(table, id) /\ table[id].owner = u

-----------------------------------------------------------------------------
\* INSERT ... ON CONFLICT(id) DO UPDATE ... WHERE: does the write take effect?
Wins(table, id, u, version) ==
  Exists(table, id) => /\ version >= table[id].version
                       /\ table[id].owner = u

\* Mutant of Upserted: an accepted write revives a deleted row.
UpsertedRevived(table, id, u, w, now) ==
  IF Wins(table, id, u, w.version)
  THEN [table EXCEPT ![id] =
          [owner |-> u, content |-> w.content, version |-> w.version,
           updatedAt |-> now, deleted |-> FALSE,
           saved |-> w.saved, open |-> w.open]]
  ELSE table

\* The table after that statement.  The UPDATE branch sets every column but
\* deleted_at, so a deleted row stays deleted whatever is written to it.
Upserted(table, id, u, w, now) ==
  IF Wins(table, id, u, w.version)
  THEN [table EXCEPT ![id] =
          [owner |-> u, content |-> w.content, version |-> w.version,
           updatedAt |-> now,
           deleted |-> Exists(table, id) /\ table[id].deleted,
           saved |-> w.saved, open |-> w.open]]
  ELSE table

\* Mutant of OwnRow: the read is not scoped to the caller.
AnyRow(table, id, u) == table[id]

\* SELECT * FROM workspaces WHERE id = ? AND user_id = ?
OwnRow(table, id, u) == IF Owns(table, id, u) THEN table[id] ELSE NoRow

\* Mutants of Accepted: every row found counts; an equal version is a conflict.
AcceptedIfFound(row, version) == row # NoRow
AcceptedIfOlder(row, version) == row # NoRow /\ row.version < version

\* upsertWorkspace's verdict, from the row it reads back after writing.
Accepted(row, version) == row # NoRow /\ row.version <= version

\* Mutant of SoftDeleted: updated_at keeps its value.
SoftDeletedQuietly(table, id, u, now) ==
  IF Owns(table, id, u)
  THEN [table EXCEPT ![id].deleted = TRUE, ![id].version = @ + 1]
  ELSE table

\* UPDATE ... SET deleted_at, version + 1, updated_at.  There is no guard on
\* deleted_at: deleting a deleted row bumps its version again.
SoftDeleted(table, id, u, now) ==
  IF Owns(table, id, u)
  THEN [table EXCEPT ![id] =
          [owner |-> u, content |-> table[id].content,
           version |-> table[id].version + 1, updatedAt |-> now, deleted |-> TRUE,
           saved |-> table[id].saved, open |-> table[id].open]]
  ELSE table

\* Mutant of ChangedSince: the boundary is exclusive.
ChangedAfter(table, u, since) ==
  {id \in Ids : Owns(table, id, u) /\ table[id].updatedAt > since}

\* listWorkspaces with `since`: the user's rows written at or after it, the
\* deleted ones included.
ChangedSince(table, u, since) ==
  {id \in Ids : Owns(table, id, u) /\ table[id].updatedAt >= since}

\* listWorkspaces without `since`: the user's live rows.
LiveRows(table, u) ==
  {id \in Ids : Owns(table, id, u) /\ ~table[id].deleted}
=============================================================================
