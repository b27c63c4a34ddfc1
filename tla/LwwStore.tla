------------------------------ MODULE LwwStore ------------------------------
(***************************************************************************)
(* What the workspace API promises of one row, without handlers, clocks or *)
(* requests: a last-write-wins register per id.  A row belongs to whoever  *)
(* creates it; its version never goes down; once deleted it stays deleted. *)
(***************************************************************************)
EXTENDS Naturals

CONSTANTS Ids, Users, Absent

VARIABLE reg  \* Ids -> Absent, or [owner, version, deleted]

Init == reg = [id \in Ids |-> Absent]

\* Only the register of id changes.
Only(id) == \A other \in Ids \ {id} : reg'[other] = reg[other]

Create(id) ==
  /\ reg[id] = Absent
  /\ reg'[id] \in [owner : Users, version : Nat, deleted : {FALSE}]
  /\ Only(id)

\* A write at a version no older than the stored one replaces it, by its owner
\* and without touching the deletion mark.
Overwrite(id) ==
  /\ reg[id] # Absent
  /\ reg'[id] = [owner |-> reg[id].owner, version |-> reg'[id].version,
                 deleted |-> reg[id].deleted]
  /\ reg'[id].version >= reg[id].version
  /\ Only(id)

Delete(id) ==
  /\ reg[id] # Absent
  /\ reg'[id] = [owner |-> reg[id].owner, version |-> reg[id].version + 1,
                 deleted |-> TRUE]
  /\ Only(id)

Next == \E id \in Ids : Create(id) \/ Overwrite(id) \/ Delete(id)

Spec == Init /\ [][Next]_reg
=============================================================================
