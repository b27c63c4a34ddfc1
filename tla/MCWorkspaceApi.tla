--------------------------- MODULE MCWorkspaceApi ---------------------------
(* A small instance of WorkspaceApi: one contested id, three requests. *)
EXTENDS WorkspaceApi, TLC

CONSTANTS c1, c2

\* A first version from an old client that knows no flags, a same-version rival
\* that saves the workspace, and a newer write that leaves the flags out.
MCBodies ==
  {[content |-> c1, version |-> 1, saved |-> Omitted, open |-> Omitted],
   [content |-> c2, version |-> 1, saved |-> TRUE, open |-> FALSE],
   [content |-> c1, version |-> 2, saved |-> Omitted, open |-> TRUE]}

\* The requests are interchangeable: no property names one.
Symmetry == Permutations(Slots)
=============================================================================
