---------------------------- MODULE MCSyncEngine ----------------------------
(* Small instances of SyncEngine. *)
EXTENDS SyncEngine, TLC

Symmetry == Permutations(Devices)
=============================================================================
