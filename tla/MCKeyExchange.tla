--------------------------- MODULE MCKeyExchange ---------------------------
(* Small instances of KeyExchange. *)
EXTENDS KeyExchange, TLC

Symmetry == Permutations(Devices)
=============================================================================
