------------------------- MODULE MCPersistentStore -------------------------
(* Model-checking instance of PersistentStore; the cfgs give the constants. *)
EXTENDS PersistentStore, TLC

Symmetry == Permutations(Producer)
=============================================================================
