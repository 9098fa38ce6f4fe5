--------------------------- MODULE MCMessageQueue ---------------------------
(* Model-checking instance of MessageQueue; the cfgs give the constants.    *)
EXTENDS MessageQueue, TLC

Symmetry == Permutations(Subscriber)
=============================================================================
