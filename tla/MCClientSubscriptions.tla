------------------------ MODULE MCClientSubscriptions ------------------------
(* Values for model-checking ClientSubscriptions. *)
EXTENDS ClientSubscriptions

CONSTANT a1
=============================================================================
