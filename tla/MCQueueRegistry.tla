--------------------------- MODULE MCQueueRegistry ---------------------------
(* Values for model-checking QueueRegistry. *)
EXTENDS QueueRegistry

CONSTANTS c1, c2, q1

\* A persistent queue without a companion, and with each kind of it.
Configs == {[scheme |-> "Persistent", deadLetter |-> d] :
                d \in Scheme \cup {"None"}}
=============================================================================
