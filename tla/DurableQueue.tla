---------------------------- MODULE DurableQueue ----------------------------
(***************************************************************************)
(* What a persistent queue promises to those who send to it, told without  *)
(* keys, counters, buffers or locks.  A call of Enqueue places its message *)
(* at one moment between its beginning and its end, somewhere after every  *)
(* message whose call had succeeded before this one began; calls that      *)
(* overlap may be placed either way round.  What is placed keeps its       *)
(* place.  The process may die at any moment: the calls then never return, *)
(* and the queue is what it was.                                           *)
(***************************************************************************)
EXTENDS Naturals

CONSTANT Message

VARIABLES
    calls,     \* messages whose Enqueue has begun and has not ended
    earlier,   \* by message: those that were waiting, and whose call had
               \*   succeeded, when its Enqueue began
    queue,     \* messages that are placed
    before,    \* their order: the pairs <<m, k>> with m ahead of k
    accepted,  \* messages whose Enqueue returned
    removed    \* messages that were delivered or purged

vars == <<calls, earlier, queue, before, accepted, removed>>

Init ==
    /\ calls = {} /\ queue = {} /\ before = {}
    /\ accepted = {} /\ removed = {}
    /\ earlier = [m \in Message |-> {}]

Begin(m) ==
    /\ m \notin calls \cup queue \cup accepted \cup removed
    /\ calls' = calls \cup {m}
    /\ earlier' = [earlier EXCEPT ![m] = accepted \ removed]
    /\ UNCHANGED <<queue, before, accepted, removed>>

\* The messages that m is placed behind: a beginning of the queue that has in
\* it everything that was accepted before the call for m began.
Ahead(m) ==
    {front \in SUBSET queue :
        /\ earlier[m] \cap queue \subseteq front
        /\ \A j \in queue, k \in front : <<j, k>> \in before => j \in front}

Place(m) ==
    /\ m \in calls \ queue
    /\ \E front \in Ahead(m) :
           before' = before \cup (front \X {m}) \cup ({m} \X (queue \ front))
    /\ queue' = queue \cup {m}
    /\ UNCHANGED <<calls, earlier, accepted, removed>>

\* Enqueue returns: only a placed message is reported as accepted.
Return(m) ==
    /\ m \in calls \cap queue
    /\ calls' = calls \ {m}
    /\ accepted' = accepted \cup {m}
    /\ UNCHANGED <<earlier, queue, before, removed>>

\* Enqueue throws: the message is not, and will not be, in the queue.
Fail(m) ==
    /\ m \in calls \ queue
    /\ calls' = calls \ {m}
    /\ UNCHANGED <<earlier, queue, before, accepted, removed>>

\* Never before the call of Enqueue is over.
Remove(m) ==
    /\ m \in queue \ calls
    /\ queue' = queue \ {m}
    /\ before' = {pair \in before : m \notin {pair[1], pair[2]}}
    /\ removed' = removed \cup {m}
    /\ UNCHANGED <<calls, earlier, accepted>>

\* No call returns; what was placed stays, reported or not.
Crash ==
    /\ calls' = {}
    /\ UNCHANGED <<earlier, queue, before, accepted, removed>>

Next ==
    \/ \E m \in Message :
           Begin(m) \/ Place(m) \/ Return(m) \/ Fail(m) \/ Remove(m)
    \/ Crash

Spec == Init /\ [][Next]_vars
=============================================================================
