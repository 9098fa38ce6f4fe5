--------------------------- MODULE ReliableQueue ---------------------------
(***************************************************************************)
(* What one CatMQ queue promises to those who use it, without its thread,  *)
(* its buffer, its database and its locks.  Messages are accepted once, in *)
(* the order of their serial numbers; one that left the queue, purged or   *)
(* delivered, does not come back, and only on leaving may it turn up among *)
(* the dead letters; at most MaxOutstandingDeliveries messages are out at  *)
(* a time, each with one subscriber; and a subscriber that is done with a  *)
(* message, having consumed or declined it or having been given up on, is  *)
(* never asked again.                                                      *)
(***************************************************************************)
EXTENDS Integers, FiniteSets

CONSTANTS Subscriber, MaxSerial, MaxOutstandingDeliveries

Serial == 1..MaxSerial

VARIABLES
    accepted,     \* the number of messages accepted
    queue,        \* the messages in the queue
    asked,        \* by message: the subscriber that is being asked, if any
    done,         \* by message: the subscribers that are done with it
    deadLetters   \* what the companion queue was given

vars == <<accepted, queue, asked, done, deadLetters>>

Out == {m \in Serial : asked[m] # {}}

Init ==
    /\ accepted = 0 /\ queue = {} /\ deadLetters = {}
    /\ asked = [m \in Serial |-> {}] /\ done = [m \in Serial |-> {}]

Accept ==
    /\ accepted < MaxSerial
    /\ accepted' = accepted + 1 /\ queue' = queue \cup {accepted + 1}
    /\ UNCHANGED <<asked, done, deadLetters>>

Purge ==
    /\ queue' = {}
    /\ UNCHANGED <<accepted, asked, done, deadLetters>>

\* A message leaves after its delivery; it may be moved to the companion.
Leave ==
    /\ \E m \in queue :
          /\ queue' = queue \ {m}
          /\ deadLetters' \in {deadLetters, deadLetters \cup {m}}
    /\ UNCHANGED <<accepted, asked, done>>

\* A purge does not recall a message that is about to be sent.
Ask(m) ==
    /\ m <= accepted /\ asked[m] = {}
    /\ Cardinality(Out) < MaxOutstandingDeliveries
    /\ \E s \in Subscriber \ done[m] : asked' = [asked EXCEPT ![m] = {s}]
    /\ UNCHANGED <<accepted, queue, done, deadLetters>>

\* The answer: the subscriber may be done with the message, and the next one
\* that is not is asked, or the delivery is over.
Answer(m) ==
    /\ asked[m] # {}
    /\ \E completed \in {done[m], done[m] \cup asked[m]} :
          /\ done' = [done EXCEPT ![m] = completed]
          /\ \/ asked' = [asked EXCEPT ![m] = {}]
             \/ \E s \in Subscriber \ completed :
                   asked' = [asked EXCEPT ![m] = {s}]
    /\ UNCHANGED <<accepted, queue, deadLetters>>

Next ==
    \/ Accept \/ Purge \/ Leave
    \/ \E m \in Serial : Ask(m) \/ Answer(m)

Spec == Init /\ [][Next]_vars
=============================================================================
