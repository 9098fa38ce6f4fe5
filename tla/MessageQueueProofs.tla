------------------------- MODULE MessageQueueProofs -------------------------
(***************************************************************************)
(* Proofs about MessageQueue, for every number of subscribers and messages *)
(* and every configuration of the queue: its counters are exact, a message *)
(* has one delivery at a time, hydration strands nothing, a message that   *)
(* left the queue does not come back, and after the end of a stopped       *)
(* server nothing touches the queue any more.                              *)
(***************************************************************************)
EXTENDS MessageQueue, FiniteSetTheorems, WellFoundedInduction, TLAPS

Issued == 1..lastSerialNumber

\* Everything the queue holds or works on was enqueued.
OnlyIssued ==
    /\ database \subseteq Issued /\ messageBuffer \subseteq Issued
    /\ InFlight \subseteq Issued
    /\ topMessage \in Issued \cup {NoMessage}
    /\ messagesWithDispositions \subseteq Issued

\* An ephemeral queue has no database.
EphemeralHasNoDatabase == ~Persistent => database = {}

\* The thread holds a message only on the way from Pick to Dispatch, and only
\* it raises the number of deliveries: the slot it saw is still there.
ThreadHoldsSlot ==
    /\ pc = "dispatch" <=> topMessage # NoMessage
    /\ pc = "dispatch" => outstandingDeliveries < MaxOutstandingDeliveries

\* A delivery awaits one subscriber, which with the pending ones is not done
\* with the message.
DeliverySane ==
    \A m \in Serial :
        /\ delivery[m] = Idle \/ \E s \in Subscriber : delivery[m].awaiting = {s}
        /\ (delivery[m].awaiting \cup delivery[m].pending)
              \cap Completed(message[m]) = {}
        /\ delivery[m].awaiting \cap delivery[m].pending = {}

\* FirstConsumedSubscriber: a consumed message is only to be dropped.
ConsumedIsDropped ==
    FirstConsumedSubscriber =>
        \A m \in Serial : message[m].consumed # {} => message[m].state = "Drop"

IInv == /\ TypeOK /\ OnlyIssued /\ EphemeralHasNoDatabase /\ NothingStranded
        /\ DepthIsExact /\ SingleDelivery /\ ThreadHoldsSlot
        /\ OutstandingIsExact /\ DeliverySane /\ ConsumedIsDropped

-----------------------------------------------------------------------------
(* What the answers of a subscriber have in common.                        *)

\* The record of a message after a delivery worked on it: what was completed
\* stays so, and a completed subscriber was not sent it.
Progress(old, new) ==
    /\ new \in Message
    /\ Completed(old) \subseteq Completed(new)
    /\ \A s \in Completed(old) : new.attempts[s] = old.attempts[s]

\* The delivery d of a message with record rec goes on.
GoesOn(rec, d) ==
    /\ d \in Delivery /\ \E s \in Subscriber : d.awaiting = {s}
    /\ rec.state = "OutForDelivery"
    /\ (d.awaiting \cup d.pending) \cap Completed(rec) = {}
    /\ d.awaiting \cap d.pending = {}

\* The delivery of message m with record rec is over.
IsOver(rec, d) == d = Idle /\ rec.state \in MessageState \ {"OutForDelivery"}

\* A step of the delivery of m alone: its record and its delivery change.
DeliveryStep(m) ==
    \E rec \in Message, d \in Delivery :
        /\ message' = [message EXCEPT ![m] = rec]
        /\ delivery' = [delivery EXCEPT ![m] = d]
        /\ Progress(message[m], rec)
        /\ Completed(rec) \subseteq
               Completed(message[m]) \cup delivery[m].awaiting
        /\ FirstConsumedSubscriber /\ rec.consumed # {} => rec.state = "Drop"
        /\ \/ GoesOn(rec, d) /\ returning' = returning
           \/ IsOver(rec, d) /\ returning' = returning + 1

\* The limit check, and the next attempt, of a message that nobody consumed yet
\* when the first consumer is the last.
MayGoOn(m, rec) ==
    /\ rec \in Message
    /\ Completed(message[m]) \subseteq Completed(rec)
    /\ rec.attempts = message[m].attempts
    /\ Completed(rec) \subseteq Completed(message[m]) \cup delivery[m].awaiting
    /\ rec.state = "OutForDelivery"
    /\ FirstConsumedSubscriber => rec.consumed = {}

\* Proceed, whatever the answer was, is a step of the delivery.
LEMMA ProceedIsStep ==
    ASSUME IInv, NEW m \in Serial, NEW rec, MayGoOn(m, rec),
           delivery[m].awaiting # {},
           NEW failed \in SUBSET Subscriber, Proceed(m, rec, failed)
    PROVE  DeliveryStep(m)
<1>1. delivery[m] \in Delivery
  BY DEF IInv, TypeOK
<1>2. CASE isRunning /\ delivery[m].pending # {}
  <2>1. PICK s \in delivery[m].pending :
           /\ message' = [message EXCEPT ![m] = Attempted(rec, s)]
           /\ delivery' = [delivery EXCEPT ![m] =
                 [awaiting |-> {s}, pending |-> delivery[m].pending \ {s},
                  targets |-> delivery[m].targets, failed |-> failed]]
           /\ returning' = returning
    BY <1>2 DEF Proceed
  <2> DEFINE d == [awaiting |-> {s}, pending |-> delivery[m].pending \ {s},
                   targets |-> delivery[m].targets, failed |-> failed]
             new == Attempted(rec, s)
  <2>2. s \in Subscriber /\ d \in Delivery
    BY <1>1 DEF Delivery
  <2>3. /\ new \in Message /\ new.state = "OutForDelivery"
        /\ new.satisfied = rec.satisfied
        /\ new.limitReached = rec.limitReached
        /\ new.consumed = rec.consumed
        /\ \A x \in Subscriber : x # s => new.attempts[x] = rec.attempts[x]
    BY <2>2 DEF MayGoOn, Attempted, Message
  <2>4. Completed(new) = Completed(rec)
    BY <2>3 DEF Completed
  <2>5. Completed(rec) \cap (delivery[m].pending) = {}
    BY DEF MayGoOn, IInv, DeliverySane
  <2>6. Completed(rec) \subseteq Subscriber
    BY DEF MayGoOn, Completed, Message
  <2>7. Progress(message[m], new)
    BY <2>3, <2>4, <2>5, <2>6 DEF Progress, MayGoOn
  <2>8. GoesOn(new, d)
    BY <2>2, <2>3, <2>4, <2>5 DEF GoesOn
  <2> QED
    BY <2>1, <2>2, <2>3, <2>4, <2>7, <2>8 DEF DeliveryStep, MayGoOn
<1>3. CASE ~isRunning \/ delivery[m].pending = {}
  <2> DEFINE state == Verdict(rec, delivery[m].targets, failed)
             new == [rec EXCEPT !.state = state]
  <2>1. /\ message' = [message EXCEPT ![m] = new]
        /\ delivery' = [delivery EXCEPT ![m] = Idle]
        /\ returning' = returning + 1
    BY <1>3 DEF Proceed, Return
  <2>2. state \in MessageState \ {"OutForDelivery"}
    BY DEF Verdict, AllServed, MessageState
  <2>3. /\ new \in Message /\ new.state = state
        /\ new.satisfied = rec.satisfied
        /\ new.limitReached = rec.limitReached
        /\ new.consumed = rec.consumed /\ new.attempts = rec.attempts
    BY <2>2 DEF MayGoOn, Message
  <2>4. Progress(message[m], new) /\ Completed(new) = Completed(rec)
    BY <2>3 DEF Progress, MayGoOn, Completed
  <2>5. Idle \in Delivery
    BY DEF Idle, Delivery
  <2> HIDE DEF new, state
  <2>6. IsOver(new, Idle)
    BY <2>2, <2>3 DEF IsOver
  <2> QED
    BY <2>1, <2>3, <2>4, <2>5, <2>6 DEF DeliveryStep, MayGoOn
<1> QED
  BY <1>2, <1>3 DEF Proceed

\* The limit check completes at most the subscriber awaited.
LEMMA LimitCheckMayGoOn ==
    ASSUME IInv, NEW m \in Serial, NEW s \in delivery[m].awaiting,
           NEW rec \in Message,
           rec.attempts = message[m].attempts, rec.state = "OutForDelivery",
           Completed(message[m]) \subseteq Completed(rec),
           Completed(rec) \subseteq Completed(message[m]) \cup {s},
           FirstConsumedSubscriber => rec.consumed = {}
    PROVE  MayGoOn(m, AfterLimitCheck(rec, s))
<1>1. delivery[m] \in Delivery /\ s \in Subscriber
  BY DEF IInv, TypeOK, Delivery
<1>2. CASE ~ReachesLimit(rec, s)
  BY <1>1, <1>2 DEF AfterLimitCheck, MayGoOn
<1>3. CASE ReachesLimit(rec, s)
  <2> DEFINE new == [rec EXCEPT !.limitReached = @ \cup {s}]
  <2>1. /\ new \in Message /\ new.state = rec.state
        /\ new.satisfied = rec.satisfied
        /\ new.limitReached = rec.limitReached \cup {s}
        /\ new.consumed = rec.consumed /\ new.attempts = rec.attempts
    BY <1>1 DEF Message
  <2>2. Completed(new) = Completed(rec) \cup {s}
    BY <2>1 DEF Completed
  <2>3. AfterLimitCheck(rec, s) = new
    BY <1>3 DEF AfterLimitCheck
  <2> HIDE DEF new
  <2> QED
    BY <1>1, <2>1, <2>2, <2>3 DEF MayGoOn
<1> QED
  BY <1>2, <1>3

\* A message out for delivery was not consumed yet, if one consumer is enough.
LEMMA AwaitingFacts ==
    ASSUME IInv, NEW m \in Serial, delivery[m].awaiting # {}
    PROVE  /\ message[m] \in Message /\ delivery[m] \in Delivery
           /\ message[m].state = "OutForDelivery"
           /\ FirstConsumedSubscriber => message[m].consumed = {}
<1>1. message[m].state = "OutForDelivery"
  BY DEF IInv, SingleDelivery, InFlight
<1> QED
  BY <1>1 DEF IInv, TypeOK, ConsumedIsDropped

\* An answer that ends the delivery is a step of it.
LEMMA ReturnIsStep ==
    ASSUME IInv, NEW m \in Serial, delivery[m].awaiting # {},
           NEW rec \in Message, NEW state \in MessageState,
           state # "OutForDelivery",
           Completed(message[m]) \subseteq Completed(rec),
           Completed(rec) \subseteq
               Completed(message[m]) \cup delivery[m].awaiting,
           rec.attempts = message[m].attempts,
           FirstConsumedSubscriber /\ rec.consumed # {} => state = "Drop",
           Return(m, rec, state)
    PROVE  DeliveryStep(m)
<1> DEFINE new == [rec EXCEPT !.state = state]
<1>1. /\ new \in Message /\ new.state = state
      /\ new.satisfied = rec.satisfied
      /\ new.limitReached = rec.limitReached
      /\ new.consumed = rec.consumed /\ new.attempts = rec.attempts
  BY DEF Message
<1>2. Progress(message[m], new) /\ Completed(new) = Completed(rec)
  BY <1>1 DEF Progress, Completed
<1>3. Idle \in Delivery
  BY DEF Idle, Delivery
<1>4. /\ message' = [message EXCEPT ![m] = new]
      /\ delivery' = [delivery EXCEPT ![m] = Idle]
      /\ returning' = returning + 1
  BY DEF Return
<1> HIDE DEF new
<1>5. IsOver(new, Idle)
  BY <1>1 DEF IsOver
<1> QED
  BY <1>1, <1>2, <1>3, <1>4, <1>5 DEF DeliveryStep

\* The disposition Consumed.
LEMMA ConsumedIsStep ==
    ASSUME IInv, NEW m \in Serial, NEW s \in delivery[m].awaiting,
           ReplyConsumed(m, s)
    PROVE  DeliveryStep(m)
<1> DEFINE rec == [message[m] EXCEPT !.satisfied = @ \cup {s},
                                     !.consumed = @ \cup {s}]
<1>1. /\ message[m] \in Message /\ delivery[m] \in Delivery
      /\ message[m].state = "OutForDelivery"
  BY AwaitingFacts
<1>2. s \in Subscriber
  BY <1>1 DEF Delivery
<1>3. /\ rec \in Message /\ rec.state = message[m].state
      /\ rec.satisfied = message[m].satisfied \cup {s}
      /\ rec.limitReached = message[m].limitReached
      /\ rec.attempts = message[m].attempts
  BY <1>1, <1>2 DEF Message
<1>4. Completed(rec) = Completed(message[m]) \cup {s}
  BY <1>3 DEF Completed
<1>5. CASE FirstConsumedSubscriber
  <2>1. Return(m, rec, "Drop")
    BY <1>5 DEF ReplyConsumed, FirstConsumerEnds
  <2> HIDE DEF rec
  <2> QED
    BY <1>3, <1>4, <2>1, ReturnIsStep DEF MessageState
<1>6. CASE ~FirstConsumedSubscriber
  <2>1. Proceed(m, AfterLimitCheck(rec, s), delivery[m].failed)
    BY <1>6 DEF ReplyConsumed, FirstConsumerEnds
  <2> HIDE DEF rec
  <2>2. MayGoOn(m, AfterLimitCheck(rec, s))
    BY <1>1, <1>3, <1>4, <1>6, LimitCheckMayGoOn
  <2> QED
    BY <1>1, <2>1, <2>2, ProceedIsStep DEF Delivery
<1> QED
  BY <1>5, <1>6

\* The disposition NotInterested.
LEMMA NotInterestedIsStep ==
    ASSUME IInv, NEW m \in Serial, NEW s \in delivery[m].awaiting,
           ReplyNotInterested(m, s)
    PROVE  DeliveryStep(m)
<1> DEFINE rec == [message[m] EXCEPT !.satisfied = @ \cup {s}]
<1>1. /\ message[m] \in Message /\ delivery[m] \in Delivery
      /\ message[m].state = "OutForDelivery"
      /\ FirstConsumedSubscriber => message[m].consumed = {}
  BY AwaitingFacts
<1>2. s \in Subscriber
  BY <1>1 DEF Delivery
<1>3. /\ rec \in Message /\ rec.state = message[m].state
      /\ rec.satisfied = message[m].satisfied \cup {s}
      /\ rec.limitReached = message[m].limitReached
      /\ rec.consumed = message[m].consumed
      /\ rec.attempts = message[m].attempts
  BY <1>1, <1>2 DEF Message
<1>4. Completed(rec) = Completed(message[m]) \cup {s}
  BY <1>3 DEF Completed
<1>5. Proceed(m, AfterLimitCheck(rec, s), delivery[m].failed)
  BY DEF ReplyNotInterested
<1> HIDE DEF rec
<1>6. MayGoOn(m, AfterLimitCheck(rec, s))
  BY <1>1, <1>3, <1>4, LimitCheckMayGoOn
<1> QED
  BY <1>1, <1>5, <1>6, ProceedIsStep DEF Delivery

\* A deferral is noted in the record and leaves the rest of it.
LEMMA DeferredFacts ==
    ASSUME NEW rec \in Message
    PROVE  /\ Deferred(rec) \in Message
           /\ Deferred(rec).state = rec.state
           /\ Deferred(rec).satisfied = rec.satisfied
           /\ Deferred(rec).limitReached = rec.limitReached
           /\ Deferred(rec).consumed = rec.consumed
           /\ Deferred(rec).attempts = rec.attempts
           /\ Deferred(rec).deferrals = rec.deferrals + 1
           /\ Completed(Deferred(rec)) = Completed(rec)
<1> DEFINE noted == [rec EXCEPT !.deferred = TRUE]
<1>1. /\ noted \in Message /\ noted.state = rec.state
      /\ noted.satisfied = rec.satisfied
      /\ noted.limitReached = rec.limitReached
      /\ noted.consumed = rec.consumed /\ noted.attempts = rec.attempts
      /\ noted.deferrals = rec.deferrals
  BY DEF Message
<1>2. Deferred(rec) = [noted EXCEPT !.deferrals = @ + 1]
  BY DEF Deferred
<1> HIDE DEF noted
<1> QED
  BY <1>1, <1>2 DEF Message, Completed

\* A subscriber that did not take the message, deferred or not, and failed or
\* not: the delivery goes on after the limit check.
LEMMA UnsatisfiedIsStep ==
    ASSUME IInv, NEW m \in Serial, NEW s \in delivery[m].awaiting,
           NEW rec \in {message[m], Deferred(message[m])},
           NEW failed \in SUBSET Subscriber,
           Proceed(m, AfterLimitCheck(rec, s), failed)
    PROVE  DeliveryStep(m)
<1>1. /\ message[m] \in Message /\ delivery[m] \in Delivery
      /\ message[m].state = "OutForDelivery"
      /\ FirstConsumedSubscriber => message[m].consumed = {}
  BY AwaitingFacts
<1>2. /\ rec \in Message /\ rec.state = message[m].state
      /\ rec.satisfied = message[m].satisfied
      /\ rec.limitReached = message[m].limitReached
      /\ rec.consumed = message[m].consumed
      /\ rec.attempts = message[m].attempts
  BY <1>1, DeferredFacts
<1>3. Completed(rec) = Completed(message[m])
  BY <1>2 DEF Completed
<1>4. MayGoOn(m, AfterLimitCheck(rec, s))
  BY <1>1, <1>2, <1>3, LimitCheckMayGoOn
<1> QED
  BY <1>4, ProceedIsStep

\* An attempt counts for one subscriber and leaves the rest of the record.
LEMMA AttemptedFacts ==
    ASSUME NEW rec \in Message, NEW s \in Subscriber
    PROVE  /\ Attempted(rec, s) \in Message
           /\ Attempted(rec, s).state = rec.state
           /\ Attempted(rec, s).satisfied = rec.satisfied
           /\ Attempted(rec, s).limitReached = rec.limitReached
           /\ Attempted(rec, s).consumed = rec.consumed
           /\ \A x \in Subscriber :
                 x # s => Attempted(rec, s).attempts[x] = rec.attempts[x]
BY DEF Attempted, Message

\* What no step of a delivery touches.
Elsewhere ==
    UNCHANGED <<serverRunning, dlqVars, isRunning, subscribers, storeVars>>

\* Every answer of a subscriber, the deferral and its store included, is a step
\* of the delivery of one message and leaves the queue as it is.
LEMMA AnswerIsStep ==
    ASSUME IInv, NEW m \in Serial, Answer(m)
    PROVE  /\ m \in InFlight /\ DeliveryStep(m) /\ Elsewhere
           /\ UNCHANGED <<outstandingDeliveries, threadVars>>
<1>1. PICK s \in delivery[m].awaiting : TRUE
  BY DEF Answer, Reply, Defer
<1>2. m \in InFlight
  BY <1>1 DEF InFlight
<1>3. /\ message[m] \in Message /\ delivery[m] \in Delivery
      /\ message[m].state = "OutForDelivery"
      /\ FirstConsumedSubscriber => message[m].consumed = {}
  BY <1>1, AwaitingFacts
<1>4. ASSUME NEW disposition \in Replies \ {"Defer"}, Reply(m, disposition)
      PROVE  DeliveryStep(m) /\ Elsewhere
             /\ UNCHANGED <<outstandingDeliveries, threadVars>>
  <2>1. Elsewhere /\ UNCHANGED <<outstandingDeliveries, threadVars>>
    BY <1>4 DEF Reply, Elsewhere
  <2>2. PICK x \in delivery[m].awaiting :
           \/ ReplyConsumed(m, x) \/ ReplyNotInterested(m, x)
           \/ ReplyNotConsumed(m, x) \/ DeliveryFails(m, x)
           \/ Return(m, message[m], "DeadLetter")
           \/ Return(m, message[m], "Drop")
    BY <1>4 DEF Reply
  <2>3. x \in Subscriber /\ delivery[m].failed \in SUBSET Subscriber
    BY <1>3 DEF Delivery
  <2>4. CASE ReplyConsumed(m, x)
    BY <2>1, <2>4, ConsumedIsStep
  <2>5. CASE ReplyNotInterested(m, x)
    BY <2>1, <2>5, NotInterestedIsStep
  <2>6. CASE ReplyNotConsumed(m, x)
    <3>1. Proceed(m, AfterLimitCheck(message[m], x), delivery[m].failed)
      BY <2>6 DEF ReplyNotConsumed
    <3> QED
      BY <2>1, <2>3, <3>1, UnsatisfiedIsStep
  <2>7. CASE DeliveryFails(m, x)
    <3>1. Proceed(m, AfterLimitCheck(message[m], x),
                  delivery[m].failed \cup {x})
      BY <2>7 DEF DeliveryFails
    <3>2. delivery[m].failed \cup {x} \in SUBSET Subscriber
      BY <2>3
    <3> QED
      BY <2>1, <3>1, <3>2, UnsatisfiedIsStep
  <2>8. CASE Return(m, message[m], "DeadLetter")
    BY <1>1, <1>3, <2>1, <2>8, ReturnIsStep DEF MessageState
  <2>9. CASE Return(m, message[m], "Drop")
    BY <1>1, <1>3, <2>1, <2>9, ReturnIsStep DEF MessageState
  <2> QED
    BY <2>2, <2>4, <2>5, <2>6, <2>7, <2>8, <2>9
<1>5. ASSUME Defer(m)
      PROVE  DeliveryStep(m) /\ Elsewhere
             /\ UNCHANGED <<outstandingDeliveries, threadVars>>
  <2>1. PICK x \in delivery[m].awaiting :
           ReplyDefer(m, x) \/ ReplyDeferNotStored(m, x)
    BY <1>5 DEF Defer
  <2>2. x \in Subscriber /\ delivery[m].failed \in SUBSET Subscriber
    BY <1>3 DEF Delivery
  <2>3. Persistent => messageBuffer \subseteq database
    BY DEF IInv, NothingStranded
  <2>4. database' = database
    BY <2>1, <2>3 DEF ReplyDefer, StoreDeferred, ReplyDeferNotStored
  <2>5. Elsewhere /\ UNCHANGED <<outstandingDeliveries, threadVars>>
    BY <1>5, <2>4 DEF Defer, Elsewhere, storeVars
  <2>6. CASE ReplyDefer(m, x)
    <3>1. Return(m, Deferred(message[m]), "Ready")
      BY <2>6 DEF ReplyDefer
    <3> QED
      BY <1>1, <1>3, <2>5, <3>1, DeferredFacts, ReturnIsStep DEF MessageState
  <2>7. CASE ReplyDeferNotStored(m, x)
    <3>1. Proceed(m, AfterLimitCheck(Deferred(message[m]), x),
                  delivery[m].failed \cup {x})
      BY <2>7 DEF ReplyDeferNotStored
    <3>2. delivery[m].failed \cup {x} \in SUBSET Subscriber
      BY <2>2
    <3> QED
      BY <2>5, <3>1, <3>2, UnsatisfiedIsStep
  <2> QED
    BY <2>1, <2>6, <2>7
<1> QED
  BY <1>2, <1>4, <1>5 DEF Answer

\* Dispatch is the first step of a delivery, of a message that had none.
LEMMA DispatchIsStep ==
    ASSUME IInv, Dispatch
    PROVE  /\ topMessage \in Serial /\ topMessage \notin InFlight
           /\ topMessage \in Issued
           /\ message[topMessage].state = "Ready"
           /\ DeliveryStep(topMessage) /\ Elsewhere
           /\ outstandingDeliveries' = outstandingDeliveries + 1
           /\ topMessage' = NoMessage /\ pc' \in {"collect", "await"}
           /\ UNCHANGED <<attemptBufferRehydration, messagesWithDispositions,
                          consecutiveExceptions>>
<1> DEFINE m == topMessage
           out == [message[m] EXCEPT !.state = "OutForDelivery"]
           remaining == Remaining(message[m])
<1>1. m \in Serial /\ m \in Issued /\ message[m].state = "Ready"
      /\ message[m] \in Message /\ delivery[m] \in Delivery
  BY DEF Dispatch, IInv, ThreadHoldsSlot, SingleDelivery, TypeOK, OnlyIssued,
         NoMessage
<1>2. m \notin InFlight /\ delivery[m].awaiting = {}
  BY <1>1 DEF IInv, SingleDelivery, InFlight
<1>3. FirstConsumedSubscriber => message[m].consumed = {}
  BY <1>1 DEF IInv, ConsumedIsDropped
<1>4. /\ out \in Message /\ out.state = "OutForDelivery"
      /\ out.satisfied = message[m].satisfied
      /\ out.limitReached = message[m].limitReached
      /\ out.consumed = message[m].consumed
      /\ out.attempts = message[m].attempts
  BY <1>1 DEF Message, MessageState
<1>5. Idle \in Delivery
  BY DEF Idle, Delivery
<1>6. remaining \subseteq Subscriber /\ remaining \cap Completed(message[m]) = {}
  BY DEF Remaining, IInv, TypeOK
<1>7. ASSUME NEW state \in {"Drop", "DeadLetter", "Shutdown"},
             Return(m, out, state)
      PROVE  DeliveryStep(m)
  <2> DEFINE new == [out EXCEPT !.state = state]
  <2>1. /\ new \in Message /\ new.state = state
        /\ new.satisfied = out.satisfied
        /\ new.limitReached = out.limitReached
        /\ new.consumed = out.consumed /\ new.attempts = out.attempts
    BY <1>4, <1>7 DEF Message, MessageState
  <2>2. Progress(message[m], new)
        /\ Completed(new) = Completed(message[m])
    BY <1>4, <2>1 DEF Progress, Completed
  <2>3. /\ message' = [message EXCEPT ![m] = new]
        /\ delivery' = [delivery EXCEPT ![m] = Idle]
        /\ returning' = returning + 1
    BY <1>7 DEF Return
  <2> HIDE DEF new, out
  <2>4. IsOver(new, Idle)
    BY <1>7, <2>1 DEF IsOver, MessageState
  <2> QED
    BY <1>3, <1>4, <1>5, <2>1, <2>2, <2>3, <2>4 DEF DeliveryStep
<1>8. ASSUME NEW s \in remaining,
             message' = [message EXCEPT ![m] = Attempted(out, s)],
             delivery' = [delivery EXCEPT ![m] =
                 [awaiting |-> {s}, pending |-> remaining \ {s},
                  targets |-> remaining, failed |-> {}]],
             returning' = returning
      PROVE  DeliveryStep(m)
  <2> DEFINE d == [awaiting |-> {s}, pending |-> remaining \ {s},
                   targets |-> remaining, failed |-> {}]
             new == Attempted(out, s)
  <2>1. s \in Subscriber /\ d \in Delivery
    BY <1>6 DEF Delivery
  <2>2. /\ new \in Message /\ new.state = "OutForDelivery"
        /\ new.satisfied = out.satisfied
        /\ new.limitReached = out.limitReached
        /\ new.consumed = out.consumed
        /\ \A x \in Subscriber : x # s => new.attempts[x] = out.attempts[x]
    <3> HIDE DEF out
    <3> QED
      BY <1>4, <2>1, AttemptedFacts
  <2>3. Completed(new) = Completed(message[m])
    BY <1>4, <2>2 DEF Completed
  <2>4. Completed(message[m]) \subseteq Subscriber
    BY <1>1 DEF Completed, Message
  <2>5. Progress(message[m], new)
    BY <1>4, <1>6, <2>2, <2>3, <2>4 DEF Progress
  <2>6. /\ message' = [message EXCEPT ![m] = new]
        /\ delivery' = [delivery EXCEPT ![m] = d]
        /\ returning' = returning
    BY <1>8
  <2> HIDE DEF new, out, remaining
  <2>7. GoesOn(new, d)
    BY <1>6, <2>1, <2>2, <2>3 DEF GoesOn
  <2> QED
    BY <1>3, <1>4, <2>1, <2>2, <2>3, <2>5, <2>6, <2>7 DEF DeliveryStep
<1>9. DeliveryStep(m)
  <2>1. CASE remaining = {} /\ Return(m, out, NobodyLeft(out))
    BY <1>7, <2>1 DEF NobodyLeft
  <2>2. CASE Return(m, out, "Shutdown")
    BY <1>7, <2>2
  <2> QED
    BY <1>8, <2>1, <2>2 DEF Dispatch
<1>10. pc' \in {"collect", "await"}
  BY DEF Dispatch, Goto
<1> QED
  BY <1>1, <1>2, <1>9, <1>10 DEF Dispatch, CountDelivery, Elsewhere

-----------------------------------------------------------------------------
(* The invariant holds initially and is kept by every action.              *)

\* The sets that are counted are finite.
LEMMA FiniteSets ==
    ASSUME TypeOK
    PROVE  /\ IsFiniteSet(database) /\ Cardinality(database) \in Nat
           /\ IsFiniteSet(messageBuffer) /\ Cardinality(messageBuffer) \in Nat
           /\ IsFiniteSet(InQueue) /\ Cardinality(InQueue) \in Nat
           /\ IsFiniteSet(InFlight) /\ Cardinality(InFlight) \in Nat
<1>1. IsFiniteSet(Serial)
  BY QueueAssumption, FS_Interval DEF Serial
<1>2. \A S \in SUBSET Serial : IsFiniteSet(S) /\ Cardinality(S) \in Nat
  BY <1>1, FS_Subset, FS_CardinalityType
<1> QED
  BY <1>2 DEF TypeOK, InQueue, InFlight

LEMMA InitIInv == Init => IInv
<1> SUFFICES ASSUME Init PROVE IInv
  OBVIOUS
<1> USE DEF Init
<1>1. TypeOK
  <2>1. NewMessage(FALSE) \in Message
    BY DEF NewMessage, Message, MessageState, Age
  <2>2. Idle \in Delivery
    BY DEF Idle, Delivery
  <2>3. HasDeadLetter \in BOOLEAN
    BY QueueAssumption
  <2>4. [m \in Serial |-> NewMessage(FALSE)] \in [Serial -> Message]
    BY <2>1
  <2>5. [m \in Serial |-> Idle] \in [Serial -> Delivery]
    BY <2>2
  <2>6. /\ serverRunning \in BOOLEAN /\ isRunning \in BOOLEAN
        /\ dlqExists \in BOOLEAN /\ attemptBufferRehydration \in BOOLEAN
    BY <2>3
  <2>7. message \in [Serial -> Message] /\ delivery \in [Serial -> Delivery]
    BY <2>4, <2>5
  <2>8. lastSerialNumber \in 0..MaxSerial
    BY QueueAssumption
  <2> QED
    BY <2>6, <2>7, <2>8 DEF TypeOK, NoMessage
<1>2. InFlight = {}
  BY DEF InFlight, Idle
<1>3. OnlyIssued /\ EphemeralHasNoDatabase /\ NothingStranded
  BY <1>2 DEF OnlyIssued, EphemeralHasNoDatabase, NothingStranded, NoMessage
<1>4. DepthIsExact /\ OutstandingIsExact
  BY <1>2, FS_EmptySet, QueueAssumption
     DEF DepthIsExact, OutstandingIsExact, InQueue
<1>5. SingleDelivery /\ ThreadHoldsSlot
  BY <1>2 DEF SingleDelivery, ThreadHoldsSlot, NewMessage, NoMessage
<1>6. DeliverySane /\ ConsumedIsDropped
  BY DEF DeliverySane, ConsumedIsDropped, NewMessage, Idle, Completed
<1> QED
  BY <1>1, <1>3, <1>4, <1>5, <1>6 DEF IInv

\* Steps that touch neither the messages nor the store nor the deliveries.
LEMMA QuietStep ==
    ASSUME IInv, TypeOK', UNCHANGED <<storeVars, deliveryVars, topMessage>>,
           pc' = "dispatch" <=> pc = "dispatch",
           messagesWithDispositions' \subseteq messagesWithDispositions
               \/ messagesWithDispositions' \subseteq messageBuffer
    PROVE  IInv'
<1> USE DEF IInv, storeVars, deliveryVars
<1>1. InFlight' = InFlight /\ InQueue' = InQueue
  BY DEF InFlight, InQueue
<1>2. OnlyIssued' /\ EphemeralHasNoDatabase' /\ NothingStranded'
  BY <1>1 DEF OnlyIssued, EphemeralHasNoDatabase, NothingStranded, Issued
<1>3. DepthIsExact' /\ OutstandingIsExact'
  BY <1>1 DEF DepthIsExact, OutstandingIsExact
<1>4. SingleDelivery' /\ ThreadHoldsSlot'
  BY <1>1 DEF SingleDelivery, ThreadHoldsSlot
<1>5. DeliverySane' /\ ConsumedIsDropped'
  BY DEF DeliverySane, ConsumedIsDropped
<1> QED
  BY <1>2, <1>3, <1>4, <1>5

\* Subscribers come and go, the companion is deleted, the server stops.
LEMMA EnvironmentKeepsIInv ==
    ASSUME IInv,
           \/ \E s \in Subscriber : Subscribe(s) \/ Unsubscribe(s)
           \/ DeleteDeadLetterQueue \/ StopServer \/ SignalShutdown
    PROVE  IInv'
<1>1. /\ UNCHANGED <<storeVars, deliveryVars, threadVars>>
      /\ serverRunning' \in BOOLEAN /\ isRunning' \in BOOLEAN
      /\ dlqExists' \in BOOLEAN /\ deadLetters' \subseteq Serial
      /\ subscribers' \subseteq Subscriber
  BY DEF IInv, TypeOK, Subscribe, Unsubscribe, DeleteDeadLetterQueue,
         StopServer, SignalShutdown, dlqVars
<1>2. TypeOK'
  BY <1>1 DEF IInv, TypeOK, storeVars, deliveryVars, threadVars
<1> QED
  BY <1>1, <1>2, QuietStep DEF threadVars

\* The steps of the thread that only move it on.
LEMMA ThreadMovesKeepIInv ==
    ASSUME IInv,
           \/ BeginIteration \/ AwaitDelivery \/ CollectDispositions
           \/ LockForDisposal \/ DisposalEnds \/ LockTimeout
           \/ DeadLetterTimeout
    PROVE  IInv'
<1>1. /\ UNCHANGED <<storeVars, deliveryVars, topMessage>>
      /\ pc # "dispatch"
      /\ pc' \in {"loop", "hydrate", "pick", "collect", "lock", "dispose",
                  "stopped"}
      /\ attemptBufferRehydration' \in BOOLEAN
      /\ \/ messagesWithDispositions' \subseteq messagesWithDispositions
         \/ messagesWithDispositions' \subseteq messageBuffer
      /\ consecutiveExceptions' \in Nat /\ isRunning' \in BOOLEAN
      /\ UNCHANGED <<serverRunning, dlqVars, subscribers>>
  <2> USE DEF IInv, TypeOK, Goto, EndIteration
  <2>1. CASE BeginIteration
    BY <2>1 DEF BeginIteration
  <2>2. CASE AwaitDelivery
    BY <2>2 DEF AwaitDelivery
  <2>3. CASE CollectDispositions
    BY <2>3 DEF CollectDispositions
  <2>4. CASE LockForDisposal
    BY <2>4 DEF LockForDisposal
  <2>5. CASE DisposalEnds
    BY <2>5 DEF DisposalEnds
  <2>6. CASE LockTimeout
    BY <2>6 DEF LockTimeout
  <2>7. CASE DeadLetterTimeout
    BY <2>7 DEF DeadLetterTimeout
  <2> QED
    BY <2>1, <2>2, <2>3, <2>4, <2>5, <2>6, <2>7
<1>2. TypeOK'
  BY <1>1 DEF IInv, TypeOK, storeVars, deliveryVars, dlqVars
<1> QED
  BY <1>1, <1>2, QuietStep

LEMMA EnqueueKeepsIInv ==
    ASSUME IInv, NEW deferred \in BOOLEAN, Enqueue(deferred)
    PROVE  IInv'
<1> DEFINE m == lastSerialNumber + 1
<1> USE DEF IInv
<1>1. /\ m \in Serial /\ m \notin Issued /\ lastSerialNumber' = m
      /\ Issued' = Issued \cup {m} /\ m # NoMessage
      /\ \A k \in Issued : k < m
  BY QueueAssumption DEF Enqueue, TypeOK, Serial, Issued, NoMessage
<1>2. NewMessage(deferred) \in Message
      /\ NewMessage(deferred).state = "Ready"
      /\ NewMessage(deferred).consumed = {}
  BY DEF NewMessage, Message, MessageState, Age
<1>3. /\ message' = [message EXCEPT ![m] = NewMessage(deferred)]
      /\ queueDepth' = queueDepth + 1
      /\ UNCHANGED <<serverRunning, dlqVars, isRunning, subscribers, delivery,
                     outstandingDeliveries, returning, threadVars>>
  BY DEF Enqueue
<1>4. InFlight' = InFlight
  BY <1>3 DEF InFlight
<1>5. /\ database' = IF Persistent THEN database \cup {m} ELSE database
      /\ messageBuffer' = IF Persistent THEN messageBuffer
                          ELSE messageBuffer \cup {m}
  BY DEF Enqueue, Store
<1>6. InQueue' = InQueue \cup {m} /\ m \notin InQueue
  BY <1>1, <1>5 DEF InQueue, OnlyIssued
<1>7. DepthIsExact'
  BY <1>3, <1>6, FiniteSets, FS_AddElement DEF DepthIsExact
<1>8. /\ message' \in [Serial -> Message]
      /\ \A k \in Serial : k # m => message'[k] = message[k]
      /\ message'[m] = NewMessage(deferred)
  BY <1>1, <1>2, <1>3 DEF TypeOK
<1>9. TypeOK'
  <2>1. database' \subseteq Serial /\ messageBuffer' \subseteq Serial
    BY <1>1, <1>5 DEF TypeOK
  <2>2. queueDepth' \in Nat /\ lastSerialNumber' \in 0..MaxSerial
    BY <1>1, <1>3, QueueAssumption DEF TypeOK, Serial
  <2> QED
    BY <1>3, <1>8, <2>1, <2>2 DEF TypeOK, dlqVars, threadVars
<1>10. OnlyIssued' /\ EphemeralHasNoDatabase'
  BY <1>1, <1>3, <1>4, <1>5
     DEF OnlyIssued, EphemeralHasNoDatabase, threadVars
<1>11. NothingStranded'
  BY <1>1, <1>5 DEF NothingStranded, OnlyIssued
<1>12. m \notin InFlight /\ topMessage # m
  BY <1>1 DEF OnlyIssued
<1>13. SingleDelivery'
  BY <1>2, <1>3, <1>4, <1>8, <1>12 DEF SingleDelivery, threadVars, TypeOK
<1>14. ThreadHoldsSlot' /\ OutstandingIsExact'
  BY <1>3, <1>4 DEF ThreadHoldsSlot, OutstandingIsExact, threadVars
<1>15. DeliverySane'
  <2>1. delivery[m].awaiting = {} /\ delivery[m] = Idle
    BY <1>1, <1>12 DEF InFlight, DeliverySane
  <2> QED
    BY <1>3, <1>8, <2>1 DEF DeliverySane, Idle
<1>16. ConsumedIsDropped'
  BY <1>2, <1>8 DEF ConsumedIsDropped
<1> QED
  BY <1>7, <1>9, <1>10, <1>11, <1>13, <1>14, <1>15, <1>16

LEMMA PurgeKeepsIInv == ASSUME IInv, PurgeQueue PROVE IInv'
<1> USE DEF IInv, PurgeQueue, deliveryVars, threadVars, dlqVars
<1>1. InFlight' = InFlight /\ InQueue' = {}
  BY DEF InFlight, InQueue
<1>2. TypeOK'
  BY DEF TypeOK
<1>3. OnlyIssued' /\ EphemeralHasNoDatabase' /\ NothingStranded'
  BY <1>1 DEF OnlyIssued, EphemeralHasNoDatabase, NothingStranded, Issued
<1>4. DepthIsExact' /\ OutstandingIsExact'
  BY <1>1, FS_EmptySet DEF DepthIsExact, OutstandingIsExact
<1>5. SingleDelivery' /\ ThreadHoldsSlot'
  BY <1>1 DEF SingleDelivery, ThreadHoldsSlot
<1>6. DeliverySane' /\ ConsumedIsDropped'
  BY DEF DeliverySane, ConsumedIsDropped
<1> QED
  BY <1>2, <1>3, <1>4, <1>5, <1>6

\* Time passing changes neither the state of a message nor who completed it.
LEMMA TimeKeepsIInv ==
    ASSUME IInv, NEW m \in Serial, DeferralElapses(m) \/ GrowsOld(m)
    PROVE  IInv'
<1> USE DEF IInv
<1>1. /\ UNCHANGED <<serverRunning, dlqVars, isRunning, subscribers,
                     storeVars, delivery, outstandingDeliveries, returning,
                     threadVars>>
      /\ message' \in [Serial -> Message]
      /\ \A k \in Serial : /\ message'[k].state = message[k].state
                           /\ message'[k].satisfied = message[k].satisfied
                           /\ message'[k].limitReached = message[k].limitReached
                           /\ message'[k].consumed = message[k].consumed
                           /\ message'[k].attempts = message[k].attempts
  <2>1. message[m] \in Message
    BY DEF TypeOK
  <2>2. CASE DeferralElapses(m)
    BY <2>1, <2>2 DEF DeferralElapses, TypeOK, Message
  <2>3. CASE GrowsOld(m)
    <3>1. PICK age \in {"expired", "ancient"} :
             message' = [message EXCEPT ![m].age = age]
      BY <2>3 DEF GrowsOld
    <3> DEFINE new == [message[m] EXCEPT !.age = age]
    <3>2. /\ new \in Message /\ new.state = message[m].state
          /\ new.satisfied = message[m].satisfied
          /\ new.limitReached = message[m].limitReached
          /\ new.consumed = message[m].consumed
          /\ new.attempts = message[m].attempts
      BY <2>1 DEF Message, Age
    <3>3. message' = [message EXCEPT ![m] = new]
      BY <3>1
    <3>4. UNCHANGED <<serverRunning, dlqVars, isRunning, subscribers,
                      storeVars, delivery, outstandingDeliveries, returning,
                      threadVars>>
      BY <2>3 DEF GrowsOld
    <3> HIDE DEF new
    <3>5. message' \in [Serial -> Message]
      BY <3>2, <3>3 DEF TypeOK
    <3> QED
      BY <3>2, <3>3, <3>4, <3>5 DEF TypeOK
  <2> QED
    BY <2>2, <2>3
<1>2. InFlight' = InFlight /\ InQueue' = InQueue
  BY <1>1 DEF InFlight, InQueue, storeVars
<1>3. \A k \in Serial : Completed(message[k])' = Completed(message[k])
  BY <1>1 DEF Completed
<1>4. TypeOK'
  BY <1>1 DEF TypeOK, storeVars, threadVars, dlqVars
<1>5. OnlyIssued' /\ EphemeralHasNoDatabase' /\ NothingStranded'
  BY <1>1, <1>2 DEF OnlyIssued, EphemeralHasNoDatabase, NothingStranded,
                    Issued, storeVars, threadVars
<1>6. DepthIsExact' /\ OutstandingIsExact'
  BY <1>1, <1>2 DEF DepthIsExact, OutstandingIsExact, storeVars
<1>7. SingleDelivery' /\ ThreadHoldsSlot'
  BY <1>1, <1>2 DEF SingleDelivery, ThreadHoldsSlot, threadVars, TypeOK,
                    NoMessage
<1>8. DeliverySane' /\ ConsumedIsDropped'
  BY <1>1, <1>3 DEF DeliverySane, ConsumedIsDropped
<1> QED
  BY <1>4, <1>5, <1>6, <1>7, <1>8

LEMMA FinishKeepsIInv == ASSUME IInv, FinishDelivery PROVE IInv'
<1> USE DEF IInv, FinishDelivery
<1>1. InFlight' = InFlight /\ InQueue' = InQueue
  BY DEF InFlight, InQueue, storeVars
<1>2. outstandingDeliveries' \in Nat /\ returning' \in Nat
      /\ outstandingDeliveries' = outstandingDeliveries - 1
      /\ outstandingDeliveries \in Nat
  BY FiniteSets DEF OutstandingIsExact, TypeOK
<1>3. TypeOK'
  BY <1>2 DEF TypeOK, storeVars, threadVars, dlqVars
<1>4. OnlyIssued' /\ EphemeralHasNoDatabase' /\ NothingStranded'
  BY <1>1 DEF OnlyIssued, EphemeralHasNoDatabase, NothingStranded, Issued,
              storeVars, threadVars
<1>5. DepthIsExact'
  BY <1>1 DEF DepthIsExact, storeVars
<1>6. OutstandingIsExact'
  BY <1>1, <1>2, FiniteSets, QueueAssumption DEF OutstandingIsExact, TypeOK
<1>7. SingleDelivery'
  BY <1>1 DEF SingleDelivery, threadVars
<1>8. ThreadHoldsSlot'
  BY <1>2, QueueAssumption DEF ThreadHoldsSlot, threadVars
<1>9. DeliverySane' /\ ConsumedIsDropped'
  BY DEF DeliverySane, ConsumedIsDropped
<1> QED
  BY <1>3, <1>4, <1>5, <1>6, <1>7, <1>8, <1>9

LEMMA HydrateKeepsIInv == ASSUME IInv, HydrateMessageBuffer PROVE IInv'
<1> USE DEF IInv, HydrateMessageBuffer, Goto, deliveryVars, dlqVars
<1>1. InFlight' = InFlight /\ Hydration \subseteq database
  BY DEF InFlight, Hydration
<1>2. ~Persistent => messageBuffer' = messageBuffer
  BY <1>1 DEF EphemeralHasNoDatabase
<1>3. InQueue' = InQueue
  BY <1>2 DEF InQueue
<1>4. TypeOK'
  BY <1>1 DEF TypeOK
<1>5. OnlyIssued' /\ EphemeralHasNoDatabase'
  BY <1>1 DEF OnlyIssued, EphemeralHasNoDatabase, Issued
<1>6. NothingStranded'
  <2> SUFFICES ASSUME Persistent PROVE NothingStranded'
    BY DEF NothingStranded
  <2>1. messageBuffer' \subseteq database'
    BY <1>1 DEF NothingStranded
  <2>2. ASSUME NEW n \in database \ messageBuffer', NEW b \in messageBuffer'
        PROVE  b < n
    <3>1. CASE b \in messageBuffer
      BY <2>2, <3>1 DEF NothingStranded
    <3>2. CASE b \in Hydration
      <4> DEFINE found == {k \in database : NotYetBuffered(k)}
                 below(k) == {x \in found : x < k}
      <4>0. database \subseteq Int
        BY DEF TypeOK, Serial
      <4>1. n \in Int /\ b \in Int /\ found \subseteq Int
        BY <4>0, <1>1, <2>2, <3>2
      <4>2. \A k \in found : /\ IsFiniteSet(below(k))
                             /\ Cardinality(below(k)) \in Nat
        <5>1. \A k \in found : below(k) \subseteq database
          OBVIOUS
        <5> QED
          BY <5>1, FiniteSets, FS_Subset, FS_CardinalityType
      <4>3. n \in found
        BY <2>2 DEF NothingStranded, NotYetBuffered
      <4>4. n \notin Hydration
        BY <2>2
      <4>5. Cardinality(below(n)) >= BufferSize
        BY <4>2, <4>3, <4>4, QueueAssumption DEF Hydration
      <4>6. b \in found /\ Cardinality(below(b)) < BufferSize
        BY <3>2 DEF Hydration
      <4>7. ASSUME n <= b PROVE FALSE
        <5>1. below(n) \subseteq below(b)
          BY <4>1, <4>7
        <5>2. Cardinality(below(n)) <= Cardinality(below(b))
          BY <4>2, <4>6, <5>1, FS_Subset
        <5>3. BufferSize \in Int
          BY QueueAssumption
        <5>4. Cardinality(below(n)) \in Int /\ Cardinality(below(b)) \in Int
          BY <4>2, <4>3, <4>6
        <5> HIDE DEF below
        <5> QED
          BY <4>5, <4>6, <5>2, <5>3, <5>4
      <4> QED
        BY <4>1, <4>7
    <3> QED
      BY <2>2, <3>1, <3>2
  <2> QED
    BY <2>1, <2>2 DEF NothingStranded
<1>7. DepthIsExact' /\ OutstandingIsExact'
  BY <1>1, <1>3 DEF DepthIsExact, OutstandingIsExact
<1>8. SingleDelivery' /\ ThreadHoldsSlot'
  BY <1>1 DEF SingleDelivery, ThreadHoldsSlot
<1>9. DeliverySane' /\ ConsumedIsDropped'
  BY DEF DeliverySane, ConsumedIsDropped
<1> QED
  BY <1>4, <1>5, <1>6, <1>7, <1>8, <1>9

\* The deliveries running after a step of one of them.
LEMMA DeliveryStepCounts ==
    ASSUME IInv, NEW m \in Serial, DeliveryStep(m)
    PROVE  \/ /\ InFlight' = InFlight \cup {m} /\ returning' = returning
              /\ message'[m].state = "OutForDelivery"
           \/ /\ InFlight' = InFlight \ {m} /\ returning' = returning + 1
              /\ message'[m].state # "OutForDelivery"
<1>1. PICK rec \in Message, d \in Delivery :
         /\ message' = [message EXCEPT ![m] = rec]
         /\ delivery' = [delivery EXCEPT ![m] = d]
         /\ \/ GoesOn(rec, d) /\ returning' = returning
            \/ IsOver(rec, d) /\ returning' = returning + 1
  BY DEF DeliveryStep
<1>2. /\ delivery'[m] = d /\ message'[m] = rec
      /\ \A k \in Serial : k # m => delivery'[k] = delivery[k]
  BY <1>1 DEF IInv, TypeOK
<1>3. CASE GoesOn(rec, d) /\ returning' = returning
  BY <1>2, <1>3 DEF GoesOn, InFlight
<1>4. CASE IsOver(rec, d) /\ returning' = returning + 1
  <2>1. d.awaiting = {}
    BY <1>4 DEF IsOver, Idle
  <2> QED
    BY <1>2, <1>4, <2>1 DEF IsOver, InFlight
<1> QED
  BY <1>1, <1>3, <1>4

\* What a step of a delivery keeps whoever took it, the thread that begins it
\* or the subscriber that answers.
LEMMA DeliveryStepKeeps ==
    ASSUME IInv, NEW m \in Serial, m \in Issued, DeliveryStep(m), Elsewhere,
           \/ topMessage' = NoMessage
           \/ topMessage' = topMessage /\ topMessage # m,
           UNCHANGED messagesWithDispositions
    PROVE  /\ message' \in [Serial -> Message]
           /\ delivery' \in [Serial -> Delivery] /\ returning' \in Nat
           /\ OnlyIssued' /\ EphemeralHasNoDatabase' /\ NothingStranded'
           /\ DepthIsExact' /\ SingleDelivery' /\ DeliverySane'
           /\ ConsumedIsDropped'
<1> USE DEF IInv
<1>1. PICK rec \in Message, d \in Delivery :
         /\ message' = [message EXCEPT ![m] = rec]
         /\ delivery' = [delivery EXCEPT ![m] = d]
         /\ FirstConsumedSubscriber /\ rec.consumed # {} => rec.state = "Drop"
         /\ \/ GoesOn(rec, d) /\ returning' = returning
            \/ IsOver(rec, d) /\ returning' = returning + 1
  BY DEF DeliveryStep
<1>2. /\ delivery'[m] = d /\ message'[m] = rec
      /\ \A k \in Serial : k # m => /\ delivery'[k] = delivery[k]
                                    /\ message'[k] = message[k]
      /\ message' \in [Serial -> Message]
      /\ delivery' \in [Serial -> Delivery] /\ returning' \in Nat
  BY <1>1 DEF TypeOK
<1>3. InFlight' \subseteq InFlight \cup {m}
      /\ (m \in InFlight' <=> message'[m].state = "OutForDelivery")
      /\ \A k \in Serial : k # m => (k \in InFlight' <=> k \in InFlight)
  BY DeliveryStepCounts
<1>4. OnlyIssued' /\ EphemeralHasNoDatabase' /\ NothingStranded'
  BY <1>3 DEF OnlyIssued, EphemeralHasNoDatabase, NothingStranded, Issued,
              Elsewhere, storeVars
<1>5. DepthIsExact'
  BY DEF DepthIsExact, InQueue, Elsewhere, storeVars
<1>6. SingleDelivery'
  <2>1. \A k \in Serial :
           message'[k].state = "OutForDelivery" <=> k \in InFlight'
    BY <1>2, <1>3 DEF SingleDelivery
  <2>2. topMessage' # NoMessage => message'[topMessage'].state = "Ready"
    BY <1>2 DEF SingleDelivery, TypeOK
  <2> QED
    BY <2>1, <2>2 DEF SingleDelivery
<1>7. /\ d = Idle \/ \E s \in Subscriber : d.awaiting = {s}
      /\ (d.awaiting \cup d.pending) \cap Completed(rec) = {}
      /\ d.awaiting \cap d.pending = {}
  BY <1>1 DEF GoesOn, IsOver, Idle
<1>8. DeliverySane'
  BY <1>2, <1>7 DEF DeliverySane, Completed
<1>9. ConsumedIsDropped'
  BY <1>1, <1>2 DEF ConsumedIsDropped
<1> QED
  BY <1>2, <1>4, <1>5, <1>6, <1>8, <1>9

LEMMA AnswerKeepsIInv ==
    ASSUME IInv, NEW m \in Serial, Answer(m)
    PROVE  IInv'
<1> USE DEF IInv
<1>1. /\ m \in InFlight /\ DeliveryStep(m) /\ Elsewhere
      /\ UNCHANGED <<outstandingDeliveries, threadVars>>
  BY AnswerIsStep
<1>2. m \in Issued /\ topMessage # m
  BY <1>1 DEF OnlyIssued, SingleDelivery, NoMessage, Serial
<1>3. /\ message' \in [Serial -> Message]
      /\ delivery' \in [Serial -> Delivery] /\ returning' \in Nat
      /\ OnlyIssued' /\ EphemeralHasNoDatabase' /\ NothingStranded'
      /\ DepthIsExact' /\ SingleDelivery' /\ DeliverySane'
      /\ ConsumedIsDropped'
  BY <1>1, <1>2, DeliveryStepKeeps DEF threadVars
<1>4. TypeOK'
  BY <1>1, <1>3 DEF TypeOK, Elsewhere, dlqVars, storeVars, threadVars
<1>5. ThreadHoldsSlot'
  BY <1>1 DEF ThreadHoldsSlot, threadVars
<1>6. OutstandingIsExact'
  <2>1. InFlight \cup {m} = InFlight
    BY <1>1
  <2>2. /\ IsFiniteSet(InFlight) /\ Cardinality(InFlight) \in Nat
        /\ Cardinality(InFlight \ {m}) = Cardinality(InFlight) - 1
    BY <1>1, FiniteSets, FS_RemoveElement
  <2>3. returning \in Nat
    BY DEF TypeOK
  <2>4. \/ InFlight' = InFlight /\ returning' = returning
        \/ InFlight' = InFlight \ {m} /\ returning' = returning + 1
    BY <1>1, <2>1, DeliveryStepCounts
  <2>5. Cardinality(InFlight') + returning'
           = Cardinality(InFlight) + returning
    <3>1. CASE InFlight' = InFlight /\ returning' = returning
      BY <3>1
    <3>2. CASE InFlight' = InFlight \ {m} /\ returning' = returning + 1
      BY <2>2, <2>3, <3>2
    <3> QED
      BY <2>4, <3>1, <3>2
  <2> QED
    BY <1>1, <2>5 DEF OutstandingIsExact
<1> QED
  BY <1>3, <1>4, <1>5, <1>6

LEMMA DispatchKeepsIInv == ASSUME IInv, Dispatch PROVE IInv'
<1> USE DEF IInv
<1>1. /\ topMessage \in Serial /\ topMessage \notin InFlight
      /\ topMessage \in Issued
      /\ DeliveryStep(topMessage) /\ Elsewhere
      /\ outstandingDeliveries' = outstandingDeliveries + 1
      /\ topMessage' = NoMessage /\ pc' \in {"collect", "await"}
      /\ UNCHANGED <<attemptBufferRehydration, messagesWithDispositions,
                     consecutiveExceptions>>
  BY DispatchIsStep
<1>2. /\ message' \in [Serial -> Message]
      /\ delivery' \in [Serial -> Delivery] /\ returning' \in Nat
      /\ OnlyIssued' /\ EphemeralHasNoDatabase' /\ NothingStranded'
      /\ DepthIsExact' /\ SingleDelivery' /\ DeliverySane'
      /\ ConsumedIsDropped'
  BY <1>1, DeliveryStepKeeps
<1>3. TypeOK'
  BY <1>1, <1>2 DEF TypeOK, Elsewhere, dlqVars, storeVars
<1>4. ThreadHoldsSlot'
  BY <1>1 DEF ThreadHoldsSlot
<1>5. OutstandingIsExact'
  <2>1. InFlight \ {topMessage} = InFlight
    BY <1>1
  <2>2. /\ IsFiniteSet(InFlight) /\ Cardinality(InFlight) \in Nat
        /\ Cardinality(InFlight \cup {topMessage}) = Cardinality(InFlight) + 1
    BY <1>1, FiniteSets, FS_AddElement
  <2>3. \/ InFlight' = InFlight \cup {topMessage} /\ returning' = returning
        \/ InFlight' = InFlight /\ returning' = returning + 1
    BY <1>1, <2>1, DeliveryStepCounts
  <2>4. returning \in Nat
    BY DEF TypeOK
  <2>5. Cardinality(InFlight') + returning'
           = Cardinality(InFlight) + returning + 1
    <3>1. CASE InFlight' = InFlight \cup {topMessage}
               /\ returning' = returning
      BY <2>2, <2>4, <3>1
    <3>2. CASE InFlight' = InFlight /\ returning' = returning + 1
      BY <2>2, <2>4, <3>2
    <3> QED
      BY <2>3, <3>1, <3>2
  <2>6. outstandingDeliveries < MaxOutstandingDeliveries
    BY DEF Dispatch, ThreadHoldsSlot
  <2> QED
    BY <1>1, <2>5, <2>6, QueueAssumption DEF OutstandingIsExact, TypeOK
<1> QED
  BY <1>2, <1>3, <1>4, <1>5

\* FirstOrDefault and the disposal loop find what they look for: a non-empty
\* set of serial numbers has a first one.
LEMMA LeastIsFirst ==
    ASSUME NEW S \in SUBSET Nat, S # {}
    PROVE  Least(S) \in S /\ \A n \in S : Least(S) <= n
<1> DEFINE Before == OpToRel(<, Nat)
<1>1. \A x, y \in Nat : <<x, y>> \in Before <=> x < y
  BY DEF OpToRel
<1>2. IsWellFoundedOn(Before, Nat)
  BY NatLessThanWellFounded
<1> HIDE DEF Before
<1>3. PICK least \in S : \A n \in S : ~ (<<n, least>> \in Before)
  BY <1>2, WFMin
<1>4. ASSUME NEW n \in S PROVE least <= n
  <2>1. n \in Nat /\ least \in Nat
    OBVIOUS
  <2>2. ~ (<<n, least>> \in Before)
    BY <1>3
  <2>3. ~ (n < least)
    BY <1>1, <2>1, <2>2
  <2> QED
    BY <2>1, <2>3
<1> QED
  BY <1>4 DEF Least

\* Expiry touches only the state of messages that are ready.
LEMMA PickKeepsIInv == ASSUME IInv, Pick PROVE IInv'
<1> USE DEF IInv
<1> DEFINE ready == {k \in messageBuffer : Deliverable(k)'}
<1>1. /\ message' = AfterExpiry /\ pc = "pick"
      /\ topMessage' = IF HasCapacity /\ subscribers # {} /\ ready # {}
                       THEN FirstOf(ready) ELSE NoMessage
      /\ attemptBufferRehydration' =
            (HasCapacity /\ subscribers # {} /\ NeedsHydration(topMessage'))
      /\ pc' = IF topMessage' = NoMessage THEN "collect" ELSE "dispatch"
      /\ UNCHANGED <<serverRunning, dlqVars, isRunning, subscribers,
                     storeVars, delivery, outstandingDeliveries, returning,
                     messagesWithDispositions, consecutiveExceptions>>
  BY DEF Pick, Goto
<1>2. /\ message' \in [Serial -> Message]
      /\ \A k \in Serial :
            /\ message'[k].satisfied = message[k].satisfied
            /\ message'[k].limitReached = message[k].limitReached
            /\ message'[k].consumed = message[k].consumed
            /\ \/ message'[k].state = message[k].state
               \/ /\ message[k].state = "Ready"
                  /\ message'[k].state \in {"DeadLetter", "Drop"}
  <2>1. ASSUME NEW k \in Serial
        PROVE  /\ AfterExpiry[k] \in Message
               /\ AfterExpiry[k].satisfied = message[k].satisfied
               /\ AfterExpiry[k].limitReached = message[k].limitReached
               /\ AfterExpiry[k].consumed = message[k].consumed
               /\ \/ AfterExpiry[k].state = message[k].state
                  \/ /\ message[k].state = "Ready"
                     /\ AfterExpiry[k].state \in {"DeadLetter", "Drop"}
    <3> DEFINE new == [message[k] EXCEPT !.state = ExpiredState(message[k])]
    <3>1. message[k] \in Message
      BY DEF TypeOK
    <3>2. ExpiredState(message[k]) \in {"DeadLetter", "Drop"}
      BY DEF ExpiredState
    <3>3. /\ new \in Message /\ new.state = ExpiredState(message[k])
          /\ new.satisfied = message[k].satisfied
          /\ new.limitReached = message[k].limitReached
          /\ new.consumed = message[k].consumed
      BY <3>1, <3>2 DEF Message, MessageState
    <3>4. AfterExpiry[k] = IF k \in messageBuffer /\ Expired(k)
                           THEN new ELSE message[k]
      BY DEF AfterExpiry
    <3>5. Expired(k) => message[k].state = "Ready"
      BY DEF Expired, MayExpire
    <3> HIDE DEF new
    <3> QED
      BY <3>1, <3>2, <3>3, <3>4, <3>5
  <2>2. AfterExpiry = [k \in Serial |-> AfterExpiry[k]]
    BY DEF AfterExpiry
  <2> QED
    BY <1>1, <2>1, <2>2
<1>3. InFlight' = InFlight /\ InQueue' = InQueue
  BY <1>1 DEF InFlight, InQueue, storeVars
<1>4. topMessage' # NoMessage =>
         /\ HasCapacity /\ topMessage' \in messageBuffer
         /\ message'[topMessage'].state = "Ready"
  <2> SUFFICES ASSUME topMessage' # NoMessage
               PROVE  /\ HasCapacity /\ topMessage' \in messageBuffer
                      /\ message'[topMessage'].state = "Ready"
    OBVIOUS
  <2>1. HasCapacity /\ ready # {} /\ topMessage' = FirstOf(ready)
    BY <1>1
  <2>2. ready \subseteq Nat
    <3>1. messageBuffer \subseteq Nat
      BY DEF TypeOK, Serial
    <3>2. ready \subseteq messageBuffer
      OBVIOUS
    <3> QED
      BY <3>1, <3>2
  <2>3. FirstOf(ready) \in ready
    <3> HIDE DEF ready
    <3> QED
      BY <2>1, <2>2, LeastIsFirst DEF FirstOf
  <2> QED
    BY <2>1, <2>3 DEF Deliverable
<1>5. TypeOK'
  <2>1. attemptBufferRehydration' \in BOOLEAN
    BY <1>1
  <2>2. topMessage' \in Serial \cup {NoMessage}
    BY <1>4 DEF TypeOK
  <2> QED
    BY <1>1, <1>2, <2>1, <2>2 DEF TypeOK, dlqVars, storeVars
<1>6. OnlyIssued' /\ EphemeralHasNoDatabase' /\ NothingStranded'
  BY <1>1, <1>3, <1>4 DEF OnlyIssued, EphemeralHasNoDatabase,
                          NothingStranded, Issued, storeVars
<1>7. DepthIsExact' /\ OutstandingIsExact'
  BY <1>1, <1>3 DEF DepthIsExact, OutstandingIsExact, storeVars
<1>8. SingleDelivery'
  BY <1>2, <1>3, <1>4 DEF SingleDelivery
<1>9. ThreadHoldsSlot'
  BY <1>1, <1>4 DEF ThreadHoldsSlot, HasCapacity
<1>10. DeliverySane'
  BY <1>1, <1>2 DEF DeliverySane, Completed
<1>11. ConsumedIsDropped'
  BY <1>2 DEF ConsumedIsDropped
<1> QED
  BY <1>5, <1>6, <1>7, <1>8, <1>9, <1>10, <1>11

\* The disposal removes a message from all three places at once.
LEMMA DisposeKeepsIInv == ASSUME IInv, DisposeNext PROVE IInv'
<1> USE DEF IInv
<1> DEFINE m == Least(messagesWithDispositions)
<1>1. m \in messagesWithDispositions /\ m \in Serial
  <2>1. messagesWithDispositions \in SUBSET Nat
    BY DEF TypeOK, Serial
  <2> QED
    BY <2>1, LeastIsFirst DEF DisposeNext, TypeOK
<1>2. /\ messagesWithDispositions' \subseteq messagesWithDispositions
      /\ deadLetters' \subseteq deadLetters \cup {m}
      /\ UNCHANGED <<serverRunning, dlqExists, isRunning, subscribers,
                     lastSerialNumber, deliveryVars, pc, topMessage,
                     attemptBufferRehydration, consecutiveExceptions>>
  BY DEF DisposeNext, MoveMessageToDeadLetter
<1>3. \/ /\ m \in messageBuffer /\ database' = database \ {m}
         /\ messageBuffer' = messageBuffer \ {m}
         /\ queueDepth' = queueDepth - 1
      \/ UNCHANGED <<database, messageBuffer, queueDepth>>
  BY DEF DisposeNext, RemoveFromBufferAndDatabase, StillBuffered
<1>4. m \in messageBuffer => m \in InQueue
  BY DEF InQueue, NothingStranded
<1>5. InFlight' = InFlight
  BY <1>2 DEF InFlight, deliveryVars
<1>6. queueDepth' \in Nat /\ DepthIsExact'
  <2>1. CASE /\ m \in messageBuffer /\ database' = database \ {m}
             /\ messageBuffer' = messageBuffer \ {m}
             /\ queueDepth' = queueDepth - 1
    <3>1. InQueue' = InQueue \ {m} /\ m \in InQueue
      BY <1>4, <2>1 DEF InQueue
    <3>2. /\ IsFiniteSet(InQueue \ {m})
          /\ Cardinality(InQueue \ {m}) = Cardinality(InQueue) - 1
          /\ Cardinality(InQueue \ {m}) \in Nat
      BY <3>1, FiniteSets, FS_RemoveElement, FS_CardinalityType
    <3> QED
      BY <2>1, <3>1, <3>2 DEF DepthIsExact
  <2>2. CASE UNCHANGED <<database, messageBuffer, queueDepth>>
    BY <2>2 DEF DepthIsExact, InQueue, TypeOK
  <2> QED
    BY <1>3, <2>1, <2>2
<1>7. database' \subseteq database /\ messageBuffer' \subseteq messageBuffer
  BY <1>3
<1>8. TypeOK'
  BY <1>1, <1>2, <1>6, <1>7 DEF TypeOK, deliveryVars
<1>9. OnlyIssued' /\ EphemeralHasNoDatabase'
  BY <1>2, <1>5, <1>7 DEF OnlyIssued, EphemeralHasNoDatabase, Issued
<1>10. NothingStranded'
  BY <1>3 DEF NothingStranded
<1>11. OutstandingIsExact' /\ SingleDelivery' /\ ThreadHoldsSlot'
  BY <1>2, <1>5 DEF OutstandingIsExact, SingleDelivery, ThreadHoldsSlot,
                    deliveryVars
<1>12. DeliverySane' /\ ConsumedIsDropped'
  BY <1>2 DEF DeliverySane, ConsumedIsDropped, deliveryVars
<1> QED
  BY <1>6, <1>8, <1>9, <1>10, <1>11, <1>12

\* Every step of the queue, its environment and its thread keeps the invariant.
LEMMA NextKeepsIInv == ASSUME IInv, [Next]_vars PROVE IInv'
<1>1. CASE Clients
  <2>1. CASE \E deferred \in BOOLEAN : Enqueue(deferred)
    BY <2>1, EnqueueKeepsIInv
  <2>2. CASE PurgeQueue
    BY <2>2, PurgeKeepsIInv
  <2>3. CASE DeleteDeadLetterQueue
             \/ \E s \in Subscriber : Subscribe(s) \/ Unsubscribe(s)
    BY <2>3, EnvironmentKeepsIInv
  <2> QED
    BY <1>1, <2>1, <2>2, <2>3 DEF Clients
<1>2. CASE StopServer \/ SignalShutdown
  BY <1>2, EnvironmentKeepsIInv
<1>3. CASE \E m \in Serial : DeferralElapses(m) \/ GrowsOld(m)
  BY <1>3, TimeKeepsIInv
<1>4. CASE \E m \in Serial : Answer(m)
  BY <1>4, AnswerKeepsIInv
<1>5. CASE FinishDelivery
  BY <1>5, FinishKeepsIInv
<1>6. CASE DeliveryThread
  <2>1. CASE HydrateMessageBuffer
    BY <2>1, HydrateKeepsIInv
  <2>2. CASE Pick
    BY <2>2, PickKeepsIInv
  <2>3. CASE Dispatch
    BY <2>3, DispatchKeepsIInv
  <2>4. CASE DisposeNext
    BY <2>4, DisposeKeepsIInv
  <2>5. CASE \/ BeginIteration \/ AwaitDelivery \/ CollectDispositions
             \/ LockForDisposal \/ DisposalEnds \/ LockTimeout
             \/ DeadLetterTimeout
    BY <2>5, ThreadMovesKeepIInv
  <2> QED
    BY <1>6, <2>1, <2>2, <2>3, <2>4, <2>5 DEF DeliveryThread
<1>7. CASE UNCHANGED vars
  <2>1. TypeOK'
    BY <1>7 DEF IInv, TypeOK, vars, dlqVars, storeVars, deliveryVars,
                threadVars
  <2> QED
    BY <1>7, <2>1, QuietStep DEF vars, threadVars
<1> QED
  BY <1>1, <1>2, <1>3, <1>4, <1>5, <1>6, <1>7 DEF Next

-----------------------------------------------------------------------------
(* The theorems.                                                           *)

\* The inductive invariant holds in every reachable state.
THEOREM Invariance == Spec => []IInv
<1>1. Init => IInv
  BY InitIInv
<1>2. IInv /\ [Next]_vars => IInv'
  BY NextKeepsIInv
<1> QED
  BY <1>1, <1>2, PTL DEF Spec

\* Type correctness, for every configuration of a queue; in particular the
\* depth counter, which disposals decrement, never becomes negative.
THEOREM TypeCorrect == Spec => []TypeOK
<1>1. IInv => TypeOK
  BY DEF IInv
<1> QED
  BY <1>1, Invariance, PTL

\* CurrentOutstandingDeliveries is the number of the deliveries that run and
\* never exceeds MaxOutstandingDeliveries.
THEOREM OutstandingIsCounted == Spec => []OutstandingIsExact
<1>1. IInv => OutstandingIsExact
  BY DEF IInv
<1> QED
  BY <1>1, Invariance, PTL

\* QueueDepth is the number of messages in the queue, through purges, removals
\* and deferrals in any order.
THEOREM DepthIsCounted == Spec => []DepthIsExact
<1>1. IInv => DepthIsExact
  BY DEF IInv
<1> QED
  BY <1>1, Invariance, PTL

\* No message is delivered twice at a time, although the thread picks it and
\* sends it in different critical sections.
THEOREM DeliveredOnceAtATime == Spec => []SingleDelivery
<1>1. IInv => SingleDelivery
  BY DEF IInv
<1> QED
  BY <1>1, Invariance, PTL

\* The part of the database that is not buffered lies above the buffer, where
\* the next rehydration looks for it.
THEOREM HydrationMissesNothing == Spec => []NothingStranded
<1>1. IInv => NothingStranded
  BY DEF IInv
<1> QED
  BY <1>1, Invariance, PTL

-----------------------------------------------------------------------------
(* What a step may never do.                                               *)

\* A serial number that was not given out carries no history.
UnissuedIsNew ==
    \A m \in Serial \ Issued : message[m] = NewMessage(FALSE)

\* Expiry ends the life of a message that is buffered and ready.
StateKept(k) ==
    \/ message'[k].state = message[k].state
    \/ /\ k \in messageBuffer /\ message[k].state = "Ready"
       /\ message'[k].state \in {"DeadLetter", "Drop"}

\* Expiry, aging and the end of a deferral: deliveries, history and unissued
\* messages stay.
HistoryKept ==
    /\ lastSerialNumber' = lastSerialNumber /\ delivery' = delivery
    /\ \A k \in Serial :
          /\ StateKept(k)
          /\ message'[k].deferred => message[k].deferred
          /\ message'[k].satisfied = message[k].satisfied
          /\ message'[k].limitReached = message[k].limitReached
          /\ message'[k].consumed = message[k].consumed
          /\ message'[k].attempts = message[k].attempts
          /\ message'[k].deferrals = message[k].deferrals
          /\ k \notin Issued => message'[k] = message[k]

\* The end of a deferral and aging leave the history of a message.
LEMMA TimeKeepsHistory ==
    ASSUME IInv, NEW m \in Serial, DeferralElapses(m) \/ GrowsOld(m)
    PROVE  HistoryKept
<1> USE DEF IInv
<1>1. message[m] \in Message
  BY DEF TypeOK
<1>2. /\ m \in Issued /\ lastSerialNumber' = lastSerialNumber
      /\ delivery' = delivery
  BY DEF DeferralElapses, GrowsOld, InQueue, OnlyIssued, storeVars
<1>3. PICK new :
         /\ message' = [message EXCEPT ![m] = new]
         /\ new.state = message[m].state
         /\ new.deferred => message[m].deferred
         /\ new.satisfied = message[m].satisfied
         /\ new.limitReached = message[m].limitReached
         /\ new.consumed = message[m].consumed
         /\ new.attempts = message[m].attempts
         /\ new.deferrals = message[m].deferrals
  <2>1. CASE DeferralElapses(m)
    <3> WITNESS [message[m] EXCEPT !.deferred = FALSE]
    <3> QED
      BY <1>1, <2>1 DEF DeferralElapses, Message
  <2>2. CASE GrowsOld(m)
    <3>1. PICK age \in {"expired", "ancient"} :
             message' = [message EXCEPT ![m].age = age]
      BY <2>2 DEF GrowsOld
    <3> WITNESS [message[m] EXCEPT !.age = age]
    <3> QED
      BY <1>1, <3>1 DEF Message
  <2> QED
    BY <2>1, <2>2
<1> QED
  BY <1>2, <1>3 DEF HistoryKept, StateKept, TypeOK

\* So does expiry.
LEMMA PickKeepsHistory == ASSUME IInv, Pick PROVE HistoryKept
<1> USE DEF IInv
<1>1. /\ message' = AfterExpiry /\ lastSerialNumber' = lastSerialNumber
      /\ delivery' = delivery
  BY DEF Pick, storeVars
<1>2. ASSUME NEW k \in Serial
      PROVE  /\ StateKept(k)
             /\ message'[k].deferred => message[k].deferred
             /\ message'[k].satisfied = message[k].satisfied
             /\ message'[k].limitReached = message[k].limitReached
             /\ message'[k].consumed = message[k].consumed
             /\ message'[k].attempts = message[k].attempts
             /\ message'[k].deferrals = message[k].deferrals
             /\ k \notin Issued => message'[k] = message[k]
  <2> DEFINE new == [message[k] EXCEPT !.state = ExpiredState(message[k])]
  <2>1. message[k] \in Message
    BY DEF TypeOK
  <2>2. /\ new.satisfied = message[k].satisfied
        /\ new.limitReached = message[k].limitReached
        /\ new.consumed = message[k].consumed
        /\ new.attempts = message[k].attempts
        /\ new.deferrals = message[k].deferrals
        /\ new.state \in {"DeadLetter", "Drop"}
        /\ new.deferred = message[k].deferred
    BY <2>1 DEF Message, ExpiredState
  <2>3. message'[k] = IF k \in messageBuffer /\ Expired(k)
                      THEN new ELSE message[k]
    BY <1>1 DEF AfterExpiry
  <2> HIDE DEF new
  <2> QED
    BY <2>2, <2>3 DEF OnlyIssued, StateKept, Expired, MayExpire
<1> QED
  BY <1>1, <1>2 DEF HistoryKept

\* Only Enqueue, an answer and the thread's Dispatch do more to a message.
LEMMA OtherStepsKeepHistory ==
    ASSUME IInv, [Next]_vars
    PROVE  \/ \E deferred \in BOOLEAN : Enqueue(deferred)
           \/ \E m \in Serial : Answer(m)
           \/ Dispatch \/ HistoryKept
<1>1. ASSUME UNCHANGED <<message, delivery, lastSerialNumber>>
      PROVE  HistoryKept
  BY <1>1 DEF HistoryKept, StateKept
<1>2. CASE Clients
  <2>1. CASE \/ PurgeQueue \/ DeleteDeadLetterQueue
             \/ \E s \in Subscriber : Subscribe(s) \/ Unsubscribe(s)
    BY <1>1, <2>1 DEF PurgeQueue, DeleteDeadLetterQueue, Subscribe,
                      Unsubscribe, deliveryVars, storeVars
  <2> QED
    BY <1>2, <2>1 DEF Clients
<1>3. CASE \/ StopServer \/ SignalShutdown \/ FinishDelivery
           \/ UNCHANGED vars
  BY <1>1, <1>3 DEF StopServer, SignalShutdown, FinishDelivery, vars,
                    deliveryVars, storeVars
<1>4. ASSUME NEW m \in Serial, DeferralElapses(m) \/ GrowsOld(m)
      PROVE  HistoryKept
  BY <1>4, TimeKeepsHistory
<1>5. CASE DeliveryThread
  <2>1. CASE \/ BeginIteration \/ HydrateMessageBuffer \/ AwaitDelivery
             \/ CollectDispositions \/ LockForDisposal \/ DisposeNext
             \/ DisposalEnds \/ DeadLetterTimeout \/ LockTimeout
    <3>1. UNCHANGED <<message, delivery, lastSerialNumber>>
      BY <2>1 DEF BeginIteration, HydrateMessageBuffer, AwaitDelivery,
                  CollectDispositions, LockForDisposal, DisposeNext,
                  DisposalEnds, DeadLetterTimeout, LockTimeout,
                  deliveryVars, storeVars
    <3> QED
      BY <1>1, <3>1
  <2> QED
    BY <1>5, <2>1, PickKeepsHistory DEF DeliveryThread
<1> QED
  BY <1>2, <1>3, <1>4, <1>5 DEF Next

\* A message changes when it is enqueued, by a step of its own delivery, or by
\* time, and time does not touch its history.
LEMMA HowMessagesChange ==
    ASSUME IInv, [Next]_vars
    PROVE  \/ \E deferred \in BOOLEAN : Enqueue(deferred)
           \/ \E m \in Issued \cap Serial :
                 /\ DeliveryStep(m) /\ lastSerialNumber' = lastSerialNumber
                 /\ message[m].state \in {"Ready", "OutForDelivery"}
           \/ HistoryKept
<1> USE DEF IInv
<1>1. ASSUME NEW m \in Serial, Answer(m)
      PROVE  /\ m \in Issued /\ DeliveryStep(m)
             /\ lastSerialNumber' = lastSerialNumber
             /\ message[m].state = "OutForDelivery"
  BY <1>1, AnswerIsStep DEF OnlyIssued, SingleDelivery, Elsewhere, storeVars
<1>2. ASSUME Dispatch
      PROVE  /\ topMessage \in Issued \cap Serial /\ DeliveryStep(topMessage)
             /\ lastSerialNumber' = lastSerialNumber
             /\ message[topMessage].state = "Ready"
  BY <1>2, DispatchIsStep DEF Elsewhere, storeVars
<1> QED
  BY <1>1, <1>2, OtherStepsKeepHistory

\* Enqueue writes the record of the number it gives out, and no other.
LEMMA EnqueueIsLocal ==
    ASSUME TypeOK, NEW deferred \in BOOLEAN, Enqueue(deferred)
    PROVE  /\ Issued' = Issued \cup {lastSerialNumber + 1}
           /\ \A k \in Serial :
                 k # lastSerialNumber + 1 => message'[k] = message[k]
           /\ \A k \in Issued : k # lastSerialNumber + 1
<1>1. lastSerialNumber \in Nat /\ lastSerialNumber' = lastSerialNumber + 1
  BY DEF Enqueue, TypeOK
<1>2. message' = [message EXCEPT
                     ![lastSerialNumber + 1] = NewMessage(deferred)]
  BY DEF Enqueue
<1> QED
  BY <1>1, <1>2 DEF Issued, TypeOK

LEMMA UnissuedStaysNew ==
    ASSUME IInv, UnissuedIsNew, [Next]_vars
    PROVE  UnissuedIsNew'
<1>1. CASE \E deferred \in BOOLEAN : Enqueue(deferred)
  BY <1>1, EnqueueIsLocal DEF UnissuedIsNew, IInv
<1>2. CASE \E m \in Issued \cap Serial :
              DeliveryStep(m) /\ lastSerialNumber' = lastSerialNumber
  BY <1>2 DEF DeliveryStep, UnissuedIsNew, Issued, IInv, TypeOK
<1>3. CASE HistoryKept
  BY <1>3 DEF HistoryKept, UnissuedIsNew, Issued
<1> QED
  BY <1>1, <1>2, <1>3, HowMessagesChange

\* The invariant together with the history of unissued messages.
LEMMA HistoryInvariance == Spec => [](IInv /\ UnissuedIsNew)
<1>1. Init => IInv /\ UnissuedIsNew
  BY InitIInv DEF Init, UnissuedIsNew
<1>2. IInv /\ UnissuedIsNew /\ [Next]_vars => (IInv /\ UnissuedIsNew)'
  BY NextKeepsIInv, UnissuedStaysNew
<1> QED
  BY <1>1, <1>2, PTL DEF Spec

\* A subscriber that answered for good, or was given up on, is not sent the
\* message again, by this delivery or by any later one.
THEOREM NeverRetriedWhenCompleted == Spec => CompletedNotRetried
<1>1. ASSUME IInv, UnissuedIsNew, [Next]_vars,
             NEW k \in Serial, NEW s \in Subscriber,
             s \in Completed(message[k])
      PROVE  Attempts(k, s)' = Attempts(k, s)
  <2>1. k \in Issued
    BY <1>1 DEF UnissuedIsNew, NewMessage, Completed
  <2>2. CASE \E deferred \in BOOLEAN : Enqueue(deferred)
    BY <1>1, <2>1, <2>2, EnqueueIsLocal DEF Attempts, IInv
  <2>3. CASE \E m \in Issued \cap Serial : DeliveryStep(m)
    <3>1. PICK m \in Issued \cap Serial, rec \in Message :
             /\ message' = [message EXCEPT ![m] = rec]
             /\ Progress(message[m], rec)
      BY <2>3 DEF DeliveryStep
    <3> QED
      BY <1>1, <3>1 DEF Progress, Attempts, IInv, TypeOK
  <2>4. CASE HistoryKept
    BY <2>4 DEF HistoryKept, Attempts
  <2> QED
    BY <1>1, <2>2, <2>3, <2>4, HowMessagesChange
<1>2. IInv /\ UnissuedIsNew /\ [Next]_vars
         => [\A m \in Serial, s \in Subscriber :
                s \in Completed(message[m]) =>
                    Attempts(m, s)' = Attempts(m, s)]_vars
  BY <1>1
<1>3. Spec => [][\A m \in Serial, s \in Subscriber :
                    s \in Completed(message[m]) =>
                        Attempts(m, s)' = Attempts(m, s)]_vars
  BY <1>2, HistoryInvariance, PTL DEF Spec
<1> QED
  BY <1>3 DEF CompletedNotRetried

\* One consumer ends the message when the queue says so: no further attempt is
\* made at anybody.
THEOREM NoAttemptAfterFirstConsumer == Spec => FirstConsumerIsTheLast
<1>1. ASSUME IInv, UnissuedIsNew, [Next]_vars, FirstConsumedSubscriber,
             NEW k \in Serial, NEW s \in Subscriber,
             message[k].consumed # {}
      PROVE  Attempts(k, s)' = Attempts(k, s)
  <2>1. k \in Issued /\ message[k].state = "Drop"
    BY <1>1 DEF UnissuedIsNew, NewMessage, IInv, ConsumedIsDropped
  <2>2. CASE \E deferred \in BOOLEAN : Enqueue(deferred)
    BY <1>1, <2>1, <2>2, EnqueueIsLocal DEF Attempts, IInv
  <2>3. CASE \E m \in Issued \cap Serial :
                /\ DeliveryStep(m)
                /\ message[m].state \in {"Ready", "OutForDelivery"}
    BY <2>1, <2>3 DEF DeliveryStep, Attempts, IInv, TypeOK
  <2>4. CASE HistoryKept
    BY <2>4 DEF HistoryKept, Attempts
  <2> QED
    BY <1>1, <2>2, <2>3, <2>4, HowMessagesChange
<1>2. IInv /\ UnissuedIsNew /\ [Next]_vars
         => [FirstConsumedSubscriber =>
                \A m \in Serial, s \in Subscriber :
                   message[m].consumed # {} =>
                       Attempts(m, s)' = Attempts(m, s)]_vars
  BY <1>1
<1>3. Spec => [][FirstConsumedSubscriber =>
                    \A m \in Serial, s \in Subscriber :
                       message[m].consumed # {} =>
                           Attempts(m, s)' = Attempts(m, s)]_vars
  BY <1>2, HistoryInvariance, PTL DEF Spec
<1> QED
  BY <1>3 DEF FirstConsumerIsTheLast

\* Only Enqueue adds to the queue.
LEMMA QueueGrowsAtTheEnd ==
    ASSUME IInv, [Next]_vars
    PROVE  InQueue' \subseteq InQueue \cup {lastSerialNumber + 1}
<1> USE DEF IInv
<1>1. CASE Clients
  <2>1. CASE \E deferred \in BOOLEAN : Enqueue(deferred)
    BY <2>1 DEF Enqueue, Store, InQueue
  <2>2. CASE PurgeQueue
    BY <2>2 DEF PurgeQueue, InQueue
  <2>3. CASE DeleteDeadLetterQueue
             \/ \E s \in Subscriber : Subscribe(s) \/ Unsubscribe(s)
    BY <2>3 DEF DeleteDeadLetterQueue, Subscribe, Unsubscribe, storeVars,
                InQueue
  <2> QED
    BY <1>1, <2>1, <2>2, <2>3 DEF Clients
<1>2. CASE \/ StopServer \/ SignalShutdown \/ FinishDelivery
           \/ \E m \in Serial : DeferralElapses(m) \/ GrowsOld(m)
           \/ UNCHANGED vars
  BY <1>2 DEF StopServer, SignalShutdown, FinishDelivery, DeferralElapses,
              GrowsOld, vars, storeVars, InQueue
<1>3. CASE \E m \in Serial : Answer(m)
  BY <1>3, AnswerIsStep DEF Elsewhere, storeVars, InQueue
<1>4. CASE DeliveryThread
  <2>1. CASE \/ BeginIteration \/ AwaitDelivery \/ CollectDispositions
             \/ LockForDisposal \/ DisposalEnds \/ LockTimeout
             \/ DeadLetterTimeout \/ Pick
    BY <2>1 DEF BeginIteration, AwaitDelivery, CollectDispositions,
                LockForDisposal, DisposalEnds, LockTimeout,
                DeadLetterTimeout, Pick, storeVars, InQueue
  <2>2. CASE HydrateMessageBuffer
    BY <2>2 DEF HydrateMessageBuffer, Hydration, EphemeralHasNoDatabase,
                InQueue
  <2>3. CASE Dispatch
    BY <2>3 DEF Dispatch, storeVars, InQueue
  <2>4. CASE DisposeNext
    BY <2>4 DEF DisposeNext, RemoveFromBufferAndDatabase, InQueue
  <2> QED
    BY <1>4, <2>1, <2>2, <2>3, <2>4 DEF DeliveryThread
<1> QED
  BY <1>1, <1>2, <1>3, <1>4 DEF Next

\* A purged, consumed or dead-lettered message does not come back into the
\* queue, even when a deferral answers a delivery that outlived it.
THEOREM GoneForGood == Spec => GoneStaysGone
<1>1. IInv /\ [Next]_vars
         => [\A m \in 1..lastSerialNumber :
                m \notin InQueue => m \notin InQueue']_vars
  BY QueueGrowsAtTheEnd DEF IInv, TypeOK
<1> QED
  BY <1>1, Invariance, PTL DEF Spec, GoneStaysGone

-----------------------------------------------------------------------------
(* The end of the server.                                                  *)

\* A call that passed the test of the server's flag before Stop adds a message
\* above all others, empties the queue, or leaves its messages alone.
LEMMA LateCalls ==
    ASSUME IInv, Clients
    PROVE  /\ UNCHANGED <<serverRunning, pc, outstandingDeliveries, delivery,
                         deadLetters>>
           /\ UNCHANGED storeVars \/ LateEnqueue \/ LatePurge
<1>1. CASE \E deferred \in BOOLEAN : Enqueue(deferred)
  BY <1>1 DEF Enqueue, Store, InQueue, LateEnqueue, dlqVars, threadVars
<1>2. CASE PurgeQueue
  BY <1>2 DEF PurgeQueue, InQueue, LatePurge, dlqVars, deliveryVars, threadVars
<1>3. CASE DeleteDeadLetterQueue
           \/ \E s \in Subscriber : Subscribe(s) \/ Unsubscribe(s)
  BY <1>3 DEF DeleteDeadLetterQueue, Subscribe, Unsubscribe, dlqVars,
              deliveryVars, threadVars
<1> QED
  BY <1>1, <1>2, <1>3 DEF Clients

\* The counter that WaitForShutdown reads is exact, so that no delivery that is
\* still to be answered is missed: after it, only calls that began before Stop
\* change the queue.
THEOREM NothingAfterTheEnd == Spec => EndIsFinal
<1> DEFINE Final ==
             /\ Ended' /\ UNCHANGED <<delivery, deadLetters>>
             /\ UNCHANGED storeVars \/ LateEnqueue \/ LatePurge
<1>1. ASSUME IInv, [Next]_vars, Ended
      PROVE  Final
  <2>1. InFlight = {} /\ returning = 0
    <3>1. IsFiniteSet(InFlight) /\ Cardinality(InFlight) \in Nat
      BY <1>1, FiniteSets DEF IInv
    <3>2. Cardinality(InFlight) = 0 /\ returning = 0
      BY <1>1, <3>1 DEF IInv, TypeOK, OutstandingIsExact, Ended
    <3> QED
      BY <3>1, <3>2, FS_EmptySet
  <2>2. \A m \in Serial : ~Answer(m)
    BY <1>1, <2>1, AnswerIsStep
  <2>3. ~DeliveryThread /\ ~FinishDelivery
    BY <1>1, <2>1 DEF Ended, DeliveryThread, BeginIteration,
          HydrateMessageBuffer, Pick, Dispatch, AwaitDelivery,
          CollectDispositions, LockForDisposal, DisposeNext, DisposalEnds,
          DeadLetterTimeout, LockTimeout, FinishDelivery
  <2>4. CASE Clients
    BY <1>1, <2>4, LateCalls DEF Ended
  <2>5. CASE \/ SignalShutdown \/ StopServer \/ UNCHANGED vars
             \/ \E m \in Serial : DeferralElapses(m) \/ GrowsOld(m)
    BY <1>1, <2>5 DEF Ended, SignalShutdown, StopServer, DeferralElapses,
            GrowsOld, vars, storeVars, dlqVars, deliveryVars, threadVars
  <2> QED
    BY <1>1, <2>2, <2>3, <2>4, <2>5 DEF Next
<1>2. IInv /\ [Next]_vars => [Ended => Final]_vars
  BY <1>1
<1>3. Spec => [][Ended => Final]_vars
  <2> HIDE DEF Final
  <2> QED
    BY <1>2, Invariance, PTL DEF Spec
<1> QED
  BY <1>3 DEF EndIsFinal
=============================================================================
