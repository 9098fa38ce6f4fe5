----------------------- MODULE MessageQueueConditions -----------------------
(***************************************************************************)
(* Proofs about MessageQueue: the attempts at a subscriber are bounded by  *)
(* MaxDeliveryAttempts and the deferrals of the message.  And what holds   *)
(* under a condition: the attempts stay within the documented limit where  *)
(* nobody defers; a dead letter is in the queue or in its companion, never *)
(* in both or in none, where nobody purges the queue, deletes the          *)
(* companion or stops the server; and each subscriber gets the messages in *)
(* order where deliveries are synchronous and nothing is deferred.  The    *)
(* last three theorems, and the one on the documented limit, are about     *)
(* properties that the queue does not have in general: each says what must *)
(* not happen for the property to hold.                                    *)
(***************************************************************************)
EXTENDS MessageQueueProofs

\* The state of a message in which a further attempt may follow.
Live(m) == message[m].state \in {"Ready", "OutForDelivery"}

\* The attempts a message may have: a deferral is one more.
Limit(rec) == MaxDeliveryAttempts + rec.deferrals

\* A subscriber at the limit is done with the message, is being asked for the
\* last time, or the message is on its way out.
LastAttempt(m, s) ==
    /\ Attempts(m, s) <= Limit(message[m])
    /\ Attempts(m, s) = Limit(message[m]) /\ Live(m)
          => s \in Completed(message[m]) \cup delivery[m].awaiting

LimitInv == \A m \in Serial, s \in Subscriber : LastAttempt(m, s)

\* Nobody interferes: what is worked on is in the queue, what is moved to the
\* companion leaves the queue at once, and only finished messages do.
PlaceInv ==
    /\ serverRunning /\ dlqExists
    /\ deadLetters \subseteq Issued /\ deadLetters \cap InQueue = {}
    /\ InFlight \subseteq InQueue
    /\ topMessage # NoMessage => topMessage \in InQueue
    /\ \A m \in messagesWithDispositions : ~Live(m)
    /\ \A m \in Issued :
          message[m].state = "DeadLetter" => m \in deadLetters \cup InQueue

-----------------------------------------------------------------------------
(* The attempt limit.                                                      *)

\* What an answer leaves to do: the message is finished, or the delivery goes on
\* or ends with a deferral, the subscriber done or below the limit.
Answered(m, s, rec) ==
    /\ rec \in Message /\ rec.attempts = message[m].attempts
    /\ rec.deferrals \in {message[m].deferrals, message[m].deferrals + 1}
    /\ "Defer" \notin Replies => /\ rec.deferred = message[m].deferred
                               /\ rec.deferrals = message[m].deferrals
    /\ Completed(message[m]) \subseteq Completed(rec)
    /\ \/ \E state \in {"DeadLetter", "Drop"} : Return(m, rec, state)
       \/ /\ \E failed \in SUBSET Subscriber : Proceed(m, rec, failed)
          /\ \/ s \in Completed(rec)
             \/ MaxDeliveryAttempts > 0 => rec.attempts[s] < Limit(rec)
       \/ Return(m, rec, "Ready") /\ rec.deferrals = message[m].deferrals + 1

\* The limit check gives up on a subscriber at the limit.
LEMMA LimitCheckCompletes ==
    ASSUME NEW rec \in Message, NEW s \in Subscriber
    PROVE  /\ AfterLimitCheck(rec, s) \in Message
           /\ AfterLimitCheck(rec, s).attempts = rec.attempts
           /\ AfterLimitCheck(rec, s).deferred = rec.deferred
           /\ AfterLimitCheck(rec, s).deferrals = rec.deferrals
           /\ Completed(rec) \subseteq Completed(AfterLimitCheck(rec, s))
           /\ \/ s \in Completed(AfterLimitCheck(rec, s))
              \/ MaxDeliveryAttempts > 0 => rec.attempts[s] < Limit(rec)
<1>1. CASE ReachesLimit(rec, s)
  <2> DEFINE new == [rec EXCEPT !.limitReached = @ \cup {s}]
  <2>1. /\ new \in Message /\ new.attempts = rec.attempts
        /\ new.satisfied = rec.satisfied /\ new.deferred = rec.deferred
        /\ new.deferrals = rec.deferrals
        /\ new.limitReached = rec.limitReached \cup {s}
    BY DEF Message
  <2>2. AfterLimitCheck(rec, s) = new
    BY <1>1 DEF AfterLimitCheck
  <2> HIDE DEF new
  <2> QED
    BY <2>1, <2>2 DEF Completed
<1>2. CASE ~ReachesLimit(rec, s)
  <2>1. AfterLimitCheck(rec, s) = rec
    BY <1>2 DEF AfterLimitCheck
  <2>2. rec.attempts[s] \in Nat /\ rec.deferrals \in Nat
    BY DEF Message
  <2>3. \/ s \in rec.satisfied
        \/ MaxDeliveryAttempts > 0 => rec.attempts[s] < Limit(rec)
    BY <1>2, <2>2, QueueAssumption DEF ReachesLimit, Limit
  <2> QED
    BY <2>1, <2>3 DEF Completed
<1> QED
  BY <1>1, <1>2

\* Every answer is answered in that sense.
LEMMA AnswersAreAnswered ==
    ASSUME IInv, NEW m \in Serial, Answer(m)
    PROVE  \E s \in delivery[m].awaiting, rec \in Message : Answered(m, s, rec)
<1>1. \/ "Defer" \in Replies /\ Defer(m)
      \/ \E disposition \in Replies \ {"Defer"} : Reply(m, disposition)
  BY DEF Answer
<1>2. PICK s \in delivery[m].awaiting :
         \/ ReplyConsumed(m, s) \/ ReplyNotInterested(m, s)
         \/ ReplyNotConsumed(m, s) \/ DeliveryFails(m, s)
         \/ Return(m, message[m], "DeadLetter")
         \/ Return(m, message[m], "Drop")
         \/ /\ "Defer" \in Replies
            /\ ReplyDefer(m, s) \/ ReplyDeferNotStored(m, s)
  BY <1>1 DEF Reply, Defer
<1>3. /\ message[m] \in Message /\ delivery[m] \in Delivery
      /\ s \in Subscriber /\ delivery[m].failed \in SUBSET Subscriber
      /\ delivery[m].failed \cup {s} \in SUBSET Subscriber
  BY DEF IInv, TypeOK, Delivery
<1>4. SUFFICES \E rec \in Message : Answered(m, s, rec)
  OBVIOUS
<1>5. ASSUME NEW old \in Message, old.attempts = message[m].attempts,
             old.deferrals \in {message[m].deferrals,
                               message[m].deferrals + 1},
             "Defer" \notin Replies =>
                 /\ old.deferred = message[m].deferred
                 /\ old.deferrals = message[m].deferrals,
             Completed(message[m]) \subseteq Completed(old),
             NEW failed \in SUBSET Subscriber,
             Proceed(m, AfterLimitCheck(old, s), failed)
      PROVE  \E rec \in Message : Answered(m, s, rec)
  <2> DEFINE rec == AfterLimitCheck(old, s)
  <2>1. /\ rec \in Message /\ rec.attempts = message[m].attempts
        /\ rec.deferred = old.deferred /\ rec.deferrals = old.deferrals
        /\ Completed(message[m]) \subseteq Completed(rec)
        /\ \/ s \in Completed(rec)
           \/ MaxDeliveryAttempts > 0 => rec.attempts[s] < Limit(rec)
    BY <1>3, <1>5, LimitCheckCompletes DEF Limit
  <2>2. Proceed(m, rec, failed)
    BY <1>5
  <2> HIDE DEF rec
  <2> QED
    BY <1>5, <2>1, <2>2 DEF Answered
<1>6. CASE ReplyConsumed(m, s)
  <2> DEFINE rec == [message[m] EXCEPT !.satisfied = @ \cup {s},
                                       !.consumed = @ \cup {s}]
  <2>1. /\ rec \in Message /\ rec.attempts = message[m].attempts
        /\ rec.deferred = message[m].deferred
        /\ rec.deferrals = message[m].deferrals
        /\ Completed(message[m]) \subseteq Completed(rec)
    BY <1>3 DEF Message, Completed
  <2>2. \/ Return(m, rec, "Drop")
        \/ Proceed(m, AfterLimitCheck(rec, s), delivery[m].failed)
    BY <1>6 DEF ReplyConsumed
  <2> HIDE DEF rec
  <2> QED
    BY <1>3, <1>5, <2>1, <2>2 DEF Answered
<1>7. CASE ReplyNotInterested(m, s)
  <2> DEFINE rec == [message[m] EXCEPT !.satisfied = @ \cup {s}]
  <2>1. /\ rec \in Message /\ rec.attempts = message[m].attempts
        /\ rec.deferred = message[m].deferred
        /\ rec.deferrals = message[m].deferrals
        /\ Completed(message[m]) \subseteq Completed(rec)
    BY <1>3 DEF Message, Completed
  <2>2. Proceed(m, AfterLimitCheck(rec, s), delivery[m].failed)
    BY <1>7 DEF ReplyNotInterested
  <2> HIDE DEF rec
  <2> QED
    BY <1>3, <1>5, <2>1, <2>2
<1>8. CASE ReplyNotConsumed(m, s)
  BY <1>3, <1>5, <1>8 DEF ReplyNotConsumed
<1>9. CASE DeliveryFails(m, s)
  BY <1>3, <1>5, <1>9 DEF DeliveryFails
<1>10. CASE \/ Return(m, message[m], "DeadLetter")
            \/ Return(m, message[m], "Drop")
  BY <1>3, <1>10 DEF Answered
<1>11. CASE "Defer" \in Replies /\ ReplyDefer(m, s)
  <2>1. Return(m, Deferred(message[m]), "Ready")
    BY <1>11 DEF ReplyDefer
  <2> QED
    BY <1>3, <1>11, <2>1, DeferredFacts DEF Answered
<1>12. CASE "Defer" \in Replies /\ ReplyDeferNotStored(m, s)
  <2>1. Proceed(m, AfterLimitCheck(Deferred(message[m]), s),
                delivery[m].failed \cup {s})
    BY <1>12 DEF ReplyDeferNotStored
  <2> QED
    BY <1>3, <1>5, <1>12, <2>1, DeferredFacts
<1> QED
  BY <1>2, <1>6, <1>7, <1>8, <1>9, <1>10, <1>11, <1>12

\* One more attempt at a subscriber below the limit.
LEMMA AttemptKeepsLimit ==
    ASSUME IInv, LimitInv, NEW m \in Serial, NEW rec \in Message,
           rec.attempts = message[m].attempts, NEW s \in Subscriber,
           rec.attempts[s] < Limit(rec), NEW d \in Delivery,
           message[m].deferrals <= rec.deferrals, s \in d.awaiting,
           \A x \in Subscriber \ {s} :
              rec.attempts[x] = Limit(rec) => x \in Completed(rec),
           message' = [message EXCEPT ![m] = Attempted(rec, s)],
           delivery' = [delivery EXCEPT ![m] = d]
    PROVE  LimitInv'
<1> DEFINE new == Attempted(rec, s)
<1>1. /\ new.attempts[s] = rec.attempts[s] + 1
      /\ \A x \in Subscriber \ {s} : new.attempts[x] = rec.attempts[x]
      /\ new.satisfied = rec.satisfied /\ new.limitReached = rec.limitReached
      /\ new.deferrals = rec.deferrals
      /\ rec.attempts \in [Subscriber -> Nat] /\ rec.deferrals \in Nat
      /\ message[m].deferrals \in Nat
  BY DEF Attempted, Message, IInv, TypeOK
<1>2. Completed(new) = Completed(rec)
  BY <1>1 DEF Completed
<1> HIDE DEF new
<1>3. /\ \A k \in Serial : message'[k] = IF k = m THEN new ELSE message[k]
      /\ \A k \in Serial : delivery'[k] = IF k = m THEN d ELSE delivery[k]
  BY DEF IInv, TypeOK, new
<1>4. MaxDeliveryAttempts \in Nat
  BY QueueAssumption
<1>5. ASSUME NEW k \in Serial, NEW x \in Subscriber PROVE LastAttempt(k, x)'
  <2>1. CASE k # m
    BY <1>3, <2>1 DEF LimitInv, LastAttempt, Limit, Attempts, Live, Completed
  <2>2. CASE k = m /\ x = s
    <3>1. new.attempts[s] <= Limit(new)
      BY <1>1, <1>4 DEF Limit
    <3> QED
      BY <1>3, <2>2, <3>1 DEF LastAttempt, Limit, Attempts, Live, Completed
  <2>3. CASE k = m /\ x # s
    <3>1. new.attempts[x] <= Limit(new)
      BY <1>1, <1>4, <2>3 DEF LimitInv, LastAttempt, Limit, Attempts
    <3>2. new.attempts[x] = Limit(new) => x \in Completed(new)
      BY <1>1, <1>2, <2>3 DEF Limit
    <3> QED
      BY <1>3, <2>3, <3>1, <3>2
         DEF LastAttempt, Limit, Attempts, Live, Completed
  <2> QED
    BY <2>1, <2>2, <2>3
<1> QED
  BY <1>5 DEF LimitInv

\* The end of a delivery, with everybody who is at the limit done.
LEMMA ReturnKeepsLimit ==
    ASSUME IInv, LimitInv, NEW m \in Serial, NEW rec \in Message,
           rec.attempts = message[m].attempts, NEW state \in MessageState,
           message[m].deferrals <= rec.deferrals, Return(m, rec, state),
           \/ state \notin {"Ready", "OutForDelivery"}
           \/ \A x \in Subscriber :
                 rec.attempts[x] = Limit(rec) => x \in Completed(rec)
    PROVE  LimitInv'
<1> DEFINE new == [rec EXCEPT !.state = state]
<1>1. /\ new.attempts = rec.attempts /\ new.state = state
      /\ new.satisfied = rec.satisfied /\ new.limitReached = rec.limitReached
      /\ new.deferrals = rec.deferrals
      /\ rec.attempts \in [Subscriber -> Nat] /\ rec.deferrals \in Nat
      /\ message[m].deferrals \in Nat /\ MaxDeliveryAttempts \in Nat
  BY QueueAssumption DEF Message, IInv, TypeOK
<1>2. Completed(new) = Completed(rec)
  BY <1>1 DEF Completed
<1> HIDE DEF new
<1>3. /\ \A k \in Serial : message'[k] = IF k = m THEN new ELSE message[k]
      /\ \A k \in Serial \ {m} : delivery'[k] = delivery[k]
  BY DEF IInv, TypeOK, Return, new
<1>4. ASSUME NEW k \in Serial, NEW x \in Subscriber PROVE LastAttempt(k, x)'
  <2>1. CASE k # m
    BY <1>3, <2>1 DEF LimitInv, LastAttempt, Limit, Attempts, Live, Completed
  <2>2. CASE k = m
    <3>1. new.attempts[x] <= Limit(new)
      BY <1>1 DEF LimitInv, LastAttempt, Limit, Attempts
    <3>2. \/ new.state \notin {"Ready", "OutForDelivery"}
          \/ new.attempts[x] = Limit(new) => x \in Completed(new)
      BY <1>1, <1>2 DEF Limit
    <3> QED
      BY <1>3, <2>2, <3>1, <3>2
         DEF LastAttempt, Limit, Attempts, Live, Completed
  <2> QED
    BY <2>1, <2>2
<1> QED
  BY <1>4 DEF LimitInv

LEMMA AnswerKeepsLimit ==
    ASSUME IInv, LimitInv, MaxDeliveryAttempts > 0,
           NEW m \in Serial, Answer(m)
    PROVE  LimitInv'
<1>1. PICK s \in delivery[m].awaiting, rec \in Message : Answered(m, s, rec)
  BY AnswersAreAnswered
<1>2. /\ delivery[m] \in Delivery /\ delivery[m].awaiting = {s}
      /\ s \in Subscriber /\ message[m].state = "OutForDelivery"
      /\ delivery[m].pending \cap Completed(message[m]) = {}
      /\ s \notin delivery[m].pending /\ delivery[m].pending \subseteq Subscriber
  <2>1. delivery[m] \in Delivery /\ message[m].state = "OutForDelivery"
    BY AwaitingFacts
  <2>2. delivery[m].awaiting = {s}
    BY DEF IInv, DeliverySane, Idle
  <2> QED
    BY <2>1, <2>2 DEF IInv, DeliverySane, Delivery
<1>3. /\ rec.attempts = message[m].attempts
      /\ Completed(message[m]) \subseteq Completed(rec)
      /\ MaxDeliveryAttempts \in Nat /\ message[m].deferrals \in Nat
      /\ rec.attempts \in [Subscriber -> Nat] /\ rec.deferrals \in Nat
      /\ rec.deferrals \in {message[m].deferrals, message[m].deferrals + 1}
      /\ message[m].deferrals <= rec.deferrals
  BY <1>1, QueueAssumption DEF Answered, Message, IInv, TypeOK
<1>4. CASE \E state \in {"DeadLetter", "Drop"} : Return(m, rec, state)
  BY <1>3, <1>4, ReturnKeepsLimit DEF MessageState
<1>5. CASE /\ \E failed \in SUBSET Subscriber : Proceed(m, rec, failed)
           /\ \/ s \in Completed(rec)
              \/ rec.attempts[s] < Limit(rec)
  <2>2. \A x \in Subscriber :
           rec.attempts[x] = Limit(rec) => x \in Completed(rec)
    BY <1>2, <1>3, <1>5 DEF LimitInv, LastAttempt, Limit, Attempts, Live
  <2>3. PICK failed \in SUBSET Subscriber : Proceed(m, rec, failed)
    BY <1>5
  <2>4. CASE isRunning /\ delivery[m].pending # {}
    <3>1. PICK x \in delivery[m].pending :
             /\ message' = [message EXCEPT ![m] = Attempted(rec, x)]
             /\ delivery' = [delivery EXCEPT ![m] =
                   [awaiting |-> {x}, pending |-> delivery[m].pending \ {x},
                    targets |-> delivery[m].targets, failed |-> failed]]
      BY <2>3, <2>4 DEF Proceed
    <3> DEFINE d == [awaiting |-> {x}, pending |-> delivery[m].pending \ {x},
                     targets |-> delivery[m].targets, failed |-> failed]
    <3>2. d \in Delivery /\ x \in d.awaiting /\ x \in Subscriber
      BY <1>2 DEF Delivery
    <3>3. rec.attempts[x] < Limit(rec)
      BY <1>2, <1>3, <3>2 DEF LimitInv, LastAttempt, Limit, Attempts, Live
    <3>4. delivery' = [delivery EXCEPT ![m] = d]
      BY <3>1
    <3> HIDE DEF d
    <3> QED
      BY <1>3, <2>2, <3>1, <3>2, <3>3, <3>4, AttemptKeepsLimit
  <2>5. CASE ~isRunning \/ delivery[m].pending = {}
    <3>1. PICK state \in MessageState : Return(m, rec, state)
      BY <2>3, <2>5 DEF Proceed, Verdict, AllServed, MessageState
    <3> QED
      BY <1>3, <2>2, <3>1, ReturnKeepsLimit
  <2> QED
    BY <2>4, <2>5
<1>6. CASE /\ Return(m, rec, "Ready")
           /\ rec.deferrals = message[m].deferrals + 1
  <2>1. \A x \in Subscriber : rec.attempts[x] < Limit(rec)
    BY <1>3, <1>6 DEF LimitInv, LastAttempt, Limit, Attempts
  <2>2. \A x \in Subscriber : rec.attempts[x] # Limit(rec)
    BY <1>3, <2>1 DEF Limit
  <2> QED
    BY <1>3, <1>6, <2>2, ReturnKeepsLimit DEF MessageState
<1> QED
  BY <1>1, <1>4, <1>5, <1>6 DEF Answered

LEMMA DispatchKeepsLimit ==
    ASSUME IInv, LimitInv, MaxDeliveryAttempts > 0, Dispatch
    PROVE  LimitInv'
<1> DEFINE m == topMessage
           out == [message[m] EXCEPT !.state = "OutForDelivery"]
           remaining == Remaining(message[m])
<1>1. m \in Serial /\ m \notin InFlight /\ message[m].state = "Ready"
  BY DispatchIsStep
<1>2. /\ message[m] \in Message /\ delivery[m].awaiting = {}
      /\ remaining \subseteq Subscriber
      /\ remaining \cap Completed(message[m]) = {}
  BY <1>1 DEF IInv, TypeOK, InFlight, Remaining
<1>3. /\ out \in Message /\ out.attempts = message[m].attempts
      /\ out.satisfied = message[m].satisfied
      /\ out.limitReached = message[m].limitReached
      /\ out.deferrals = message[m].deferrals
      /\ out.deferrals \in Nat /\ message[m].deferrals <= out.deferrals
  BY <1>2 DEF Message, MessageState
<1>4. Completed(out) = Completed(message[m])
  BY <1>3 DEF Completed
<1>5. MaxDeliveryAttempts \in Nat /\ out.attempts \in [Subscriber -> Nat]
  BY <1>3, QueueAssumption DEF Message
<1>6. \A x \in Subscriber :
         /\ out.attempts[x] <= Limit(out)
         /\ out.attempts[x] = Limit(out) => x \in Completed(out)
  <2> HIDE DEF out
  <2> QED
    BY <1>1, <1>2, <1>3, <1>4 DEF LimitInv, LastAttempt, Limit, Attempts, Live
<1>7. CASE \E state \in MessageState : Return(m, out, state)
  <2> HIDE DEF out
  <2> QED
    BY <1>1, <1>3, <1>6, <1>7, ReturnKeepsLimit
<1>8. ASSUME NEW s \in remaining,
             message' = [message EXCEPT ![m] = Attempted(out, s)],
             delivery' = [delivery EXCEPT ![m] =
                 [awaiting |-> {s}, pending |-> remaining \ {s},
                  targets |-> remaining, failed |-> {}]]
      PROVE  LimitInv'
  <2> DEFINE d == [awaiting |-> {s}, pending |-> remaining \ {s},
                   targets |-> remaining, failed |-> {}]
  <2>1. d \in Delivery /\ s \in d.awaiting /\ s \in Subscriber
    BY <1>2 DEF Delivery
  <2>2. delivery' = [delivery EXCEPT ![m] = d]
    BY <1>8
  <2> HIDE DEF out, d, remaining
  <2>3. out.attempts[s] < Limit(out)
    BY <1>2, <1>3, <1>4, <1>5, <1>6, <2>1 DEF Limit
  <2> QED
    BY <1>1, <1>3, <1>6, <1>8, <2>1, <2>2, <2>3, AttemptKeepsLimit
<1>9. \/ Return(m, out, NobodyLeft(out)) \/ Return(m, out, "Shutdown")
      \/ \E s \in remaining :
            /\ message' = [message EXCEPT ![m] = Attempted(out, s)]
            /\ delivery' = [delivery EXCEPT ![m] =
                   [awaiting |-> {s}, pending |-> remaining \ {s},
                    targets |-> remaining, failed |-> {}]]
  BY DEF Dispatch
<1>10. NobodyLeft(out) \in MessageState /\ "Shutdown" \in MessageState
  BY DEF NobodyLeft, MessageState
<1> HIDE DEF out, remaining
<1> QED
  BY <1>7, <1>8, <1>9, <1>10

LEMMA NextKeepsLimit ==
    ASSUME IInv, LimitInv, MaxDeliveryAttempts > 0, [Next]_vars
    PROVE  LimitInv'
<1>1. CASE \E m \in Serial : Answer(m)
  BY <1>1, AnswerKeepsLimit
<1>2. CASE Dispatch
  BY <1>2, DispatchKeepsLimit
<1>3. CASE \E deferred \in BOOLEAN : Enqueue(deferred)
  <2>1. PICK deferred \in BOOLEAN : Enqueue(deferred)
    BY <1>3
  <2> DEFINE m == lastSerialNumber + 1
  <2>2. /\ delivery' = delivery
        /\ \A k \in Serial : message'[k] = IF k = m THEN NewMessage(deferred)
                                                    ELSE message[k]
    BY <2>1 DEF Enqueue, IInv, TypeOK
  <2>3. ASSUME NEW k \in Serial, NEW x \in Subscriber
        PROVE  LastAttempt(k, x)'
    <3>1. CASE k = m
      <4>1. message'[k].attempts[x] = 0 /\ message'[k].deferrals = 0
        BY <2>2, <3>1 DEF NewMessage
      <4> QED
        BY <4>1, QueueAssumption DEF LastAttempt, Limit, Attempts
    <3>2. CASE k # m
      BY <2>2, <3>2 DEF LimitInv, LastAttempt, Limit, Attempts, Live, Completed
    <3> QED
      BY <3>1, <3>2
  <2> QED
    BY <2>3 DEF LimitInv
<1>4. CASE HistoryKept
  BY <1>4 DEF HistoryKept, StateKept, LimitInv, LastAttempt, Limit, Attempts,
              Live, Completed
<1>5. \/ \E m \in Serial : Answer(m)
      \/ Dispatch \/ HistoryKept
      \/ \E deferred \in BOOLEAN : Enqueue(deferred)
  BY OtherStepsKeepHistory
<1> QED
  BY <1>1, <1>2, <1>3, <1>4, <1>5

\* The limit counts every attempt whose answer is not a deferral: a subscriber
\* is sent a message at most MaxDeliveryAttempts times and once more for every
\* deferral of it, in one delivery or in many, whatever else is answered, fails
\* or is not stored.
THEOREM AttemptsBounded == Spec => []AttemptsAccountedFor
<1>1. CASE MaxDeliveryAttempts > 0
  <2>1. Init => LimitInv
    <3> SUFFICES ASSUME Init PROVE LimitInv
      OBVIOUS
    <3>1. \A m \in Serial, s \in Subscriber :
             Attempts(m, s) = 0 /\ message[m].deferrals = 0
      BY DEF Init, NewMessage, Attempts
    <3> QED
      BY <1>1, <3>1, QueueAssumption DEF LimitInv, LastAttempt, Limit
  <2>2. IInv /\ LimitInv /\ [Next]_vars => LimitInv'
    BY <1>1, NextKeepsLimit
  <2>3. LimitInv => AttemptsAccountedFor
    BY DEF LimitInv, LastAttempt, Limit, AttemptsAccountedFor
  <2> QED
    BY <2>1, <2>2, <2>3, Invariance, PTL DEF Spec
<1>2. CASE ~(MaxDeliveryAttempts > 0)
  <2>1. AttemptsAccountedFor
    BY <1>2 DEF AttemptsAccountedFor
  <2> QED
    BY <2>1, PTL
<1> QED
  BY <1>1, <1>2

\* The messages are not deferred by anybody.
NoDeferrals == \A m \in Serial : message[m].deferrals = 0

LEMMA NextKeepsNoDeferrals ==
    ASSUME IInv, NoDeferrals, [Next]_vars, "Defer" \notin Replies
    PROVE  NoDeferrals'
<1>1. ASSUME NEW m \in Serial, NEW rec \in Message, rec.deferrals = 0,
             \/ \E s \in Subscriber :
                   message' = [message EXCEPT ![m] = Attempted(rec, s)]
             \/ \E state : Return(m, rec, state)
      PROVE  NoDeferrals'
  <2>1. PICK new : /\ message' = [message EXCEPT ![m] = new]
                   /\ new.deferrals = 0
    <3>1. ASSUME NEW s \in Subscriber PROVE Attempted(rec, s).deferrals = 0
      BY <1>1 DEF Attempted, Message
    <3>2. ASSUME NEW state PROVE [rec EXCEPT !.state = state].deferrals = 0
      BY <1>1 DEF Message
    <3>3. CASE \E s \in Subscriber :
                  message' = [message EXCEPT ![m] = Attempted(rec, s)]
      BY <3>1, <3>3
    <3>4. CASE \E state : Return(m, rec, state)
      <4>1. PICK state :
               message' = [message EXCEPT ![m] = [rec EXCEPT !.state = state]]
        BY <3>4 DEF Return
      <4> QED
        BY <3>2, <4>1
    <3> QED
      BY <1>1, <3>3, <3>4
  <2> QED
    BY <2>1 DEF NoDeferrals, IInv, TypeOK
<1>2. CASE \E m \in Serial : Answer(m)
  <2>1. PICK m \in Serial : Answer(m)
    BY <1>2
  <2>2. PICK s \in delivery[m].awaiting, rec \in Message : Answered(m, s, rec)
    BY <2>1, AnswersAreAnswered
  <2>3. rec.deferrals = 0 /\ delivery[m].pending \subseteq Subscriber
    BY <2>2 DEF Answered, NoDeferrals, IInv, TypeOK, Delivery
  <2>4. \/ \E x \in delivery[m].pending :
              message' = [message EXCEPT ![m] = Attempted(rec, x)]
        \/ \E state : Return(m, rec, state)
    BY <2>2 DEF Answered, Proceed
  <2> QED
    BY <1>1, <2>3, <2>4
<1>3. CASE Dispatch
  <2> DEFINE out == [message[topMessage] EXCEPT !.state = "OutForDelivery"]
  <2>1. topMessage \in Serial /\ Remaining(message[topMessage]) \subseteq Subscriber
    BY <1>3, DispatchIsStep DEF IInv, TypeOK, Remaining
  <2>2. out \in Message /\ out.deferrals = 0
    BY <2>1 DEF IInv, TypeOK, Message, MessageState, NoDeferrals
  <2>3. \/ \E state : Return(topMessage, out, state)
        \/ \E x \in Remaining(message[topMessage]) :
              message' = [message EXCEPT ![topMessage] = Attempted(out, x)]
    BY <1>3 DEF Dispatch
  <2> HIDE DEF out
  <2> QED
    BY <1>1, <2>1, <2>2, <2>3
<1>4. CASE \E deferred \in BOOLEAN : Enqueue(deferred)
  BY <1>4 DEF Enqueue, NewMessage, NoDeferrals, IInv, TypeOK
<1>5. CASE HistoryKept
  BY <1>5 DEF HistoryKept, NoDeferrals
<1> QED
  BY <1>2, <1>3, <1>4, <1>5, OtherStepsKeepHistory

\* Where nobody defers, the limit is the one the configuration documents.
THEOREM LimitRespected ==
    ASSUME "Defer" \notin Replies
    PROVE  Spec => []AttemptsWithinLimit
<1>1. Init => NoDeferrals
  BY DEF Init, NoDeferrals, NewMessage
<1>2. IInv /\ NoDeferrals /\ [Next]_vars => NoDeferrals'
  BY NextKeepsNoDeferrals
<1>3. IInv /\ NoDeferrals /\ AttemptsAccountedFor => AttemptsWithinLimit
  BY QueueAssumption DEF IInv, TypeOK, Message, NoDeferrals,
     AttemptsAccountedFor, AttemptsWithinLimit, Attempts
<1> QED
  BY <1>1, <1>2, <1>3, AttemptsBounded, Invariance, PTL DEF Spec

-----------------------------------------------------------------------------
(* The dead letters.                                                       *)

\* The messages worked on and the contents of the two queues do not change.
PlacesKept ==
    /\ UNCHANGED <<serverRunning, dlqExists, deadLetters, lastSerialNumber>>
    /\ InQueue' = InQueue

LEMMA IssuedAreSerials ==
    ASSUME TypeOK
    PROVE  Issued \subseteq Serial
<1>1. lastSerialNumber \in 0..MaxSerial /\ MaxSerial \in Nat
  BY QueueAssumption DEF TypeOK
<1> QED
  BY <1>1 DEF Issued, Serial

\* Steps that send nothing and finish nothing.
LEMMA QuietKeepsPlace ==
    ASSUME IInv, PlaceInv, PlacesKept, UNCHANGED <<message, delivery>>,
           topMessage' = topMessage,
           \A m \in messagesWithDispositions' : ~Live(m)
    PROVE  PlaceInv'
BY DEF PlacesKept, PlaceInv, InFlight, Issued, Live

\* Time passes, and messages expire.
LEMMA HistoryKeepsPlace ==
    ASSUME IInv, PlaceInv, PlacesKept, HistoryKept,
           topMessage' \in {topMessage, NoMessage} \cup messageBuffer,
           messagesWithDispositions' = messagesWithDispositions
    PROVE  PlaceInv'
<1>1. messageBuffer \subseteq InQueue
  BY DEF InQueue, IInv, NothingStranded
<1>2. /\ messagesWithDispositions \subseteq Serial /\ Issued' = Issued
      /\ Issued \subseteq Serial
  BY IssuedAreSerials DEF IInv, TypeOK, PlacesKept, Issued
<1>3. InFlight' = InFlight
  BY DEF HistoryKept, InFlight
<1>4. topMessage' # NoMessage => topMessage' \in InQueue'
  BY <1>1 DEF PlacesKept, PlaceInv
<1>5. \A m \in messagesWithDispositions' : ~Live(m)'
  BY <1>2 DEF HistoryKept, StateKept, PlaceInv, Live
<1>6. \A m \in Issued' : message'[m].state = "DeadLetter"
                            => m \in deadLetters' \cup InQueue'
  BY <1>1, <1>2 DEF HistoryKept, StateKept, PlaceInv, PlacesKept
<1> QED
  BY <1>2, <1>3, <1>4, <1>5, <1>6 DEF PlaceInv, PlacesKept

\* A delivery works on a message that is in the queue.
LEMMA DeliveryKeepsPlace ==
    ASSUME IInv, PlaceInv, NEW m \in InQueue, m \in Issued, Live(m),
           DeliveryStep(m), Elsewhere,
           topMessage' \in {topMessage, NoMessage},
           messagesWithDispositions' = messagesWithDispositions
    PROVE  PlaceInv'
<1>1. m \in Serial /\ Issued' = Issued /\ InQueue' = InQueue
  BY DEF InQueue, IInv, TypeOK, Elsewhere, storeVars, Issued
<1>2. \A k \in Serial \ {m} : message'[k] = message[k]
  BY DEF DeliveryStep, IInv, TypeOK
<1>3. InFlight' \subseteq InFlight \cup {m}
  BY <1>1, DeliveryStepCounts
<1>4. m \notin messagesWithDispositions /\ messagesWithDispositions \subseteq Serial
  BY DEF PlaceInv, IInv, TypeOK
<1>5. \A k \in messagesWithDispositions' : ~Live(k)'
  BY <1>2, <1>4 DEF PlaceInv, Live
<1>6. Issued \subseteq Serial
  BY IssuedAreSerials DEF IInv
<1>7. \A k \in Issued' : message'[k].state = "DeadLetter"
                            => k \in deadLetters \cup InQueue
  BY <1>1, <1>2, <1>6 DEF PlaceInv
<1> QED
  BY <1>1, <1>3, <1>5, <1>7 DEF PlaceInv, Elsewhere, dlqVars

\* The disposal moves a dead letter to the companion or drops another message,
\* and nobody works on either.
LEMMA DisposeKeepsPlace ==
    ASSUME IInv, PlaceInv, HasDeadLetter, DisposeNext
    PROVE  PlaceInv'
<1> DEFINE m == Least(messagesWithDispositions)
<1>1. m \in messagesWithDispositions /\ m \in Serial
  <2>1. messagesWithDispositions \in SUBSET Nat
    BY DEF IInv, TypeOK, Serial
  <2> QED
    BY <2>1, LeastIsFirst DEF DisposeNext, IInv, TypeOK
<1>2. m \in Issued /\ ~Live(m)
  BY <1>1 DEF IInv, OnlyIssued, PlaceInv
<1>3. m \notin InFlight /\ topMessage # m
  BY <1>1, <1>2 DEF IInv, SingleDelivery, Live, NoMessage, Serial
<1>4. /\ UNCHANGED <<serverRunning, dlqExists, lastSerialNumber, message,
                     delivery, topMessage>>
      /\ messagesWithDispositions' = messagesWithDispositions \ {m}
  BY DEF DisposeNext, deliveryVars
<1>5. InFlight' = InFlight /\ Issued' = Issued
  BY <1>4 DEF InFlight, Issued
<1>6. CASE StillBuffered(m)
  <2>1. InQueue' = InQueue \ {m} /\ m \in InQueue
    BY <1>6 DEF DisposeNext, RemoveFromBufferAndDatabase, InQueue,
                StillBuffered, IInv, NothingStranded
  <2>2. deadLetters' = IF message[m].state = "DeadLetter"
                       THEN deadLetters \cup {m} ELSE deadLetters
    BY <1>6 DEF DisposeNext, MoveMessageToDeadLetter, IsDeadLettered, PlaceInv
  <2> HIDE DEF m
  <2> QED
    BY <1>2, <1>3, <1>4, <1>5, <2>1, <2>2 DEF PlaceInv, Live
<1>7. CASE ~StillBuffered(m)
  <2>1. InQueue' = InQueue /\ deadLetters' = deadLetters
    BY <1>7 DEF DisposeNext, InQueue
  <2> HIDE DEF m
  <2> QED
    BY <1>4, <1>5, <2>1 DEF PlaceInv, Live
<1> QED
  BY <1>6, <1>7

LEMMA EnqueueKeepsPlace ==
    ASSUME IInv, PlaceInv, NEW deferred \in BOOLEAN, Enqueue(deferred)
    PROVE  PlaceInv'
<1> DEFINE m == lastSerialNumber + 1
<1>1. /\ Issued' = Issued \cup {m} /\ m \notin Issued
      /\ \A k \in Serial : k # m => message'[k] = message[k]
  BY EnqueueIsLocal DEF IInv
<1>2. InQueue' = InQueue \cup {m}
  BY DEF Enqueue, Store, InQueue
<1>3. /\ UNCHANGED <<serverRunning, dlqVars, delivery, topMessage,
                     messagesWithDispositions>>
      /\ InFlight' = InFlight
  BY DEF Enqueue, threadVars, InFlight
<1>4. /\ messagesWithDispositions \subseteq Issued /\ Issued \subseteq Serial
      /\ deadLetters \subseteq Issued
  BY IssuedAreSerials DEF IInv, OnlyIssued, PlaceInv
<1> HIDE DEF m
<1>5. \A k \in Issued : message'[k] = message[k]
  BY <1>1, <1>4
<1> QED
  BY <1>1, <1>2, <1>3, <1>4, <1>5 DEF PlaceInv, Live, dlqVars

LEMMA NextKeepsPlace ==
    ASSUME IInv, PlaceInv, HasDeadLetter, [Next]_vars,
           Environment \cap {"purge", "stop", "deleteDeadLetter"} = {}
    PROVE  PlaceInv'
<1>1. CASE \E deferred \in BOOLEAN : Enqueue(deferred)
  BY <1>1, EnqueueKeepsPlace
<1>2. CASE \/ PurgeQueue \/ StopServer \/ DeleteDeadLetterQueue
           \/ SignalShutdown
  BY <1>2 DEF PurgeQueue, StopServer, DeleteDeadLetterQueue, SignalShutdown,
              PlaceInv
<1>3. CASE \E m \in Serial : Answer(m)
  <2>1. PICK m \in Serial : Answer(m)
    BY <1>3
  <2>2. /\ m \in InFlight /\ DeliveryStep(m) /\ Elsewhere
        /\ UNCHANGED threadVars
    BY <2>1, AnswerIsStep
  <2>3. m \in InQueue /\ m \in Issued /\ Live(m)
    BY <2>2 DEF PlaceInv, IInv, OnlyIssued, SingleDelivery, Live
  <2> QED
    BY <2>2, <2>3, DeliveryKeepsPlace DEF threadVars
<1>4. CASE Dispatch
  <2>1. topMessage \in InQueue /\ Live(topMessage)
    BY <1>4, DispatchIsStep DEF PlaceInv, Live, Serial, NoMessage
  <2> QED
    BY <1>4, <2>1, DispatchIsStep, DeliveryKeepsPlace
<1>5. CASE DisposeNext
  BY <1>5, DisposeKeepsPlace
<1>6. CASE Pick \/ \E m \in Serial : DeferralElapses(m) \/ GrowsOld(m)
  <2>1. HistoryKept
    BY <1>6, PickKeepsHistory, TimeKeepsHistory
  <2>2. /\ PlacesKept
        /\ messagesWithDispositions' = messagesWithDispositions
    BY <1>6 DEF Pick, DeferralElapses, GrowsOld, PlacesKept, storeVars,
                dlqVars, threadVars, InQueue
  <2>3. topMessage' \in {topMessage, NoMessage} \cup messageBuffer
    <3>1. CASE Pick
      <4> DEFINE ready == {k \in messageBuffer : Deliverable(k)'}
      <4>1. topMessage' = IF HasCapacity /\ subscribers # {} /\ ready # {}
                          THEN FirstOf(ready) ELSE NoMessage
        BY <3>1 DEF Pick
      <4>2. ready \subseteq messageBuffer
        OBVIOUS
      <4> HIDE DEF ready
      <4>3. ready \in SUBSET Nat
        BY <4>2 DEF IInv, TypeOK, Serial
      <4> QED
        BY <4>1, <4>2, <4>3, LeastIsFirst DEF FirstOf
    <3>2. CASE \E m \in Serial : DeferralElapses(m) \/ GrowsOld(m)
      BY <3>2 DEF DeferralElapses, GrowsOld, threadVars
    <3> QED
      BY <1>6, <3>1, <3>2
  <2> QED
    BY <2>1, <2>2, <2>3, HistoryKeepsPlace
<1>7. CASE \/ FinishDelivery \/ BeginIteration \/ HydrateMessageBuffer
           \/ AwaitDelivery \/ CollectDispositions \/ LockForDisposal
           \/ DisposalEnds \/ DeadLetterTimeout \/ LockTimeout
           \/ \E s \in Subscriber : Subscribe(s) \/ Unsubscribe(s)
           \/ UNCHANGED vars
  <2>1. UNCHANGED <<message, delivery, topMessage>>
    BY <1>7 DEF FinishDelivery, BeginIteration, HydrateMessageBuffer,
                AwaitDelivery, CollectDispositions, LockForDisposal,
                DisposalEnds, DeadLetterTimeout, LockTimeout, Subscribe,
                Unsubscribe, vars, deliveryVars, threadVars
  <2>2. PlacesKept
    <3>1. CASE HydrateMessageBuffer
      <4>1. Hydration \subseteq database
        BY DEF Hydration
      <4> QED
        BY <3>1, <4>1 DEF HydrateMessageBuffer, InQueue, IInv, PlacesKept,
                          EphemeralHasNoDatabase, dlqVars
    <3>2. CASE ~HydrateMessageBuffer
      BY <1>7, <3>2 DEF FinishDelivery, BeginIteration, AwaitDelivery,
                CollectDispositions, LockForDisposal, DisposalEnds,
                DeadLetterTimeout, LockTimeout, Subscribe, Unsubscribe, vars,
                storeVars, dlqVars, PlacesKept, InQueue
    <3> QED
      BY <3>1, <3>2
  <2>3. \A m \in messagesWithDispositions' : ~Live(m)
    BY <1>7 DEF FinishDelivery, BeginIteration, HydrateMessageBuffer,
                AwaitDelivery, CollectDispositions, LockForDisposal,
                DisposalEnds, DeadLetterTimeout, LockTimeout, Subscribe,
                Unsubscribe, vars, threadVars, PlaceInv, Live
  <2> QED
    BY <2>1, <2>2, <2>3, QuietKeepsPlace
<1> QED
  BY <1>1, <1>2, <1>3, <1>4, <1>5, <1>6, <1>7
     DEF Next, Clients, DeliveryThread

\* A dead letter is in its queue or in the companion, through moves that time
\* out and are tried again, while nobody purges the queue, deletes the
\* companion or stops the server: each of the three may lose or leave one.
THEOREM DeadLettersAreKept ==
    ASSUME Environment \cap {"purge", "stop", "deleteDeadLetter"} = {}
    PROVE  Spec => []DeadLetterInOnePlace
<1>1. CASE HasDeadLetter
  <2>1. Init => PlaceInv
    BY <1>1 DEF Init, PlaceInv, InFlight, Idle, NewMessage, NoMessage, Live,
                Issued
  <2>2. IInv /\ PlaceInv /\ [Next]_vars => PlaceInv'
    BY <1>1, NextKeepsPlace
  <2>3. PlaceInv => DeadLetterInOnePlace
    BY DEF PlaceInv, DeadLetterInOnePlace, Issued
  <2> QED
    BY <2>1, <2>2, <2>3, Invariance, PTL DEF Spec
<1>2. CASE ~HasDeadLetter
  <2>1. DeadLetterInOnePlace
    BY <1>2 DEF DeadLetterInOnePlace
  <2> QED
    BY <2>1, PTL
<1> QED
  BY <1>1, <1>2

-----------------------------------------------------------------------------
(* The order of the messages.                                              *)

NothingDeferred == \A m \in Serial : ~message[m].deferred

\* One delivery at a time, and everything before its message is finished.
OrderInv ==
    /\ NothingDeferred
    /\ InFlight # {} => pc = "await"
    /\ \A m \in InFlight \cup ({topMessage} \ {NoMessage}), n \in InQueue :
          n < m => ~Live(n)

\* No answer but a deferral, and not the passing of time, defers a message.
LEMMA NothingGetsDeferred ==
    ASSUME IInv, NothingDeferred, [Next]_vars,
           "Defer" \notin Replies, "deferredEnqueue" \notin Environment
    PROVE  NothingDeferred'
<1>1. ASSUME NEW m \in Serial, NEW rec \in Message, ~rec.deferred,
             NEW s \in Subscriber,
             message' = [message EXCEPT ![m] = Attempted(rec, s)]
      PROVE  NothingDeferred'
  <2>1. ~Attempted(rec, s).deferred
    BY <1>1 DEF Attempted, Message
  <2> QED
    BY <1>1, <2>1 DEF NothingDeferred, IInv, TypeOK
<1>2. ASSUME NEW m \in Serial, NEW rec \in Message, ~rec.deferred,
             NEW state, Return(m, rec, state)
      PROVE  NothingDeferred'
  <2>1. ~[rec EXCEPT !.state = state].deferred
    BY <1>2 DEF Message
  <2> QED
    BY <1>2, <2>1 DEF Return, NothingDeferred, IInv, TypeOK
<1>3. CASE \E m \in Serial : Answer(m)
  <2>0. PICK m \in Serial : Answer(m)
    BY <1>3
  <2>1. PICK s \in delivery[m].awaiting, rec \in Message : Answered(m, s, rec)
    BY <2>0, AnswersAreAnswered
  <2>2. ~rec.deferred /\ delivery[m].pending \subseteq Subscriber
    BY <2>1 DEF Answered, NothingDeferred, IInv, TypeOK, Delivery
  <2>3. CASE \E state : Return(m, rec, state)
    BY <1>2, <2>2, <2>3
  <2>4. CASE \E x \in delivery[m].pending :
                message' = [message EXCEPT ![m] = Attempted(rec, x)]
    BY <1>1, <2>2, <2>4
  <2> QED
    BY <2>1, <2>3, <2>4 DEF Answered, Proceed
<1>4. CASE Dispatch
  <2> DEFINE out == [message[topMessage] EXCEPT !.state = "OutForDelivery"]
  <2>1. topMessage \in Serial /\ Remaining(message[topMessage]) \subseteq Subscriber
    BY <1>4, DispatchIsStep DEF IInv, TypeOK, Remaining
  <2>2. out \in Message /\ ~out.deferred
    BY <2>1 DEF IInv, TypeOK, Message, MessageState, NothingDeferred
  <2>3. \/ \E state : Return(topMessage, out, state)
        \/ \E x \in Remaining(message[topMessage]) :
              message' = [message EXCEPT ![topMessage] = Attempted(out, x)]
    BY <1>4 DEF Dispatch
  <2> HIDE DEF out
  <2> QED
    BY <1>1, <1>2, <2>1, <2>2, <2>3
<1>5. CASE \E deferred \in BOOLEAN : Enqueue(deferred)
  <2>1. message' = [message EXCEPT ![lastSerialNumber + 1] = NewMessage(FALSE)]
    BY <1>5 DEF Enqueue
  <2> QED
    BY <2>1 DEF NothingDeferred, NewMessage, IInv, TypeOK
<1>6. CASE HistoryKept
  BY <1>6 DEF HistoryKept, NothingDeferred
<1> QED
  BY <1>3, <1>4, <1>5, <1>6, OtherStepsKeepHistory

\* What is finished stays so.
LEMMA FinishedStaysFinished ==
    ASSUME IInv, [Next]_vars, NEW n \in Issued, ~Live(n)
    PROVE  ~Live(n)'
<1>1. n \in Serial
  BY IssuedAreSerials DEF IInv
<1>2. CASE \E deferred \in BOOLEAN : Enqueue(deferred)
  BY <1>1, <1>2, EnqueueIsLocal DEF Live, IInv
<1>3. CASE \E m \in Issued \cap Serial : DeliveryStep(m) /\ Live(m)
  BY <1>1, <1>3 DEF DeliveryStep, Live, IInv, TypeOK
<1>4. CASE HistoryKept
  BY <1>1, <1>4 DEF HistoryKept, StateKept, Live
<1> QED
  BY <1>2, <1>3, <1>4, HowMessagesChange DEF Live

\* The thread picks the oldest message that is not finished.
LEMMA PickIsInOrder ==
    ASSUME IInv, OrderInv, Pick, topMessage' # NoMessage,
           NEW n \in InQueue, n < topMessage'
    PROVE  ~Live(n)'
<1> DEFINE ready == {k \in messageBuffer : Deliverable(k)'}
<1>1. ready # {} /\ topMessage' = FirstOf(ready)
  BY DEF Pick
<1>2. ready \subseteq messageBuffer /\ ready \in SUBSET Nat
  <2>1. messageBuffer \subseteq Nat
    BY DEF IInv, TypeOK, Serial
  <2>2. ready \subseteq messageBuffer
    OBVIOUS
  <2> QED
    BY <2>1, <2>2
<1>3. topMessage' \in ready /\ \A k \in ready : topMessage' <= k
  <2> HIDE DEF ready
  <2> QED
    BY <1>1, <1>2, LeastIsFirst DEF FirstOf
<1>4. n \in messageBuffer /\ n \in Serial
  BY <1>2, <1>3 DEF InQueue, IInv, NothingStranded, TypeOK, Serial
<1>5. n \notin ready
  BY <1>2, <1>3
<1>6. ~message'[n].deferred
  BY <1>4, PickKeepsHistory DEF HistoryKept, OrderInv, NothingDeferred
<1>7. message'[n].state # "Ready"
  BY <1>4, <1>5, <1>6 DEF Deliverable
<1>8. message[n].state # "OutForDelivery"
  BY <1>4 DEF Pick, OrderInv, IInv, SingleDelivery
<1>9. message'[n].state # "OutForDelivery"
  BY <1>4, <1>8, PickKeepsHistory DEF HistoryKept, StateKept
<1> QED
  BY <1>7, <1>9 DEF Live

\* The thread's place and what it works on, in synchronous delivery.
LEMMA OneAtATime ==
    ASSUME IInv, OrderInv, [Next]_vars, ~AsynchronousDelivery
    PROVE  /\ InFlight' # {} => pc' = "await"
           /\ InFlight' \subseteq InFlight \cup ({topMessage} \ {NoMessage})
           /\ \/ topMessage' \in {topMessage, NoMessage} \/ Pick
<1>1. CASE \E m \in Serial : Answer(m)
  <2>1. PICK m \in Serial : Answer(m)
    BY <1>1
  <2>2. /\ m \in InFlight /\ DeliveryStep(m) /\ UNCHANGED threadVars
    BY <2>1, AnswerIsStep
  <2>3. InFlight' \subseteq InFlight
    BY <2>2, DeliveryStepCounts
  <2> QED
    BY <2>2, <2>3 DEF OrderInv, threadVars
<1>2. CASE Dispatch
  <2>1. topMessage \in Serial /\ topMessage # NoMessage
    BY <1>2, DispatchIsStep DEF Serial, NoMessage
  <2>2. InFlight' \subseteq InFlight \cup {topMessage}
    BY <1>2, <2>1, DispatchIsStep, DeliveryStepCounts
  <2>3. pc' = "await" /\ topMessage' = NoMessage
    BY <1>2 DEF Dispatch, Goto
  <2> QED
    BY <2>1, <2>2, <2>3
<1>3. CASE ~Dispatch /\ ~\E m \in Serial : Answer(m)
  <2>1. InFlight' = InFlight
    BY <1>3, OtherStepsKeepHistory DEF HistoryKept, Enqueue, InFlight
  <2>2. CASE DeliveryThread
    <3>1. CASE AwaitDelivery
      BY <2>1, <3>1 DEF AwaitDelivery
    <3>2. CASE \/ BeginIteration \/ HydrateMessageBuffer
               \/ CollectDispositions \/ LockForDisposal
               \/ DisposalEnds \/ DisposeNext \/ DeadLetterTimeout
               \/ LockTimeout
      BY <2>1, <3>2 DEF OrderInv, BeginIteration, HydrateMessageBuffer,
                CollectDispositions, LockForDisposal, DisposalEnds,
                DisposeNext, DeadLetterTimeout, LockTimeout
    <3>3. CASE Pick
      BY <2>1, <3>3 DEF OrderInv, Pick
    <3> QED
      BY <1>3, <2>2, <3>1, <3>2, <3>3 DEF DeliveryThread
  <2>3. CASE \/ Clients \/ StopServer \/ SignalShutdown \/ FinishDelivery
             \/ \E m \in Serial : DeferralElapses(m) \/ GrowsOld(m)
             \/ UNCHANGED vars
    <3>1. UNCHANGED threadVars
      BY <2>3 DEF Clients, Enqueue, PurgeQueue, Subscribe, Unsubscribe,
                DeleteDeadLetterQueue, StopServer, SignalShutdown,
                FinishDelivery, DeferralElapses, GrowsOld, vars
    <3> QED
      BY <2>1, <3>1 DEF OrderInv, threadVars
  <2> QED
    BY <1>3, <2>2, <2>3 DEF Next
<1> QED
  BY <1>1, <1>2, <1>3

LEMMA NextKeepsOrder ==
    ASSUME IInv, OrderInv, [Next]_vars, ~AsynchronousDelivery,
           "Defer" \notin Replies, "deferredEnqueue" \notin Environment
    PROVE  OrderInv'
<1>1. NothingDeferred'
  BY NothingGetsDeferred DEF OrderInv
<1>2. ASSUME NEW m \in InFlight' \cup ({topMessage'} \ {NoMessage}),
             NEW n \in InQueue', n < m
      PROVE  ~Live(n)'
  <2>1. \/ m \in InFlight \cup ({topMessage} \ {NoMessage})
        \/ Pick /\ m = topMessage' /\ m # NoMessage
    <3>1. /\ InFlight' \subseteq InFlight \cup ({topMessage} \ {NoMessage})
          /\ topMessage' \in {topMessage, NoMessage} \/ Pick
      BY OneAtATime
    <3> QED
      BY <1>2, <3>1
  <2>2. InFlight' \subseteq Issued'
        /\ topMessage' \in Issued' \cup {NoMessage}
    BY NextKeepsIInv DEF IInv, OnlyIssued
  <2>3. Pick => lastSerialNumber' = lastSerialNumber
    BY DEF Pick, storeVars
  <2>4. m \in Issued
    BY <1>2, <2>1, <2>2, <2>3 DEF Issued, IInv, OnlyIssued
  <2>5. n \in InQueue /\ n \in Issued
    <3>1. n # lastSerialNumber + 1
      BY <1>2, <2>4 DEF Issued, IInv, TypeOK
    <3> QED
      BY <3>1, QueueGrowsAtTheEnd DEF InQueue, IInv, OnlyIssued
  <2>6. CASE Pick /\ m = topMessage' /\ m # NoMessage
    BY <1>2, <2>5, <2>6, PickIsInOrder
  <2>7. CASE m \in InFlight \cup ({topMessage} \ {NoMessage})
    BY <1>2, <2>5, <2>7, FinishedStaysFinished DEF OrderInv
  <2> QED
    BY <2>1, <2>6, <2>7
<1> QED
  BY <1>1, <1>2, OneAtATime DEF OrderInv

\* With synchronous delivery and no deferrals a subscriber is sent a message
\* for the first time when it was sent every earlier one that is still to be
\* delivered: in fact, no earlier one is.
THEOREM SentInOrder ==
    ASSUME ~AsynchronousDelivery, "Defer" \notin Replies,
           "deferredEnqueue" \notin Environment
    PROVE  Spec => InOrderPerSubscriber
<1>1. Init => OrderInv
  BY DEF Init, OrderInv, NothingDeferred, NewMessage, InFlight, Idle
<1>2. IInv /\ OrderInv /\ [Next]_vars => OrderInv'
  BY NextKeepsOrder
<1>3. Spec => [](IInv /\ OrderInv)
  BY <1>1, <1>2, Invariance, PTL DEF Spec
<1>4. ASSUME IInv, OrderInv, [Next]_vars, NEW k \in Serial,
             NEW s \in Subscriber, Attempts(k, s) = 0, Attempts(k, s)' = 1,
             NEW n \in InQueue, n < k
      PROVE  ~Live(n)
  <2>1. ASSUME NEW m \in Serial, DeliveryStep(m),
               m \in InFlight \cup ({topMessage} \ {NoMessage})
        PROVE  ~Live(n)
    <3>1. k # m => Attempts(k, s)' = Attempts(k, s)
      BY <2>1 DEF DeliveryStep, Attempts, IInv, TypeOK
    <3> QED
      BY <1>4, <2>1, <3>1 DEF OrderInv
  <2>2. CASE \E m \in Serial : Answer(m)
    BY <1>4, <2>1, <2>2, AnswerIsStep
  <2>3. CASE Dispatch
    BY <1>4, <2>1, <2>3, DispatchIsStep DEF Serial, NoMessage
  <2>4. CASE \E deferred \in BOOLEAN : Enqueue(deferred)
    BY <1>4, <2>4 DEF Enqueue, Attempts, NewMessage, IInv, TypeOK
  <2>5. CASE HistoryKept
    BY <1>4, <2>5 DEF HistoryKept, Attempts
  <2> QED
    BY <1>4, <2>2, <2>3, <2>4, <2>5, OtherStepsKeepHistory
<1>5. IInv /\ OrderInv /\ [Next]_vars
         => [\A m \in Serial, s \in Subscriber :
                Attempts(m, s) = 0 /\ Attempts(m, s)' = 1 =>
                   \A n \in InQueue :
                      n < m /\ message[n].state \in {"Ready", "OutForDelivery"}
                         => Attempts(n, s) > 0]_vars
  BY <1>4 DEF Live
<1>6. Spec => [][\A m \in Serial, s \in Subscriber :
                    Attempts(m, s) = 0 /\ Attempts(m, s)' = 1 =>
                       \A n \in InQueue :
                          n < m /\ message[n].state \in
                                      {"Ready", "OutForDelivery"}
                             => Attempts(n, s) > 0]_vars
  BY <1>3, <1>5, PTL DEF Spec
<1> QED
  BY <1>6 DEF InOrderPerSubscriber

-----------------------------------------------------------------------------
(* What leaves the queue, and when it is lost.                             *)

\* While the disposal loop runs nothing else takes a message out.
LEMMA OnlyDisposalRemoves ==
    ASSUME IInv, [Next]_vars, NEW m \in Serial, Disposed(m)
    PROVE  /\ DisposeNext /\ m = Least(messagesWithDispositions)
           /\ m \in messagesWithDispositions /\ StillBuffered(m)
<1>1. pc = "dispose" /\ m \in InQueue /\ m \notin InQueue'
  BY DEF Disposed
<1>2. CASE Clients
  <2>1. InQueue \subseteq InQueue'
    BY <1>1, <1>2 DEF Clients, Enqueue, Store, PurgeQueue, MessagesUnlocked,
                      DeleteDeadLetterQueue, Subscribe, Unsubscribe, storeVars,
                      InQueue
  <2> QED
    BY <1>1, <2>1
<1>3. CASE \/ StopServer \/ SignalShutdown \/ FinishDelivery
           \/ \E k \in Serial : DeferralElapses(k) \/ GrowsOld(k)
           \/ UNCHANGED vars
  BY <1>1, <1>3 DEF StopServer, SignalShutdown, FinishDelivery,
                    DeferralElapses, GrowsOld, vars, storeVars, InQueue
<1>4. CASE \E k \in Serial : Answer(k)
  BY <1>1, <1>4, AnswerIsStep DEF Elsewhere, storeVars, InQueue
<1>5. CASE DeliveryThread
  <2>1. DisposeNext
    BY <1>1, <1>5 DEF DeliveryThread, BeginIteration, HydrateMessageBuffer,
              Pick, Dispatch, AwaitDelivery, CollectDispositions,
              LockForDisposal, DisposalEnds, DeadLetterTimeout, LockTimeout,
              storeVars, InQueue
  <2> DEFINE k == Least(messagesWithDispositions)
  <2>2. k \in messagesWithDispositions
    <3>1. messagesWithDispositions \in SUBSET Nat
      BY DEF IInv, TypeOK, Serial
    <3> QED
      BY <2>1, <3>1, LeastIsFirst DEF DisposeNext
  <2>3. /\ StillBuffered(k)
        /\ database' = database \ {k} /\ messageBuffer' = messageBuffer \ {k}
    BY <1>1, <2>1 DEF DisposeNext, RemoveFromBufferAndDatabase, InQueue
  <2>4. m = k
    BY <1>1, <2>3 DEF InQueue
  <2> QED
    BY <2>1, <2>2, <2>3, <2>4
<1> QED
  BY <1>2, <1>3, <1>4, <1>5 DEF Next

\* Only StopServer ends the server.
LEMMA ServerKeepsRunning ==
    ASSUME IInv, serverRunning, [Next]_vars, "stop" \notin Environment
    PROVE  serverRunning'
<1>1. CASE \/ Clients \/ StopServer \/ SignalShutdown \/ FinishDelivery
           \/ \E m \in Serial : DeferralElapses(m) \/ GrowsOld(m)
           \/ UNCHANGED vars
  BY <1>1 DEF Clients, Enqueue, PurgeQueue, DeleteDeadLetterQueue, Subscribe,
              Unsubscribe, StopServer, SignalShutdown, FinishDelivery,
              DeferralElapses, GrowsOld, vars
<1>2. CASE \E m \in Serial : Answer(m)
  <2>1. PICK m \in Serial : Answer(m)
    BY <1>2
  <2> QED
    BY <2>1, AnswerIsStep DEF Elsewhere
<1>3. CASE DeliveryThread
  BY <1>3 DEF DeliveryThread, BeginIteration, HydrateMessageBuffer, Pick,
              Dispatch, AwaitDelivery, CollectDispositions, LockForDisposal,
              DisposeNext, DisposalEnds, DeadLetterTimeout, LockTimeout
<1> QED
  BY <1>1, <1>2, <1>3 DEF Next

\* A dead letter that leaves the queue is in the companion, if there is one,
\* unless the server was being stopped: under purges, deletions of the
\* companion, missed locks and moves that throw.
THEOREM LostOnlyWhenStopping ==
    ASSUME "stop" \notin Environment
    PROVE  Spec => DeadLettersKept
<1>1. Init => serverRunning
  BY DEF Init
<1>2. IInv /\ serverRunning /\ [Next]_vars => serverRunning'
  BY ServerKeepsRunning
<1>3. ASSUME IInv, serverRunning, [Next]_vars, NEW m \in Serial, Disposed(m),
             message[m].state = "DeadLetter", HasDeadLetter, dlqExists
      PROVE  m \in deadLetters'
  <2>1. DisposeNext /\ m = Least(messagesWithDispositions) /\ StillBuffered(m)
    BY <1>3, OnlyDisposalRemoves
  <2> QED
    BY <1>3, <2>1 DEF DisposeNext, IsDeadLettered, MoveMessageToDeadLetter
<1>4. IInv /\ serverRunning /\ [Next]_vars
         => [\A m \in Serial :
                /\ Disposed(m) /\ message[m].state = "DeadLetter"
                /\ HasDeadLetter /\ dlqExists
                => m \in deadLetters']_vars
  BY <1>3
<1>5. Spec => [][\A m \in Serial :
                    /\ Disposed(m) /\ message[m].state = "DeadLetter"
                    /\ HasDeadLetter /\ dlqExists
                    => m \in deadLetters']_vars
  BY <1>1, <1>2, <1>4, Invariance, PTL DEF Spec
<1> QED
  BY <1>5 DEF DeadLettersKept

-----------------------------------------------------------------------------
(* Discarded, and sent to nobody.                                          *)

\* A message in the thread's hands has somebody to be sent to.
HeldForSomebody == topMessage # NoMessage => subscribers # {}

\* Who is asked, or done, was sent the message.
AskedWereSent ==
    \A m \in Serial : \A s \in delivery[m].awaiting \cup Completed(message[m]) :
        Attempts(m, s) > 0

SentInv == HeldForSomebody /\ AskedWereSent /\ NotDiscardedUnsent

\* Where nobody unsubscribes or loses the connection, subscribers only come.
LEMMA SubscribersStay ==
    ASSUME IInv, [Next]_vars, "unsubscribe" \notin Environment
    PROVE  /\ subscribers \subseteq subscribers'
           /\ HeldForSomebody => HeldForSomebody'
<1>1. CASE \/ Clients \/ StopServer \/ SignalShutdown \/ FinishDelivery
           \/ \E m \in Serial : DeferralElapses(m) \/ GrowsOld(m)
           \/ UNCHANGED vars
  BY <1>1 DEF Clients, Enqueue, PurgeQueue, DeleteDeadLetterQueue, Subscribe,
              Unsubscribe, StopServer, SignalShutdown, FinishDelivery,
              DeferralElapses, GrowsOld, vars, threadVars, HeldForSomebody
<1>2. CASE \E m \in Serial : Answer(m)
  <2>1. PICK m \in Serial : Answer(m)
    BY <1>2
  <2> QED
    BY <2>1, AnswerIsStep DEF Elsewhere, threadVars, HeldForSomebody
<1>3. CASE DeliveryThread
  <2>1. subscribers' = subscribers
    BY <1>3 DEF DeliveryThread, BeginIteration, HydrateMessageBuffer, Pick,
              Dispatch, AwaitDelivery, CollectDispositions, LockForDisposal,
              DisposeNext, DisposalEnds, DeadLetterTimeout, LockTimeout
  <2>2. CASE Pick
    BY <2>1, <2>2 DEF Pick, HeldForSomebody
  <2>3. CASE ~Pick
    <3>1. topMessage' \in {topMessage, NoMessage}
      BY <1>3, <2>3 DEF DeliveryThread, BeginIteration, HydrateMessageBuffer,
              Dispatch, AwaitDelivery, CollectDispositions, LockForDisposal,
              DisposeNext, DisposalEnds, DeadLetterTimeout, LockTimeout
    <3> QED
      BY <2>1, <3>1 DEF HeldForSomebody
  <2> QED
    BY <2>1, <2>2, <2>3
<1> QED
  BY <1>1, <1>2, <1>3 DEF Next

\* The passing of time makes no fresh message final.
LEMMA FreshAreKept ==
    ASSUME IInv, [Next]_vars, ~Dispatch, \A m \in Serial : ~Answer(m),
           \A deferred \in BOOLEAN : ~Enqueue(deferred)
    PROVE  \A k \in Serial : message'[k].age = "fresh" =>
               /\ message[k].age = "fresh"
               /\ message'[k].state = message[k].state
<1>1. CASE \E m \in Serial : DeferralElapses(m)
  <2>1. PICK m \in Serial : message' = [message EXCEPT ![m].deferred = FALSE]
    BY <1>1 DEF DeferralElapses
  <2> QED
    BY <2>1 DEF IInv, TypeOK, Message
<1>2. CASE \E m \in Serial : GrowsOld(m)
  <2>1. PICK m \in Serial, age \in {"expired", "ancient"} :
            message' = [message EXCEPT ![m].age = age]
    BY <1>2 DEF GrowsOld
  <2> QED
    BY <2>1 DEF IInv, TypeOK, Message
<1>3. CASE Pick
  <2>1. ASSUME NEW k \in Serial
        PROVE  /\ message'[k].age = message[k].age
               /\ message[k].age = "fresh" => message'[k] = message[k]
    BY <1>3 DEF Pick, AfterExpiry, Expired, IInv, TypeOK, Message
  <2> QED
    BY <2>1
<1>4. CASE message' = message
  BY <1>4
<1>5. \/ message' = message \/ Pick
      \/ \E m \in Serial : DeferralElapses(m) \/ GrowsOld(m)
  BY DEF Next, Clients, DeliveryThread, PurgeQueue, DeleteDeadLetterQueue,
         Subscribe, Unsubscribe, StopServer, SignalShutdown, FinishDelivery,
         BeginIteration, HydrateMessageBuffer, AwaitDelivery,
         CollectDispositions, LockForDisposal, DisposeNext, DisposalEnds,
         DeadLetterTimeout, LockTimeout, vars, deliveryVars
<1> QED
  BY <1>1, <1>2, <1>3, <1>4, <1>5

\* The limit check changes who is done with the message, and nothing else.
LEMMA LimitCheckKeeps ==
    ASSUME NEW rec \in Message, NEW s \in Subscriber
    PROVE  LET new == AfterLimitCheck(rec, s) IN
           /\ new \in Message /\ new.attempts = rec.attempts
           /\ new.state = rec.state /\ new.age = rec.age
           /\ Completed(rec) \subseteq Completed(new)
           /\ Completed(new) \subseteq Completed(rec) \cup {s}
<1>1. CASE ReachesLimit(rec, s)
  <2> DEFINE new == [rec EXCEPT !.limitReached = @ \cup {s}]
  <2>1. /\ new \in Message /\ new.attempts = rec.attempts
        /\ new.state = rec.state /\ new.age = rec.age
        /\ new.satisfied = rec.satisfied
        /\ new.limitReached = rec.limitReached \cup {s}
    BY DEF Message
  <2>2. AfterLimitCheck(rec, s) = new
    BY <1>1 DEF AfterLimitCheck
  <2> HIDE DEF new
  <2> QED
    BY <2>1, <2>2 DEF Completed
<1>2. CASE ~ReachesLimit(rec, s)
  BY <1>2 DEF AfterLimitCheck
<1> QED
  BY <1>1, <1>2

\* How an answer leaves the message, apart from how the delivery goes on.
Noted(m, s, rec) ==
    /\ rec \in Message /\ rec.attempts = message[m].attempts
    /\ rec.state = "OutForDelivery" /\ rec.age = message[m].age
    /\ Completed(message[m]) \subseteq Completed(rec)
    /\ Completed(rec) \subseteq Completed(message[m]) \cup {s}

\* The ways a delivery goes on, each with the answers that lead there.
Outcome(m, s, rec) ==
    \/ Return(m, rec, "DeadLetter")
    \/ Return(m, rec, "Drop") /\ (FirstConsumedSubscriber \/ "Drop" \in Replies)
    \/ Return(m, rec, "Ready") /\ Completed(rec) = Completed(message[m])
    \/ Proceed(m, rec, delivery[m].failed)
    \/ /\ Proceed(m, rec, delivery[m].failed \cup {s})
       /\ "Exception" \in Replies \/ "storeFailure" \in Environment

LEMMA AnswerOutcome ==
    ASSUME IInv, NEW m \in Serial, Answer(m)
    PROVE  \E s \in delivery[m].awaiting, rec \in Message :
               Noted(m, s, rec) /\ Outcome(m, s, rec)
<1>1. ASSUME NEW s \in delivery[m].awaiting
      PROVE  /\ message[m] \in Message /\ message[m].state = "OutForDelivery"
             /\ s \in Subscriber
  BY AwaitingFacts DEF Delivery
<1>2. ASSUME NEW s \in delivery[m].awaiting, NEW old, Noted(m, s, old),
             NEW failed, Proceed(m, AfterLimitCheck(old, s), failed),
             \/ failed = delivery[m].failed
             \/ /\ failed = delivery[m].failed \cup {s}
                /\ "Exception" \in Replies \/ "storeFailure" \in Environment
      PROVE  \E rec \in Message : Noted(m, s, rec) /\ Outcome(m, s, rec)
  <2> DEFINE rec == AfterLimitCheck(old, s)
  <2>1. rec \in Message /\ Noted(m, s, rec)
    BY <1>1, <1>2, LimitCheckKeeps DEF Noted
  <2>2. Outcome(m, s, rec)
    BY <1>2 DEF Outcome
  <2> QED
    BY <2>1, <2>2
<1>3. ASSUME NEW disposition \in Replies \ {"Defer"}, Reply(m, disposition)
      PROVE  \E s \in delivery[m].awaiting, rec \in Message :
                 Noted(m, s, rec) /\ Outcome(m, s, rec)
  <2>1. PICK s \in delivery[m].awaiting :
            \/ disposition = "Consumed" /\ ReplyConsumed(m, s)
            \/ disposition = "NotInterested" /\ ReplyNotInterested(m, s)
            \/ disposition = "NotConsumed" /\ ReplyNotConsumed(m, s)
            \/ disposition = "Exception" /\ DeliveryFails(m, s)
            \/ disposition = "DeadLetter" /\ Return(m, message[m], "DeadLetter")
            \/ disposition = "Drop" /\ Return(m, message[m], "Drop")
    BY <1>3 DEF Reply
  <2>2. Noted(m, s, message[m]) /\ message[m] \in Message
    BY <1>1 DEF Noted
  <2>3. CASE ReplyConsumed(m, s)
    <3> DEFINE rec == [message[m] EXCEPT !.satisfied = @ \cup {s},
                                         !.consumed = @ \cup {s}]
    <3>1. rec \in Message /\ Noted(m, s, rec)
      BY <1>1 DEF Noted, Message, Completed
    <3>2. \/ FirstConsumedSubscriber /\ Return(m, rec, "Drop")
          \/ Proceed(m, AfterLimitCheck(rec, s), delivery[m].failed)
      BY <2>3 DEF ReplyConsumed, FirstConsumerEnds
    <3> HIDE DEF rec
    <3> QED
      BY <1>2, <3>1, <3>2 DEF Outcome
  <2>4. CASE ReplyNotInterested(m, s)
    <3> DEFINE rec == [message[m] EXCEPT !.satisfied = @ \cup {s}]
    <3>1. rec \in Message /\ Noted(m, s, rec)
      BY <1>1 DEF Noted, Message, Completed
    <3>2. Proceed(m, AfterLimitCheck(rec, s), delivery[m].failed)
      BY <2>4 DEF ReplyNotInterested
    <3> HIDE DEF rec
    <3> QED
      BY <1>2, <3>1, <3>2
  <2>5. CASE ReplyNotConsumed(m, s)
    BY <1>2, <2>2, <2>5 DEF ReplyNotConsumed
  <2>6. CASE disposition = "Exception" /\ DeliveryFails(m, s)
    BY <1>2, <2>2, <2>6 DEF DeliveryFails
  <2>7. CASE \/ Return(m, message[m], "DeadLetter")
             \/ disposition = "Drop" /\ Return(m, message[m], "Drop")
    BY <2>2, <2>7 DEF Outcome
  <2> QED
    BY <2>1, <2>3, <2>4, <2>5, <2>6, <2>7
<1>4. ASSUME Defer(m)
      PROVE  \E s \in delivery[m].awaiting, rec \in Message :
                 Noted(m, s, rec) /\ Outcome(m, s, rec)
  <2>1. PICK s \in delivery[m].awaiting :
            ReplyDefer(m, s) \/ ReplyDeferNotStored(m, s)
    BY <1>4 DEF Defer
  <2> DEFINE rec == Deferred(message[m])
  <2>2. rec.age = message[m].age
    BY <1>1 DEF Deferred, Message
  <2>3. /\ rec \in Message /\ Noted(m, s, rec)
        /\ Completed(rec) = Completed(message[m])
    <3> HIDE DEF rec
    <3>1. rec = Deferred(message[m])
      BY DEF rec
    <3> QED
      BY <1>1, <2>2, <3>1, DeferredFacts DEF Noted
  <2>4. \/ Return(m, rec, "Ready")
        \/ /\ Proceed(m, AfterLimitCheck(rec, s), delivery[m].failed \cup {s})
           /\ "storeFailure" \in Environment
    BY <2>1 DEF ReplyDefer, ReplyDeferNotStored
  <2> HIDE DEF rec
  <2> QED
    BY <1>2, <2>3, <2>4 DEF Outcome
<1> QED
  BY <1>3, <1>4 DEF Answer

\* A subscriber who is sent the message was sent it once more.
LEMMA AttemptedCounts ==
    ASSUME NEW rec \in Message, NEW s \in Subscriber
    PROVE  /\ Attempted(rec, s).attempts[s] > 0
           /\ \A x \in Subscriber :
                 rec.attempts[x] > 0 => Attempted(rec, s).attempts[x] > 0
           /\ Attempted(rec, s).age = rec.age
           /\ Completed(Attempted(rec, s)) = Completed(rec)
BY DEF Attempted, Message, Completed

\* A delivery that sent the message to all it asks, or is done with, and that
\* discards it, if at all, when it has sent it to somebody.
LEMMA SentLocally ==
    ASSUME IInv, SentInv, NEW m \in Serial,
           NEW rec \in Message, NEW d \in Delivery,
           message' = [message EXCEPT ![m] = rec],
           delivery' = [delivery EXCEPT ![m] = d],
           \A s \in d.awaiting \cup Completed(rec) : rec.attempts[s] > 0,
           \/ rec.state \notin {"DeadLetter", "Drop"}
           \/ \E s \in Subscriber : rec.attempts[s] > 0
    PROVE  AskedWereSent' /\ NotDiscardedUnsent'
<1>1. \A k \in Serial :
         /\ message'[k] = IF k = m THEN rec ELSE message[k]
         /\ delivery'[k] = IF k = m THEN d ELSE delivery[k]
  BY DEF IInv, TypeOK
<1> QED
  BY <1>1 DEF SentInv, AskedWereSent, NotDiscardedUnsent, Attempts, Completed

LEMMA SentReturn ==
    ASSUME IInv, SentInv, NEW m \in Serial, NEW rec \in Message,
           NEW state \in MessageState, Return(m, rec, state),
           \A s \in Completed(rec) : rec.attempts[s] > 0,
           \/ state \notin {"DeadLetter", "Drop"}
           \/ \E s \in Subscriber : rec.attempts[s] > 0
    PROVE  AskedWereSent' /\ NotDiscardedUnsent'
<1> DEFINE new == [rec EXCEPT !.state = state]
<1>1. /\ new \in Message /\ new.state = state /\ new.attempts = rec.attempts
      /\ Completed(new) = Completed(rec)
  BY DEF Message, Completed
<1>2. Idle \in Delivery /\ Idle.awaiting = {}
  BY DEF Idle, Delivery
<1>3. /\ message' = [message EXCEPT ![m] = new]
      /\ delivery' = [delivery EXCEPT ![m] = Idle]
  BY DEF Return
<1> HIDE DEF new
<1> QED
  BY <1>1, <1>2, <1>3, SentLocally

LEMMA SentAttempt ==
    ASSUME IInv, SentInv, NEW m \in Serial, NEW rec \in Message,
           NEW s \in Subscriber, NEW d \in Delivery, d.awaiting = {s},
           message' = [message EXCEPT ![m] = Attempted(rec, s)],
           delivery' = [delivery EXCEPT ![m] = d],
           \A x \in Completed(rec) : rec.attempts[x] > 0
    PROVE  AskedWereSent' /\ NotDiscardedUnsent'
<1> DEFINE new == Attempted(rec, s)
<1>1. /\ new \in Message /\ Completed(new) = Completed(rec)
      /\ new.attempts[s] > 0
      /\ \A x \in Subscriber : rec.attempts[x] > 0 => new.attempts[x] > 0
      /\ Completed(rec) \subseteq Subscriber
  BY AttemptedFacts, AttemptedCounts DEF Completed, Message
<1>2. message' = [message EXCEPT ![m] = new]
  OBVIOUS
<1> HIDE DEF new
<1> QED
  BY <1>1, <1>2, SentLocally

LEMMA AnswerKeepsSent ==
    ASSUME IInv, SentInv, NEW m \in Serial, Answer(m)
    PROVE  AskedWereSent' /\ NotDiscardedUnsent'
<1>1. PICK s \in delivery[m].awaiting, rec \in Message :
          Noted(m, s, rec) /\ Outcome(m, s, rec)
  BY AnswerOutcome
<1>2. delivery[m] \in Delivery /\ s \in Subscriber
  BY <1>1, AwaitingFacts DEF Delivery
<1>3. /\ rec.attempts[s] > 0
      /\ \A x \in Completed(rec) : rec.attempts[x] > 0
  BY <1>1 DEF Noted, SentInv, AskedWereSent, Attempts
<1>4. CASE \E state \in MessageState : Return(m, rec, state)
  BY <1>2, <1>3, <1>4, SentReturn
<1>5. ASSUME NEW failed \in SUBSET Subscriber, Proceed(m, rec, failed)
      PROVE  AskedWereSent' /\ NotDiscardedUnsent'
  <2>1. CASE \E state \in MessageState : Return(m, rec, state)
    BY <1>4, <2>1
  <2>2. CASE isRunning /\ delivery[m].pending # {}
    <3>1. PICK x \in delivery[m].pending :
             /\ message' = [message EXCEPT ![m] = Attempted(rec, x)]
             /\ delivery' = [delivery EXCEPT ![m] =
                   [awaiting |-> {x}, pending |-> delivery[m].pending \ {x},
                    targets |-> delivery[m].targets, failed |-> failed]]
      BY <1>5, <2>2 DEF Proceed
    <3> DEFINE d == [awaiting |-> {x}, pending |-> delivery[m].pending \ {x},
                     targets |-> delivery[m].targets, failed |-> failed]
    <3>2. d \in Delivery /\ d.awaiting = {x} /\ x \in Subscriber
      BY <1>2 DEF Delivery
    <3>3. delivery' = [delivery EXCEPT ![m] = d]
      BY <3>1
    <3> HIDE DEF d
    <3> QED
      BY <1>3, <3>1, <3>2, <3>3, SentAttempt
  <2> QED
    BY <1>5, <2>1, <2>2 DEF Proceed, Verdict, AllServed, MessageState
<1>6. /\ delivery[m].failed \in SUBSET Subscriber
      /\ delivery[m].failed \cup {s} \in SUBSET Subscriber
  BY <1>2 DEF Delivery
<1> QED
  BY <1>1, <1>4, <1>5, <1>6 DEF Outcome, MessageState

LEMMA DispatchKeepsSent ==
    ASSUME IInv, SentInv, Dispatch
    PROVE  AskedWereSent' /\ NotDiscardedUnsent'
<1>0. PICK m \in Serial : m = topMessage
  BY DispatchIsStep
<1> DEFINE out == [message[m] EXCEPT !.state = "OutForDelivery"]
           remaining == Remaining(message[m])
<1>1. /\ message[m] \in Message /\ remaining \subseteq Subscriber
      /\ subscribers # {} /\ subscribers \subseteq Subscriber
  BY <1>0 DEF IInv, TypeOK, Remaining, SentInv, HeldForSomebody, NoMessage,
              Serial
<1>2. /\ out \in Message /\ out.attempts = message[m].attempts
      /\ Completed(out) = Completed(message[m])
  BY <1>1 DEF Message, MessageState, Completed
<1>3. \A x \in Completed(out) : out.attempts[x] > 0
  BY <1>2 DEF SentInv, AskedWereSent, Attempts
<1>4. \/ remaining = {} /\ Return(m, out, NobodyLeft(out))
      \/ Return(m, out, "Shutdown")
      \/ \E s \in remaining :
            /\ message' = [message EXCEPT ![m] = Attempted(out, s)]
            /\ delivery' = [delivery EXCEPT ![m] =
                   [awaiting |-> {s}, pending |-> remaining \ {s},
                    targets |-> remaining, failed |-> {}]]
  BY <1>0 DEF Dispatch
<1>5. NobodyLeft(out) \in MessageState /\ "Shutdown" \in MessageState
  BY DEF NobodyLeft, MessageState
<1>6. remaining = {} => \E s \in Subscriber : s \in Completed(out)
  BY <1>1, <1>2 DEF Remaining
<1> HIDE DEF out
<1>7. CASE remaining = {} /\ Return(m, out, NobodyLeft(out))
  BY <1>2, <1>3, <1>5, <1>6, <1>7, SentReturn
<1>8. CASE Return(m, out, "Shutdown")
  BY <1>2, <1>3, <1>5, <1>8, SentReturn
<1>9. ASSUME NEW s \in remaining,
             message' = [message EXCEPT ![m] = Attempted(out, s)],
             delivery' = [delivery EXCEPT ![m] =
                 [awaiting |-> {s}, pending |-> remaining \ {s},
                  targets |-> remaining, failed |-> {}]]
      PROVE  AskedWereSent' /\ NotDiscardedUnsent'
  <2> DEFINE d == [awaiting |-> {s}, pending |-> remaining \ {s},
                   targets |-> remaining, failed |-> {}]
  <2>1. d \in Delivery /\ d.awaiting = {s} /\ s \in Subscriber
    BY <1>1 DEF Delivery
  <2>2. delivery' = [delivery EXCEPT ![m] = d]
    BY <1>9
  <2> HIDE DEF d, remaining
  <2> QED
    BY <1>2, <1>3, <1>9, <2>1, <2>2, SentAttempt
<1> HIDE DEF remaining
<1> QED
  BY <1>4, <1>7, <1>8, <1>9

LEMMA NextKeepsSent ==
    ASSUME IInv, SentInv, [Next]_vars, "unsubscribe" \notin Environment
    PROVE  SentInv'
<1>1. HeldForSomebody'
  BY SubscribersStay DEF SentInv
<1>2. CASE \E m \in Serial : Answer(m)
  BY <1>1, <1>2, AnswerKeepsSent DEF SentInv
<1>3. CASE Dispatch
  BY <1>1, <1>3, DispatchKeepsSent DEF SentInv
<1>4. CASE \E deferred \in BOOLEAN : Enqueue(deferred)
  <2>1. PICK deferred \in BOOLEAN : Enqueue(deferred)
    BY <1>4
  <2> DEFINE m == lastSerialNumber + 1
  <2>2. /\ delivery' = delivery
        /\ \A k \in Serial : message'[k] = IF k = m THEN NewMessage(deferred)
                                                    ELSE message[k]
    BY <2>1 DEF Enqueue, IInv, TypeOK
  <2>3. m \in Serial => delivery[m].awaiting = {}
    BY DEF IInv, OnlyIssued, Issued, InFlight, TypeOK
  <2>4. /\ Completed(NewMessage(deferred)) = {}
        /\ NewMessage(deferred).state = "Ready"
    BY DEF Completed, NewMessage
  <2> HIDE DEF m
  <2>5. AskedWereSent'
    BY <2>2, <2>3, <2>4 DEF SentInv, AskedWereSent, Attempts, Completed
  <2>6. NotDiscardedUnsent'
    BY <2>2, <2>4 DEF SentInv, NotDiscardedUnsent, Attempts
  <2> QED
    BY <1>1, <2>5, <2>6 DEF SentInv
<1>5. CASE /\ HistoryKept /\ ~Dispatch /\ \A m \in Serial : ~Answer(m)
           /\ \A deferred \in BOOLEAN : ~Enqueue(deferred)
  <2>1. \A k \in Serial : message'[k].age = "fresh" =>
            /\ message[k].age = "fresh" /\ message'[k].state = message[k].state
    BY <1>5, FreshAreKept
  <2>2. AskedWereSent'
    BY <1>5 DEF SentInv, AskedWereSent, HistoryKept, Attempts, Completed
  <2>3. NotDiscardedUnsent'
    BY <1>5, <2>1 DEF SentInv, NotDiscardedUnsent, HistoryKept, Attempts
  <2> QED
    BY <1>1, <2>2, <2>3 DEF SentInv
<1> QED
  BY <1>2, <1>3, <1>4, <1>5, OtherStepsKeepHistory

\* A message that nobody was sent leaves the queue only when it has expired,
\* where no subscriber goes away: the one the thread picked it for is then
\* still there when the delivery looks for those that remain.
THEOREM DiscardedOnlyWhenSent ==
    ASSUME "unsubscribe" \notin Environment
    PROVE  Spec => []NotDiscardedUnsent
<1>1. Init => SentInv
  BY DEF Init, SentInv, HeldForSomebody, AskedWereSent, NotDiscardedUnsent,
         NewMessage, Idle, Completed
<1>2. IInv /\ SentInv /\ [Next]_vars => SentInv'
  BY NextKeepsSent
<1>3. SentInv => NotDiscardedUnsent
  BY DEF SentInv
<1> QED
  BY <1>1, <1>2, <1>3, Invariance, PTL DEF Spec

-----------------------------------------------------------------------------
(* Given up on, and retained.                                              *)

\* A delivery asks subscribers only and none failed; a message that waits for
\* its next delivery has somebody left to be sent to; a fresh one is dropped
\* when nobody was given up on.
Settled(rec, d) ==
    /\ d.awaiting \cup d.pending \subseteq subscribers /\ d.failed = {}
    /\ d.awaiting # {} => d.targets # {}
    /\ rec.state = "Ready" => Completed(rec) = {} \/ Remaining(rec) # {}
    /\ rec.state = "Drop" /\ rec.age = "fresh" /\ HasDeadLetter
          => rec.limitReached = {}

RetainInv ==
    /\ serverRunning /\ HeldForSomebody
    /\ \A m \in messagesWithDispositions :
          message[m].state \in {"DeadLetter", "Drop"}
    /\ \A m \in Serial : Settled(message[m], delivery[m])

\* What the thread collected is collected for good.
LEMMA CollectedAreFinal ==
    ASSUME IInv, RetainInv, [Next]_vars
    PROVE  \A m \in messagesWithDispositions' :
              message'[m].state \in {"DeadLetter", "Drop"}
<1>1. ASSUME NEW n \in messagesWithDispositions
      PROVE  message'[n].state \in {"DeadLetter", "Drop"}
  <2>1. /\ n \in Serial /\ n \in Issued
        /\ message[n].state \in {"DeadLetter", "Drop"}
    BY DEF IInv, TypeOK, OnlyIssued, RetainInv
  <2>2. CASE \E deferred \in BOOLEAN : Enqueue(deferred)
    BY <2>1, <2>2, EnqueueIsLocal DEF IInv
  <2>3. CASE \E m \in Issued \cap Serial : DeliveryStep(m) /\ Live(m)
    BY <2>1, <2>3 DEF DeliveryStep, Live, IInv, TypeOK
  <2>4. CASE HistoryKept
    BY <2>1, <2>4 DEF HistoryKept, StateKept
  <2> QED
    BY <2>2, <2>3, <2>4, HowMessagesChange DEF Live
<1>2. CASE CollectDispositions
  BY <1>2 DEF CollectDispositions, deliveryVars
<1>3. CASE ~CollectDispositions
  <2>1. CASE \/ Clients \/ StopServer \/ SignalShutdown \/ FinishDelivery
             \/ \E m \in Serial : DeferralElapses(m) \/ GrowsOld(m)
             \/ UNCHANGED vars
    BY <1>1, <2>1 DEF Clients, Enqueue, PurgeQueue, DeleteDeadLetterQueue,
                Subscribe, Unsubscribe, StopServer, SignalShutdown,
                FinishDelivery, DeferralElapses, GrowsOld, vars, threadVars
  <2>2. CASE \E m \in Serial : Answer(m)
    BY <1>1, <2>2, AnswerIsStep DEF threadVars
  <2>3. CASE DeliveryThread
    BY <1>1, <1>3, <2>3 DEF DeliveryThread, BeginIteration, HydrateMessageBuffer,
              Pick, Dispatch, AwaitDelivery, LockForDisposal, DisposeNext,
              DisposalEnds, DeadLetterTimeout, LockTimeout
  <2> QED
    BY <2>1, <2>2, <2>3 DEF Next
<1> QED
  BY <1>2, <1>3

\* A step of one delivery settles its message and disturbs no other.
LEMMA SettledLocally ==
    ASSUME IInv, RetainInv, subscribers' = subscribers, NEW m \in Serial,
           NEW rec \in Message, NEW d \in Delivery,
           message' = [message EXCEPT ![m] = rec],
           delivery' = [delivery EXCEPT ![m] = d], Settled(rec, d)
    PROVE  (\A k \in Serial : Settled(message[k], delivery[k]))'
<1>1. \A k \in Serial :
         /\ message'[k] = IF k = m THEN rec ELSE message[k]
         /\ delivery'[k] = IF k = m THEN d ELSE delivery[k]
  BY DEF IInv, TypeOK
<1> QED
  BY <1>1 DEF RetainInv, Settled, Completed, Remaining

LEMMA SettledReturn ==
    ASSUME IInv, RetainInv, subscribers' = subscribers, NEW m \in Serial,
           NEW rec \in Message, NEW state \in MessageState,
           Return(m, rec, state),
           state = "Ready" => Remaining(rec) # {},
           state = "Drop" /\ HasDeadLetter => rec.limitReached = {}
    PROVE  (\A k \in Serial : Settled(message[k], delivery[k]))'
<1> DEFINE new == [rec EXCEPT !.state = state]
<1>1. /\ new \in Message /\ new.state = state
      /\ new.limitReached = rec.limitReached
      /\ Completed(new) = Completed(rec)
  BY DEF Message, Completed
<1>2. /\ Idle \in Delivery /\ Idle.awaiting = {} /\ Idle.pending = {}
      /\ Idle.failed = {}
  BY DEF Idle, Delivery
<1>3. /\ message' = [message EXCEPT ![m] = new]
      /\ delivery' = [delivery EXCEPT ![m] = Idle]
  BY DEF Return
<1> HIDE DEF new
<1>4. Settled(new, Idle)
  BY <1>1, <1>2 DEF Settled, Remaining
<1> QED
  BY <1>1, <1>2, <1>3, <1>4, SettledLocally

LEMMA SettledAttempt ==
    ASSUME IInv, RetainInv, subscribers' = subscribers, NEW m \in Serial,
           NEW rec \in Message, rec.state = "OutForDelivery",
           NEW s \in Subscriber, NEW d \in Delivery,
           d.awaiting \cup d.pending \subseteq subscribers,
           d.failed = {}, d.targets # {},
           message' = [message EXCEPT ![m] = Attempted(rec, s)],
           delivery' = [delivery EXCEPT ![m] = d]
    PROVE  (\A k \in Serial : Settled(message[k], delivery[k]))'
<1> DEFINE new == Attempted(rec, s)
<1>1. new \in Message /\ new.state = "OutForDelivery"
  BY AttemptedFacts
<1>2. message' = [message EXCEPT ![m] = new]
  OBVIOUS
<1> HIDE DEF new
<1>3. Settled(new, d)
  BY <1>1 DEF Settled
<1> QED
  BY <1>1, <1>2, <1>3, SettledLocally

LEMMA AnswerSettles ==
    ASSUME IInv, RetainInv, NEW m \in Serial, Answer(m),
           ~FirstConsumedSubscriber, Replies \cap {"Drop", "Exception"} = {},
           "storeFailure" \notin Environment
    PROVE  (\A k \in Serial : Settled(message[k], delivery[k]))'
<1>1. PICK s \in delivery[m].awaiting, rec \in Message :
          Noted(m, s, rec) /\ Outcome(m, s, rec)
  BY AnswerOutcome
<1>2. /\ delivery[m] \in Delivery /\ s \in Subscriber
      /\ subscribers' = subscribers
  BY <1>1, AwaitingFacts, AnswerIsStep DEF Delivery, Elsewhere
<1>3. /\ s \in subscribers /\ delivery[m].pending \subseteq subscribers
      /\ delivery[m].failed = {} /\ delivery[m].targets # {}
  BY <1>1 DEF RetainInv, Settled
<1>4. CASE Return(m, rec, "DeadLetter")
  BY <1>2, <1>4, SettledReturn DEF MessageState
<1>5. CASE Return(m, rec, "Ready") /\ Completed(rec) = Completed(message[m])
  <2>1. s \notin Completed(message[m])
    BY DEF IInv, DeliverySane
  <2>2. Remaining(rec) # {}
    BY <1>3, <1>5, <2>1 DEF Remaining
  <2> QED
    BY <1>2, <1>5, <2>2, SettledReturn DEF MessageState
<1>6. CASE Proceed(m, rec, {})
  <2>1. CASE isRunning /\ delivery[m].pending # {}
    <3>1. PICK x \in delivery[m].pending :
             /\ message' = [message EXCEPT ![m] = Attempted(rec, x)]
             /\ delivery' = [delivery EXCEPT ![m] =
                   [awaiting |-> {x}, pending |-> delivery[m].pending \ {x},
                    targets |-> delivery[m].targets, failed |-> {}]]
      BY <1>6, <2>1 DEF Proceed
    <3> DEFINE d == [awaiting |-> {x}, pending |-> delivery[m].pending \ {x},
                     targets |-> delivery[m].targets, failed |-> {}]
    <3>2. /\ d \in Delivery /\ x \in Subscriber
          /\ d.awaiting \cup d.pending \subseteq subscribers
          /\ d.failed = {} /\ d.targets # {}
      BY <1>2, <1>3 DEF Delivery
    <3>3. delivery' = [delivery EXCEPT ![m] = d]
      BY <3>1
    <3>4. rec.state = "OutForDelivery"
      BY <1>1 DEF Noted
    <3> HIDE DEF d
    <3> QED
      BY <1>2, <3>1, <3>2, <3>3, <3>4, SettledAttempt
  <2>2. CASE ~isRunning \/ delivery[m].pending = {}
    <3> DEFINE state == Verdict(rec, delivery[m].targets, {})
    <3>1. Return(m, rec, state)
      BY <1>6, <2>2 DEF Proceed
    <3>2. /\ state \in MessageState
          /\ state = "Ready" => Remaining(rec) # {}
          /\ state = "Drop" /\ HasDeadLetter => rec.limitReached = {}
      BY <1>3 DEF Verdict, AllServed, MessageState
    <3> HIDE DEF state
    <3> QED
      BY <1>2, <3>1, <3>2, SettledReturn
  <2> QED
    BY <2>1, <2>2
<1> QED
  BY <1>1, <1>3, <1>4, <1>5, <1>6 DEF Outcome

LEMMA DispatchSettles ==
    ASSUME IInv, RetainInv, Dispatch
    PROVE  (\A k \in Serial : Settled(message[k], delivery[k]))'
<1>0. PICK m \in Serial : m = topMessage
  BY DispatchIsStep
<1> DEFINE out == [message[m] EXCEPT !.state = "OutForDelivery"]
           remaining == Remaining(message[m])
<1>1. /\ message[m] \in Message /\ message[m].state = "Ready"
      /\ remaining \subseteq Subscriber /\ remaining \subseteq subscribers
      /\ subscribers # {} /\ subscribers' = subscribers
  <2>1. /\ message[m].state = "Ready" /\ m # NoMessage
        /\ subscribers' = subscribers
    BY <1>0, DispatchIsStep DEF NoMessage, Serial, Elsewhere
  <2> QED
    BY <1>0, <2>1 DEF IInv, TypeOK, Remaining, RetainInv, HeldForSomebody
<1>2. out \in Message /\ out.state = "OutForDelivery"
  BY <1>1 DEF Message, MessageState
<1>3. remaining # {}
  BY <1>1 DEF RetainInv, Settled, Remaining
<1>4. \/ Return(m, out, "Shutdown")
      \/ \E s \in remaining :
            /\ message' = [message EXCEPT ![m] = Attempted(out, s)]
            /\ delivery' = [delivery EXCEPT ![m] =
                   [awaiting |-> {s}, pending |-> remaining \ {s},
                    targets |-> remaining, failed |-> {}]]
  BY <1>0, <1>3 DEF Dispatch
<1> HIDE DEF out
<1>5. CASE Return(m, out, "Shutdown")
  BY <1>1, <1>2, <1>5, SettledReturn DEF MessageState
<1>6. ASSUME NEW s \in remaining,
             message' = [message EXCEPT ![m] = Attempted(out, s)],
             delivery' = [delivery EXCEPT ![m] =
                 [awaiting |-> {s}, pending |-> remaining \ {s},
                  targets |-> remaining, failed |-> {}]]
      PROVE  (\A k \in Serial : Settled(message[k], delivery[k]))'
  <2> DEFINE d == [awaiting |-> {s}, pending |-> remaining \ {s},
                   targets |-> remaining, failed |-> {}]
  <2>1. /\ d \in Delivery /\ s \in Subscriber
        /\ d.awaiting \cup d.pending \subseteq subscribers
        /\ d.failed = {} /\ d.targets # {}
    BY <1>1 DEF Delivery
  <2>2. delivery' = [delivery EXCEPT ![m] = d]
    BY <1>6
  <2> HIDE DEF d, remaining
  <2> QED
    BY <1>1, <1>2, <1>6, <2>1, <2>2, SettledAttempt
<1> HIDE DEF remaining
<1> QED
  BY <1>4, <1>5, <1>6

LEMMA NextKeepsRetain ==
    ASSUME IInv, RetainInv, [Next]_vars,
           ~FirstConsumedSubscriber, Replies \cap {"Drop", "Exception"} = {},
           Environment \cap {"unsubscribe", "storeFailure", "stop"} = {}
    PROVE  RetainInv'
<1>1. serverRunning' /\ HeldForSomebody'
  BY ServerKeepsRunning, SubscribersStay DEF RetainInv
<1>2. \A m \in messagesWithDispositions' :
         message'[m].state \in {"DeadLetter", "Drop"}
  BY CollectedAreFinal
<1>3. subscribers \subseteq subscribers'
  BY SubscribersStay
<1>4. CASE \E m \in Serial : Answer(m)
  BY <1>1, <1>2, <1>4, AnswerSettles DEF RetainInv
<1>5. CASE Dispatch
  BY <1>1, <1>2, <1>5, DispatchSettles DEF RetainInv
<1>6. CASE \E deferred \in BOOLEAN : Enqueue(deferred)
  <2>1. PICK deferred \in BOOLEAN : Enqueue(deferred)
    BY <1>6
  <2>2. /\ delivery' = delivery /\ subscribers' = subscribers
        /\ \A k \in Serial :
              message'[k] = IF k = lastSerialNumber + 1
                            THEN NewMessage(deferred) ELSE message[k]
    BY <2>1 DEF Enqueue, IInv, TypeOK
  <2>3. /\ Completed(NewMessage(deferred)) = {}
        /\ NewMessage(deferred).state = "Ready"
    BY DEF Completed, NewMessage
  <2>4. \A k \in Serial : Settled(message[k], delivery[k])'
    BY <2>2, <2>3 DEF RetainInv, Settled, Completed, Remaining
  <2> QED
    BY <1>1, <1>2, <2>4 DEF RetainInv
<1>7. CASE /\ HistoryKept /\ ~Dispatch /\ \A m \in Serial : ~Answer(m)
           /\ \A deferred \in BOOLEAN : ~Enqueue(deferred)
  <2>1. \A k \in Serial : message'[k].age = "fresh" =>
            /\ message[k].age = "fresh" /\ message'[k].state = message[k].state
    BY <1>7, FreshAreKept
  <2>2. ASSUME NEW k \in Serial PROVE Settled(message[k], delivery[k])'
    <3>1. /\ message'[k].state = "Ready" => message[k].state = "Ready"
          /\ delivery'[k] = delivery[k]
          /\ message'[k].satisfied = message[k].satisfied
          /\ message'[k].limitReached = message[k].limitReached
      BY <1>7 DEF HistoryKept, StateKept
    <3> QED
      BY <1>3, <2>1, <3>1 DEF RetainInv, Settled, Completed, Remaining
  <2> QED
    BY <1>1, <1>2, <2>2 DEF RetainInv
<1> QED
  BY <1>4, <1>5, <1>6, <1>7, OtherStepsKeepHistory

\* A message some subscriber was given up on is retained in the companion when
\* it leaves the queue, where every subscriber has to answer for itself, none
\* drops the message, fails or goes away, no store fails and the server is not
\* stopped: each of these ends a message in state Drop, or unmoved.
THEOREM GivenUpAreRetained ==
    ASSUME ~FirstConsumedSubscriber, Replies \cap {"Drop", "Exception"} = {},
           Environment \cap {"unsubscribe", "storeFailure", "stop"} = {}
    PROVE  Spec => FailedDeliveriesRetained
<1>1. Init => RetainInv
  BY DEF Init, RetainInv, HeldForSomebody, Settled, NewMessage, Idle, Completed
<1>2. IInv /\ RetainInv /\ [Next]_vars => RetainInv'
  BY NextKeepsRetain
<1>3. ASSUME IInv, RetainInv, [Next]_vars, NEW m \in Serial, Disposed(m),
             message[m].limitReached # {}, message[m].age = "fresh",
             HasDeadLetter, dlqExists
      PROVE  m \in deadLetters'
  <2>1. /\ DisposeNext /\ m = Least(messagesWithDispositions)
        /\ m \in messagesWithDispositions /\ StillBuffered(m)
    BY <1>3, OnlyDisposalRemoves
  <2>2. message[m].state = "DeadLetter" /\ serverRunning
    BY <1>3, <2>1 DEF RetainInv, Settled
  <2> QED
    BY <1>3, <2>1, <2>2 DEF DisposeNext, IsDeadLettered, MoveMessageToDeadLetter
<1>4. IInv /\ RetainInv /\ [Next]_vars
         => [\A m \in Serial :
                /\ Disposed(m) /\ message[m].limitReached # {}
                /\ message[m].age = "fresh" /\ HasDeadLetter /\ dlqExists
                => m \in deadLetters']_vars
  BY <1>3
<1>5. Spec => [][\A m \in Serial :
                    /\ Disposed(m) /\ message[m].limitReached # {}
                    /\ message[m].age = "fresh" /\ HasDeadLetter /\ dlqExists
                    => m \in deadLetters']_vars
  BY <1>1, <1>2, <1>4, Invariance, PTL DEF Spec
<1> QED
  BY <1>5 DEF FailedDeliveriesRetained
=============================================================================
