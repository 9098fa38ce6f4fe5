---------------------------- MODULE MessageQueue ----------------------------
(***************************************************************************)
(* One CatMQ queue: SingleMessageQueueServer with its delivery thread, the *)
(* deliveries it has in flight, the subscribers that answer them and the   *)
(* client calls (Enqueue, PurgeQueue, Subscribe, Unsubscribe) and the      *)
(* server shutdown that race with it.                                      *)
(*                                                                         *)
(* Abstractions.  A message is its serial number.  Every List.Add on the   *)
(* message buffer appends a serial number above those present (module      *)
(* PersistentStore keeps the List and checks that it is sorted), so the    *)
(* buffer is the set of its serial numbers and "first in the list" is the  *)
(* least one.  Time is two facts about a message: whether its deferral has *)
(* elapsed, and which of the two age limits it has passed.  The sections   *)
(* the code runs under the EnqueuedMessages lock are single steps, except  *)
(* the disposal loop, whose lock is held while pc = "dispose".  A restart, *)
(* the closing of the database and the single steps of an Enqueue are in   *)
(* module PersistentStore.                                                 *)
(***************************************************************************)
EXTENDS Integers, FiniteSets

CONSTANTS
    Subscriber,               \* subscriber (connection) identities
    Persistent,               \* PersistenceScheme = Persistent
    AsynchronousDelivery,
    FirstConsumedSubscriber,  \* ConsumptionScheme = FirstConsumedSubscriber
    MaxOutstandingDeliveries,
    MaxDeliveryAttempts,      \* 0 = no limit
    HasDeadLetter,            \* DeadLetterConfiguration # null
    MessagesExpire,           \* MaxMessageAge # null
    BufferSize,               \* DEFAULT_PERSISTENT_MESSAGES_BUFFER_SIZE
    MinBuffer,                \* DEFAULT_PERSISTENT_MESSAGES_MIN_BUFFER
    ExceptionLimit,           \* the 1000 consecutive exceptions that stop it
    Replies,                  \* the dispositions the subscribers may answer
    Environment,              \* the events of the environment that may happen
    MaxSerial,                \* BOUND on the number of messages enqueued
    AttemptBound              \* BOUND on attempts where the code has none

Disposition == {"Consumed", "NotInterested", "NotConsumed", "Defer",
                "DeadLetter", "Drop", "Exception"}

Event == {"unsubscribe", "purge", "stop", "deferredEnqueue", "lockTimeout",
          "deadLetterTimeout", "deleteDeadLetter", "storeFailure"}

ASSUME QueueAssumption ==
    /\ IsFiniteSet(Subscriber)
    /\ {Persistent, AsynchronousDelivery, FirstConsumedSubscriber,
        HasDeadLetter, MessagesExpire} \subseteq BOOLEAN
    /\ MaxOutstandingDeliveries \in Nat \ {0}
    /\ MaxDeliveryAttempts \in Nat
    /\ BufferSize \in Nat \ {0} /\ MinBuffer \in Nat
    /\ ExceptionLimit \in Nat
    /\ Replies \subseteq Disposition /\ Environment \subseteq Event
    /\ MaxSerial \in Nat /\ AttemptBound \in Nat

Serial == 1..MaxSerial
NoMessage == 0

MessageState == {"Ready", "OutForDelivery", "DeadLetter", "Drop", "Shutdown"}

\* "expired" is past MaxMessageAge, "ancient" past the dead-letter limit too.
Age == {"fresh", "expired", "ancient"}

\* EnqueuedMessage: the fields delivery decides on.
Message == [state: MessageState, deferred: BOOLEAN, deferrals: Nat, age: Age,
            attempts: [Subscriber -> Nat], satisfied: SUBSET Subscriber,
            consumed: SUBSET Subscriber, limitReached: SUBSET Subscriber]

NewMessage(deferred) ==
    [state |-> "Ready", deferred |-> deferred, deferrals |-> 0,
     age |-> "fresh", attempts |-> [s \in Subscriber |-> 0], satisfied |-> {},
     consumed |-> {}, limitReached |-> {}]

\* A running DistributeToSubscribersWithDisposition: the subscriber whose
\* answer it awaits, those still to be tried (any order is a Random or a
\* Balanced order), the Remaining snapshot, and those that failed.
Delivery == [awaiting: SUBSET Subscriber, pending: SUBSET Subscriber,
             targets: SUBSET Subscriber, failed: SUBSET Subscriber]

Idle == [awaiting |-> {}, pending |-> {}, targets |-> {}, failed |-> {}]

VARIABLES
    serverRunning,             \* CMqServer._isRunning
    dlqExists, deadLetters,    \* the companion queue and what was moved to it
    isRunning,                 \* SingleMessageQueueServer._isRunning
    subscribers,
    lastSerialNumber, database, messageBuffer, queueDepth,
    message, delivery,
    outstandingDeliveries,     \* Statistics.OutstandingDeliveries
    returning,                 \* deliveries between State = and the decrement
    pc, topMessage, attemptBufferRehydration,
    messagesWithDispositions, consecutiveExceptions

dlqVars == <<dlqExists, deadLetters>>
storeVars == <<lastSerialNumber, database, messageBuffer, queueDepth>>
deliveryVars == <<message, delivery, outstandingDeliveries, returning>>
threadVars == <<pc, topMessage, attemptBufferRehydration,
                messagesWithDispositions, consecutiveExceptions>>
vars == <<serverRunning, dlqVars, isRunning, subscribers, storeVars,
          deliveryVars, threadVars>>

InQueue == IF Persistent THEN database ELSE messageBuffer
InFlight == {m \in Serial : delivery[m].awaiting # {}}

Init ==
    /\ serverRunning = TRUE /\ isRunning = TRUE
    /\ dlqExists = HasDeadLetter /\ deadLetters = {}
    /\ subscribers = {}
    /\ lastSerialNumber = 0 /\ database = {} /\ messageBuffer = {}
    /\ queueDepth = 0
    /\ message = [m \in Serial |-> NewMessage(FALSE)]
    /\ delivery = [m \in Serial |-> Idle]
    /\ outstandingDeliveries = 0 /\ returning = 0
    /\ pc = "loop" /\ topMessage = NoMessage
    /\ attemptBufferRehydration = FALSE
    /\ messagesWithDispositions = {} /\ consecutiveExceptions = 0

-----------------------------------------------------------------------------
(* Client calls and the passing of time.  A call tests the server's flag   *)
(* once, before it waits for the registry's lock and the queue's: any      *)
(* number of calls may have passed the test before Stop clears the flag,   *)
(* and each takes effect as late as the locks let it.  So what a call does *)
(* is not guarded by the flag; a call that fails the test does nothing.    *)

\* The disposal loop runs under the EnqueuedMessages write lock.
MessagesUnlocked == pc # "dispose"

\* A persistent message goes to the database only: hydration buffers it.
Store(m) ==
    IF Persistent
    THEN database' = database \cup {m} /\ UNCHANGED messageBuffer
    ELSE messageBuffer' = messageBuffer \cup {m} /\ UNCHANGED database

Enqueue(deferred) ==
    /\ MessagesUnlocked
    /\ lastSerialNumber < MaxSerial
    /\ deferred => "deferredEnqueue" \in Environment
    /\ LET m == lastSerialNumber + 1 IN
       /\ lastSerialNumber' = m
       /\ message' = [message EXCEPT ![m] = NewMessage(deferred)]
       /\ Store(m)
    /\ queueDepth' = queueDepth + 1
    /\ UNCHANGED <<serverRunning, dlqVars, isRunning, subscribers, delivery,
                   outstandingDeliveries, returning, threadVars>>

PurgeQueue ==
    /\ "purge" \in Environment
    /\ MessagesUnlocked
    /\ database' = {} /\ messageBuffer' = {} /\ queueDepth' = 0
    /\ UNCHANGED <<serverRunning, dlqVars, isRunning, subscribers,
                   lastSerialNumber, deliveryVars, threadVars>>

Subscribe(s) ==
    /\ s \notin subscribers
    /\ subscribers' = subscribers \cup {s}
    /\ UNCHANGED <<serverRunning, dlqVars, isRunning, storeVars,
                   deliveryVars, threadVars>>

\* Unsubscribe, and OnDisconnected for the queue at hand.
Unsubscribe(s) ==
    /\ "unsubscribe" \in Environment
    /\ s \in subscribers
    /\ subscribers' = subscribers \ {s}
    /\ UNCHANGED <<serverRunning, dlqVars, isRunning, storeVars,
                   deliveryVars, threadVars>>

DeleteDeadLetterQueue ==
    /\ "deleteDeadLetter" \in Environment
    /\ dlqExists
    /\ dlqExists' = FALSE
    /\ UNCHANGED <<serverRunning, deadLetters, isRunning, subscribers,
                   storeVars, deliveryVars, threadVars>>

\* Stop clears the server's flag first and signals the queues later.
StopServer ==
    /\ "stop" \in Environment
    /\ serverRunning
    /\ serverRunning' = FALSE
    /\ UNCHANGED <<dlqVars, isRunning, subscribers, storeVars, deliveryVars,
                   threadVars>>

SignalShutdown ==
    /\ ~serverRunning /\ isRunning
    /\ isRunning' = FALSE
    /\ UNCHANGED <<serverRunning, dlqVars, subscribers, storeVars,
                   deliveryVars, threadVars>>

DeferralElapses(m) ==
    /\ m \in InQueue /\ message[m].deferred
    /\ message' = [message EXCEPT ![m].deferred = FALSE]
    /\ UNCHANGED <<serverRunning, dlqVars, isRunning, subscribers, storeVars,
                   delivery, outstandingDeliveries, returning, threadVars>>

\* The limits may be configured either way round: fresh to ancient is a step.
GrowsOld(m) ==
    /\ MessagesExpire /\ m \in InQueue
    /\ \E age \in {"expired", "ancient"} :
       /\ message[m].age # "ancient" /\ age # message[m].age
       /\ message' = [message EXCEPT ![m].age = age]
    /\ UNCHANGED <<serverRunning, dlqVars, isRunning, subscribers, storeVars,
                   delivery, outstandingDeliveries, returning, threadVars>>

-----------------------------------------------------------------------------
(* The deliveries.                                                         *)

Completed(rec) == rec.satisfied \cup rec.limitReached

\* Mutant of Remaining: a satisfied subscriber is not remembered.
RemainingForgetful(rec) == subscribers \ rec.limitReached

\* new SubscriberDispositions(queue, message).Remaining
Remaining(rec) == subscribers \ Completed(rec)

Attempted(rec, s) == [rec EXCEPT !.attempts[s] = @ + 1]

\* Mutant of ReachesLimit: the comparison is off by one.
ReachesLimitLate(rec, s) ==
    /\ MaxDeliveryAttempts > 0 /\ rec.attempts[s] > MaxDeliveryAttempts
    /\ s \notin rec.satisfied

ReachesLimit(rec, s) ==
    /\ MaxDeliveryAttempts > 0 /\ rec.attempts[s] >= MaxDeliveryAttempts
    /\ s \notin rec.satisfied

AfterLimitCheck(rec, s) ==
    IF ReachesLimit(rec, s)
    THEN [rec EXCEPT !.limitReached = @ \cup {s}] ELSE rec

\* "The flow control should not allow us to ever get here."
NobodyLeft(rec) == IF rec.consumed # {} THEN "Drop" ELSE "DeadLetter"

\* Everybody was served or was given up on.
AllServed(rec) ==
    IF rec.limitReached # {} /\ HasDeadLetter THEN "DeadLetter" ELSE "Drop"

\* The state the message gets when the loop over the snapshot ends: the
\* subscribers are read afresh.
Verdict(rec, targets, failed) ==
    CASE ~isRunning -> "Shutdown"
      [] isRunning /\ targets \subseteq failed -> "Ready"
      [] isRunning /\ ~(targets \subseteq failed) /\ Remaining(rec) = {}
           -> AllServed(rec)
      [] OTHER -> "Ready"

\* DistributeToSubscribersAsync assigns the state, then (FinishDelivery)
\* decrements OutstandingDeliveries.
Return(m, rec, state) ==
    /\ message' = [message EXCEPT ![m] = [rec EXCEPT !.state = state]]
    /\ delivery' = [delivery EXCEPT ![m] = Idle]
    /\ returning' = returning + 1

\* On to the next subscriber of the snapshot, or the verdict.
Proceed(m, rec, failed) ==
    LET d == delivery[m] IN
    \/ /\ isRunning /\ d.pending # {}
       /\ \E s \in d.pending :
          /\ message' = [message EXCEPT ![m] = Attempted(rec, s)]
          /\ delivery' = [delivery EXCEPT ![m] =
                 [awaiting |-> {s}, pending |-> d.pending \ {s},
                  targets |-> d.targets, failed |-> failed]]
       /\ UNCHANGED returning
    \/ /\ ~isRunning \/ d.pending = {}
       /\ Return(m, rec, Verdict(rec, d.targets, failed))

\* Mutant of FirstConsumerEnds: the consumption scheme is not looked at.
FirstConsumerNeverEnds == FALSE

FirstConsumerEnds == FirstConsumedSubscriber

ReplyConsumed(m, s) ==
    LET rec == [message[m] EXCEPT !.satisfied = @ \cup {s},
                                  !.consumed = @ \cup {s}] IN
    IF FirstConsumerEnds
    THEN Return(m, rec, "Drop")
    ELSE Proceed(m, AfterLimitCheck(rec, s), delivery[m].failed)

ReplyNotInterested(m, s) ==
    LET rec == [message[m] EXCEPT !.satisfied = @ \cup {s}] IN
    Proceed(m, AfterLimitCheck(rec, s), delivery[m].failed)

\* The counter has no limit in the code when MaxDeliveryAttempts = 0.
WithinBound(m, s) ==
    MaxDeliveryAttempts > 0 \/ message[m].attempts[s] < AttemptBound

ReplyNotConsumed(m, s) ==
    /\ WithinBound(m, s)
    /\ Proceed(m, AfterLimitCheck(message[m], s), delivery[m].failed)

\* QueryAsync throws, the result carries an error, or a disposition that is
\* not handled.
DeliveryFails(m, s) ==
    /\ WithinBound(m, s)
    /\ Proceed(m, AfterLimitCheck(message[m], s), delivery[m].failed \cup {s})

\* Mutant of StoreDeferred: the deferred message is stored unconditionally.
StoreDeferredAlways(m) ==
    database' = IF Persistent THEN database \cup {m} ELSE database

\* Written back only if it was not purged while out for delivery.
StoreDeferred(m) ==
    database' = IF Persistent /\ m \in messageBuffer
                THEN database \cup {m} ELSE database

\* Noted in the message before it is stored.
Deferred(rec) == [rec EXCEPT !.deferred = TRUE, !.deferrals = @ + 1]

\* Defer returns at once: the rest of the snapshot and the limit are skipped.
ReplyDefer(m, s) ==
    /\ MessagesUnlocked
    /\ message[m].attempts[s] < AttemptBound
    /\ Return(m, Deferred(message[m]), "Ready")
    /\ StoreDeferred(m)

\* The write throws after the deferral was noted: a failed delivery.
ReplyDeferNotStored(m, s) ==
    /\ "storeFailure" \in Environment
    /\ MessagesUnlocked /\ Persistent /\ m \in messageBuffer
    /\ WithinBound(m, s)
    /\ Proceed(m, AfterLimitCheck(Deferred(message[m]), s),
               delivery[m].failed \cup {s})
    /\ UNCHANGED database

\* Consumption ends the wait for the answer of the one subscriber awaited.
Reply(m, disposition) ==
    /\ \E s \in delivery[m].awaiting :
       \/ disposition = "Consumed" /\ ReplyConsumed(m, s)
       \/ disposition = "NotInterested" /\ ReplyNotInterested(m, s)
       \/ disposition = "NotConsumed" /\ ReplyNotConsumed(m, s)
       \/ disposition = "Exception" /\ DeliveryFails(m, s)
       \/ disposition = "DeadLetter" /\ Return(m, message[m], "DeadLetter")
       \/ disposition = "Drop" /\ Return(m, message[m], "Drop")
    /\ UNCHANGED <<serverRunning, dlqVars, isRunning, subscribers, storeVars,
                   outstandingDeliveries, threadVars>>

Defer(m) ==
    /\ \E s \in delivery[m].awaiting :
          ReplyDefer(m, s) \/ ReplyDeferNotStored(m, s)
    /\ UNCHANGED <<serverRunning, dlqVars, isRunning, subscribers,
                   lastSerialNumber, messageBuffer, queueDepth,
                   outstandingDeliveries, threadVars>>

Answer(m) ==
    \/ \E disposition \in Replies \ {"Defer"} : Reply(m, disposition)
    \/ "Defer" \in Replies /\ Defer(m)

FinishDelivery ==
    /\ returning > 0
    /\ returning' = returning - 1
    /\ outstandingDeliveries' = outstandingDeliveries - 1
    /\ UNCHANGED <<serverRunning, dlqVars, isRunning, subscribers, storeVars,
                   message, delivery, threadVars>>

-----------------------------------------------------------------------------
(* The delivery thread: one pass of its loop goes "loop", ("hydrate",)     *)
(* "pick", ("dispatch", ("await",)) "collect", ("lock", "dispose",) "loop".*)

Goto(label) == pc' = label

Least(S) == CHOOSE m \in S : \A n \in S : m <= n

\* A pass that meets no exception resets the counter.
EndIteration == Goto("loop") /\ consecutiveExceptions' = 0

\* Mutant of KeepsLooping: the thread does not look at its flag.
KeepsLoopingAlways == TRUE

\* while (_isRunning)
KeepsLooping == isRunning

\* The last pass may have asked for a rehydration.
BeginIteration ==
    /\ pc = "loop"
    /\ Goto(CASE ~KeepsLooping -> "stopped"
              [] KeepsLooping /\ attemptBufferRehydration -> "hydrate"
              [] OTHER -> "pick")
    /\ attemptBufferRehydration' = FALSE
    /\ UNCHANGED <<serverRunning, dlqVars, isRunning, subscribers, storeVars,
                   deliveryVars, topMessage, messagesWithDispositions,
                   consecutiveExceptions>>

\* Seek to the greatest buffered serial number + 1, or to the first key.
NotYetBuffered(m) == \A b \in messageBuffer : b < m

\* In key order, at most BufferSize of them.
Hydration ==
    LET found == {m \in database : NotYetBuffered(m)} IN
    {m \in found : Cardinality({n \in found : n < m}) < BufferSize}

HydrateMessageBuffer ==
    /\ pc = "hydrate"
    /\ messageBuffer' = messageBuffer \cup Hydration
    /\ Goto("pick")
    /\ UNCHANGED <<serverRunning, dlqVars, isRunning, subscribers,
                   lastSerialNumber, database, queueDepth, deliveryVars,
                   topMessage, attemptBufferRehydration,
                   messagesWithDispositions, consecutiveExceptions>>

\* TryWrite, TryReadAll or TryWrite gives up: the pass goes on without it.
LockTimeout ==
    /\ "lockTimeout" \in Environment
    /\ \/ pc = "hydrate" /\ Goto("pick") /\ UNCHANGED consecutiveExceptions
       \/ pc = "pick" /\ Goto("collect") /\ UNCHANGED consecutiveExceptions
       \/ pc = "lock" /\ EndIteration
    /\ messagesWithDispositions' = {}
    /\ UNCHANGED <<serverRunning, dlqVars, isRunning, subscribers, storeVars,
                   deliveryVars, topMessage, attemptBufferRehydration>>

MayExpire(m) == message[m].state = "Ready"

Expired(m) == MessagesExpire /\ MayExpire(m) /\ message[m].age # "fresh"

ExpiredState(rec) ==
    IF HasDeadLetter /\ rec.age = "expired" THEN "DeadLetter" ELSE "Drop"

AfterExpiry ==
    [m \in Serial |->
        IF m \in messageBuffer /\ Expired(m)
        THEN [message[m] EXCEPT !.state = ExpiredState(message[m])]
        ELSE message[m]]

\* Mutant of HasCapacity: the comparison is off by one.
HasCapacityLate == outstandingDeliveries <= MaxOutstandingDeliveries

HasCapacity == outstandingDeliveries < MaxOutstandingDeliveries

\* Mutant of Deliverable: the state is not looked at.
DeliverableAnyState(m) == ~message[m].deferred

Deliverable(m) == message[m].state = "Ready" /\ ~message[m].deferred

\* Mutant of FirstOf: the newest message is taken.
FirstOfNewest(S) == CHOOSE m \in S : \A n \in S : m >= n

\* FirstOrDefault over the list.
FirstOf(S) == Least(S)

\* Mutant of NeedsHydration: only the absence of a message is looked at.
NeedsHydrationNever(top) == FALSE

NeedsHydration(top) ==
    /\ Persistent
    /\ queueDepth > Cardinality(messageBuffer)
    /\ top = NoMessage \/ Cardinality(messageBuffer) < MinBuffer

Pick ==
    /\ pc = "pick"
    /\ message' = AfterExpiry
    /\ LET ready == {m \in messageBuffer : Deliverable(m)' }
           top == IF HasCapacity /\ subscribers # {} /\ ready # {}
                  THEN FirstOf(ready) ELSE NoMessage
       IN /\ topMessage' = top
          /\ attemptBufferRehydration' =
                 (HasCapacity /\ subscribers # {} /\ NeedsHydration(top))
          /\ Goto(IF top = NoMessage THEN "collect" ELSE "dispatch")
    /\ UNCHANGED <<serverRunning, dlqVars, isRunning, subscribers, storeVars,
                   delivery, outstandingDeliveries, returning,
                   messagesWithDispositions, consecutiveExceptions>>

\* Mutant of CountDelivery: the started delivery is not counted.
CountNothing == UNCHANGED outstandingDeliveries

CountDelivery == outstandingDeliveries' = outstandingDeliveries + 1

\* Outside the locks: the subscribers may have changed since Pick.
Dispatch ==
    /\ pc = "dispatch"
    /\ CountDelivery
    /\ LET m == topMessage
           remaining == Remaining(message[m])
           rec == [message[m] EXCEPT !.state = "OutForDelivery"]
       IN \/ remaining = {} /\ Return(m, rec, NobodyLeft(rec))
          \/ remaining # {} /\ ~isRunning /\ Return(m, rec, "Shutdown")
          \/ /\ remaining # {} /\ isRunning
             /\ \E s \in remaining :
                /\ message' = [message EXCEPT ![m] = Attempted(rec, s)]
                /\ delivery' = [delivery EXCEPT ![m] =
                       [awaiting |-> {s}, pending |-> remaining \ {s},
                        targets |-> remaining, failed |-> {}]]
             /\ UNCHANGED returning
    /\ topMessage' = NoMessage
    /\ Goto(IF AsynchronousDelivery THEN "collect" ELSE "await")
    /\ UNCHANGED <<serverRunning, dlqVars, isRunning, subscribers, storeVars,
                   attemptBufferRehydration, messagesWithDispositions,
                   consecutiveExceptions>>

\* Synchronous delivery: await DistributeToSubscribersAsync.
AwaitDelivery ==
    /\ pc = "await" /\ InFlight = {} /\ returning = 0
    /\ Goto("collect")
    /\ UNCHANGED <<serverRunning, dlqVars, isRunning, subscribers, storeVars,
                   deliveryVars, topMessage, attemptBufferRehydration,
                   messagesWithDispositions, consecutiveExceptions>>

CollectDispositions ==
    /\ pc = "collect"
    /\ LET found == {m \in messageBuffer :
                        message[m].state \in {"DeadLetter", "Drop"}}
       IN /\ messagesWithDispositions' = found
          /\ IF found = {}
             THEN EndIteration
             ELSE Goto("lock") /\ UNCHANGED consecutiveExceptions
    /\ UNCHANGED <<serverRunning, dlqVars, isRunning, subscribers, storeVars,
                   deliveryVars, topMessage, attemptBufferRehydration>>

LockForDisposal ==
    /\ pc = "lock"
    /\ Goto("dispose")
    /\ UNCHANGED <<serverRunning, dlqVars, isRunning, subscribers, storeVars,
                   deliveryVars, topMessage, attemptBufferRehydration,
                   messagesWithDispositions, consecutiveExceptions>>

\* Mutant of StillBuffered: a purged message is disposed of once more.
StillBufferedUnchecked(m) == TRUE

StillBuffered(m) == m \in messageBuffer

\* Mutant of IsDeadLettered: dead letters are removed and never moved.
NeverDeadLettered(m) == FALSE

IsDeadLettered(m) == message[m].state = "DeadLetter" /\ HasDeadLetter

\* "while (_isRunning)": a stopped server falls through without moving it, or
\* Stop came between that test and the store.  A companion queue that does not
\* exist discards it.
MoveMessageToDeadLetter(m) ==
    \/ dlqExists /\ deadLetters' = deadLetters \cup {m}
    \/ ~(serverRunning /\ dlqExists) /\ UNCHANGED deadLetters

RemoveFromBufferAndDatabase(m) ==
    /\ database' = database \ {m}
    /\ messageBuffer' = messageBuffer \ {m}
    /\ queueDepth' = queueDepth - 1

\* One turn of the disposal loop, in buffer order.
DisposeNext ==
    /\ pc = "dispose" /\ messagesWithDispositions # {}
    /\ LET m == Least(messagesWithDispositions) IN
       /\ messagesWithDispositions' = messagesWithDispositions \ {m}
       /\ \/ /\ StillBuffered(m)
             /\ IF IsDeadLettered(m) THEN MoveMessageToDeadLetter(m)
                                     ELSE UNCHANGED deadLetters
             /\ RemoveFromBufferAndDatabase(m)
          \/ /\ ~StillBuffered(m)
             /\ UNCHANGED <<deadLetters, database, messageBuffer, queueDepth>>
    /\ UNCHANGED <<serverRunning, dlqExists, isRunning, subscribers,
                   lastSerialNumber, deliveryVars, pc, topMessage,
                   attemptBufferRehydration, consecutiveExceptions>>

DisposalEnds ==
    /\ pc = "dispose" /\ messagesWithDispositions = {}
    /\ EndIteration
    /\ UNCHANGED <<serverRunning, dlqVars, isRunning, subscribers, storeVars,
                   deliveryVars, topMessage, attemptBufferRehydration,
                   messagesWithDispositions>>

\* The companion queue's lock times out, or its database is not open (any more,
\* of a stopping server): the exception leaves the disposal loop, and too many
\* in a row end the thread.
DeadLetterTimeout ==
    /\ "deadLetterTimeout" \in Environment
    /\ pc = "dispose" /\ messagesWithDispositions # {}
    /\ LET m == Least(messagesWithDispositions)
       IN StillBuffered(m) /\ IsDeadLettered(m)
    /\ dlqExists
    /\ consecutiveExceptions' = consecutiveExceptions + 1
    /\ isRunning' = (isRunning /\ consecutiveExceptions' <= ExceptionLimit)
    /\ messagesWithDispositions' = {}
    /\ Goto("loop")
    /\ UNCHANGED <<serverRunning, dlqVars, subscribers, storeVars,
                   deliveryVars, topMessage, attemptBufferRehydration>>

DeliveryThread ==
    \/ BeginIteration \/ HydrateMessageBuffer \/ Pick \/ Dispatch
    \/ AwaitDelivery \/ CollectDispositions \/ LockForDisposal
    \/ DisposeNext \/ DisposalEnds \/ DeadLetterTimeout \/ LockTimeout

Clients ==
    \/ \E deferred \in BOOLEAN : Enqueue(deferred)
    \/ PurgeQueue \/ DeleteDeadLetterQueue
    \/ \E s \in Subscriber : Subscribe(s) \/ Unsubscribe(s)

Next ==
    \/ Clients \/ StopServer \/ SignalShutdown
    \/ \E m \in Serial : DeferralElapses(m) \/ GrowsOld(m) \/ Answer(m)
    \/ FinishDelivery \/ DeliveryThread

Spec == Init /\ [][Next]_vars

\* What the code's scheduling gives: the thread and every delivery run on; an
\* unanswered query ends in the acknowledgement timeout; a try-lock repeated
\* for ever is granted at last, since no lock is held across an await.
Fairness ==
    /\ WF_vars(BeginIteration) /\ SF_vars(HydrateMessageBuffer)
    /\ SF_vars(Pick) /\ WF_vars(Dispatch) /\ WF_vars(AwaitDelivery)
    /\ WF_vars(CollectDispositions) /\ SF_vars(LockForDisposal)
    /\ SF_vars(DisposeNext) /\ WF_vars(DisposalEnds)
    /\ WF_vars(FinishDelivery)
    /\ \A m \in Serial : WF_vars(Answer(m)) /\ WF_vars(DeferralElapses(m))
    /\ WF_vars(SignalShutdown)

FairSpec == Spec /\ Fairness

-----------------------------------------------------------------------------
(* Properties.                                                             *)

\* Type correctness; the depth counter, decremented by the disposal of what
\* a concurrent purge may have removed, never goes below zero.
TypeOK ==
    /\ serverRunning \in BOOLEAN /\ isRunning \in BOOLEAN
    /\ dlqExists \in BOOLEAN /\ deadLetters \subseteq Serial
    /\ subscribers \subseteq Subscriber
    /\ lastSerialNumber \in 0..MaxSerial
    /\ database \subseteq Serial /\ messageBuffer \subseteq Serial
    /\ queueDepth \in Nat
    /\ message \in [Serial -> Message]
    /\ delivery \in [Serial -> Delivery]
    /\ outstandingDeliveries \in Nat /\ returning \in Nat
    /\ pc \in {"loop", "hydrate", "pick", "dispatch", "await", "collect",
               "lock", "dispose", "stopped"}
    /\ topMessage \in Serial \cup {NoMessage}
    /\ attemptBufferRehydration \in BOOLEAN
    /\ messagesWithDispositions \subseteq Serial
    /\ consecutiveExceptions \in Nat

\* The counter that throttles the thread is the number of deliveries that are
\* really running, and they are never more than the configuration allows: not
\* with a slot freed late, nor with a message picked again at once.
OutstandingIsExact ==
    /\ outstandingDeliveries = Cardinality(InFlight) + returning
    /\ outstandingDeliveries <= MaxOutstandingDeliveries

\* The depth counter is the number of messages in the queue, whatever purges
\* and disposals interleave with the deliveries.
DepthIsExact == queueDepth = Cardinality(InQueue)

\* A message is out for delivery exactly while one delivery of it runs, and
\* the one the thread is about to send is not running yet.
SingleDelivery ==
    /\ \A m \in Serial :
           message[m].state = "OutForDelivery" <=> m \in InFlight
    /\ topMessage # NoMessage => message[topMessage].state = "Ready"

\* Hydration only ever looks above the greatest buffered serial number, so a
\* stored message that is not buffered must be younger than all that are:
\* otherwise no rehydration would ever find it.
NothingStranded ==
    Persistent =>
        /\ messageBuffer \subseteq database
        /\ \A m \in database \ messageBuffer : \A b \in messageBuffer : b < m

\* What was purged or disposed of stays out of the queue, although a delivery
\* of it may still be running and be answered with a deferral.
GoneStaysGone ==
    [][\A m \in 1..lastSerialNumber : m \notin InQueue => m \notin InQueue']_vars

Attempts(m, s) == message[m].attempts[s]

\* A subscriber that consumed or declined a message, or was given up on, is
\* never sent it again.
CompletedNotRetried ==
    [][\A m \in Serial, s \in Subscriber :
          s \in Completed(message[m]) =>
              Attempts(m, s)' = Attempts(m, s)]_vars

\* FirstConsumedSubscriber: once somebody consumed the message, it is sent to
\* nobody, in this delivery or a later one.
FirstConsumerIsTheLast ==
    [][FirstConsumedSubscriber =>
          \A m \in Serial, s \in Subscriber :
             message[m].consumed # {} =>
                 Attempts(m, s)' = Attempts(m, s)]_vars

\* The limit on the attempts is looked at after every answer but a deferral: a
\* subscriber is sent a message at most as often as MaxDeliveryAttempts allows
\* and once more for every time the message was deferred, through failures,
\* deferrals that were not stored, and subscribers that leave and return.
AttemptsAccountedFor ==
    MaxDeliveryAttempts > 0 =>
        \A m \in Serial, s \in Subscriber :
            Attempts(m, s) <= MaxDeliveryAttempts + message[m].deferrals

\* What the configuration says of the limit, "this includes deferred
\* deliveries" (CMqQueueConfiguration.cs): no subscriber is sent a message more
\* often than MaxDeliveryAttempts.
AttemptsWithinLimit ==
    MaxDeliveryAttempts > 0 =>
        \A m \in Serial, s \in Subscriber :
            Attempts(m, s) <= MaxDeliveryAttempts

\* The messages are not discarded for want of subscribers: one that nobody
\* was sent leaves the queue only when it has expired.
NotDiscardedUnsent ==
    \A m \in Serial :
        message[m].state \in {"DeadLetter", "Drop"} =>
            \/ message[m].age # "fresh"
            \/ \E s \in Subscriber : Attempts(m, s) > 0

\* The disposal of message m, as opposed to a purge.
Disposed(m) == pc = "dispose" /\ m \in InQueue /\ m \notin InQueue'

\* A message in state DeadLetter leaves the queue for its companion queue.
DeadLettersKept ==
    [][\A m \in Serial :
          /\ Disposed(m) /\ message[m].state = "DeadLetter"
          /\ HasDeadLetter /\ dlqExists
          => m \in deadLetters']_vars

\* While nobody purges the queue, deletes its companion or stops the server, a
\* dead letter is in exactly one of the two, through failed moves and retries.
DeadLetterInOnePlace ==
    HasDeadLetter =>
        \A m \in 1..lastSerialNumber :
            /\ m \in deadLetters => m \notin InQueue
            /\ message[m].state = "DeadLetter" => m \in deadLetters \cup InQueue

\* A message that some subscriber was given up on is retained in the companion
\* queue when it leaves the queue.
FailedDeliveriesRetained ==
    [][\A m \in Serial :
          /\ Disposed(m) /\ message[m].limitReached # {}
          /\ message[m].age = "fresh" /\ HasDeadLetter /\ dlqExists
          => m \in deadLetters']_vars

\* Per subscriber, messages are sent in the order of their serial numbers: the
\* first attempt at m comes after the first attempt at every earlier message
\* that is still to be delivered.
InOrderPerSubscriber ==
    [][\A m \in Serial, s \in Subscriber :
          Attempts(m, s) = 0 /\ Attempts(m, s)' = 1 =>
             \A n \in InQueue :
                n < m /\ message[n].state \in {"Ready", "OutForDelivery"} =>
                    Attempts(n, s) > 0]_vars

\* Every message of a queue that keeps running and, from some time on, always
\* has a subscriber leaves it: no hydration, capacity slot, deferral or lock is
\* missed for ever.
EveryMessageLeaves ==
    []isRunning /\ <>[](subscribers # {}) =>
        \A m \in Serial : m \in InQueue ~> m \notin InQueue

\* The queue as those who use it see it.
Contract == INSTANCE ReliableQueue WITH
    accepted <- lastSerialNumber, queue <- InQueue,
    asked <- [m \in Serial |-> delivery[m].awaiting],
    done <- [m \in Serial |-> Completed(message[m])]

\* The queue keeps its contract: under purges of what is out for delivery,
\* late answers and deferrals, subscribers that come and go, failing stores and
\* missed locks, every step is one that module ReliableQueue allows.
KeepsContract == Contract!Spec

\* What WaitForShutdown waits for comes about by itself: the thread ends and no
\* delivery is outstanding, so the database is not closed under a delivery.
StopCompletes ==
    ~serverRunning ~> [](pc = "stopped" /\ outstandingDeliveries = 0)

\* What WaitForShutdown waits for, of a server that was stopped.
Ended == ~serverRunning /\ pc = "stopped" /\ outstandingDeliveries = 0

\* A call that passed the test of the server's flag before Stop: it adds one
\* more message, or purges the queue.
LateEnqueue ==
    /\ queueDepth' = queueDepth + 1 /\ lastSerialNumber' = lastSerialNumber + 1
    /\ InQueue' = InQueue \cup {lastSerialNumber + 1}

LatePurge ==
    /\ queueDepth' = 0 /\ InQueue' = {} /\ UNCHANGED lastSerialNumber

\* And it is the end of the deliveries, "so that they do not touch the database
\* after it has been disposed" (WaitForShutdown): no late answer, deferral,
\* hydration or disposal changes the queue or its companion any more, only
\* calls of clients that began before Stop do.
EndIsFinal ==
    [][Ended =>
         /\ Ended' /\ UNCHANGED <<delivery, deadLetters>>
         /\ UNCHANGED storeVars \/ LateEnqueue \/ LatePurge]_vars
=============================================================================
