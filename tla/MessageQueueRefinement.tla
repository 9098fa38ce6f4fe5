----------------------- MODULE MessageQueueRefinement -----------------------
(***************************************************************************)
(* Proof that MessageQueue implements its contract, module ReliableQueue,  *)
(* for every number of subscribers and messages and every configuration.   *)
(*                                                                         *)
(* Under the mapping of MessageQueue!Contract, a delivery's first step is  *)
(* Ask, its later ones are Answer, a turn of the disposal loop is Leave,   *)
(* and everything else the thread and its environment do is a stutter.     *)
(*                                                                         *)
(* The last section proves what follows from the contract alone.           *)
(***************************************************************************)
EXTENDS MessageQueueProofs

\* The contract's functions of the state.
asked == [m \in Serial |-> delivery[m].awaiting]
done == [m \in Serial |-> Completed(message[m])]

\* What the contract sees does not change.
Stutters ==
    /\ lastSerialNumber' = lastSerialNumber /\ InQueue' = InQueue
    /\ asked' = asked /\ done' = done /\ deadLetters' = deadLetters

\* The history of the messages is all that the contract sees of them.
LEMMA SameHistory ==
    ASSUME HistoryKept
    PROVE  done' = done
BY DEF HistoryKept, done, Completed

\* A step of one delivery changes what the contract sees of one message.
LEMMA DeliveryStepMaps ==
    ASSUME IInv, NEW m \in Serial, DeliveryStep(m)
    PROVE  /\ \E completed \in {done[m], done[m] \cup asked[m]} :
                 /\ done' = [done EXCEPT ![m] = completed]
                 /\ \/ asked' = [asked EXCEPT ![m] = {}]
                    \/ \E s \in Subscriber \ completed :
                          asked' = [asked EXCEPT ![m] = {s}]
<1>1. PICK rec \in Message, d \in Delivery :
         /\ message' = [message EXCEPT ![m] = rec]
         /\ delivery' = [delivery EXCEPT ![m] = d]
         /\ Progress(message[m], rec)
         /\ Completed(rec) \subseteq
                Completed(message[m]) \cup delivery[m].awaiting
         /\ GoesOn(rec, d) \/ IsOver(rec, d)
  BY DEF DeliveryStep
<1>2. /\ \A k \in Serial : message'[k] = IF k = m THEN rec ELSE message[k]
      /\ \A k \in Serial : delivery'[k] = IF k = m THEN d ELSE delivery[k]
  BY <1>1 DEF IInv, TypeOK
<1>3. done[m] = Completed(message[m]) /\ asked[m] = delivery[m].awaiting
  BY DEF done, asked
<1>4. Completed(rec) \in {done[m], done[m] \cup asked[m]}
  <2>1. asked[m] = {} \/ \E s \in Subscriber : asked[m] = {s}
    BY <1>3 DEF IInv, DeliverySane, Idle
  <2> QED
    BY <1>1, <1>3, <2>1 DEF Progress
<1>5. done' = [done EXCEPT ![m] = Completed(rec)]
  BY <1>2 DEF done, Completed
<1>6. asked' = [asked EXCEPT ![m] = d.awaiting]
  BY <1>2 DEF asked
<1>7. CASE GoesOn(rec, d)
  <2>1. PICK s \in Subscriber : d.awaiting = {s}
    BY <1>7 DEF GoesOn
  <2>2. s \in Subscriber \ Completed(rec)
    BY <1>7, <2>1 DEF GoesOn
  <2> QED
    BY <1>4, <1>5, <1>6, <2>1, <2>2
<1>8. CASE IsOver(rec, d)
  BY <1>4, <1>5, <1>6, <1>8 DEF IsOver, Idle
<1> QED
  BY <1>1, <1>7, <1>8

\* Enqueue is Accept.
LEMMA EnqueueMaps ==
    ASSUME IInv, UnissuedIsNew, NEW deferred \in BOOLEAN, Enqueue(deferred)
    PROVE  Contract!Accept
<1> DEFINE m == lastSerialNumber + 1
<1>1. m \in Serial /\ m \notin Issued /\ lastSerialNumber' = m
  <2>1. lastSerialNumber \in 0..MaxSerial /\ MaxSerial \in Nat
    BY QueueAssumption DEF IInv, TypeOK
  <2> QED
    BY <2>1 DEF Enqueue, Serial, Issued
<1>2. Completed(message[m]) = {}
  BY <1>1 DEF UnissuedIsNew, NewMessage, Completed
<1>3. \A k \in Serial : message'[k] = IF k = m THEN NewMessage(deferred)
                                              ELSE message[k]
  BY <1>1 DEF Enqueue, IInv, TypeOK
<1>4. Completed(NewMessage(deferred)) = {}
  BY DEF Completed, NewMessage
<1>5. \A k \in Serial : Completed(message'[k]) = Completed(message[k])
  BY <1>2, <1>3, <1>4
<1>6. done' = done
  BY <1>5 DEF done, Completed
<1>7. asked' = asked
  BY DEF Enqueue, asked
<1>8. InQueue' = InQueue \cup {m}
  BY DEF Enqueue, Store, InQueue
<1>9. lastSerialNumber < MaxSerial /\ deadLetters' = deadLetters
  BY DEF Enqueue, dlqVars
<1> QED
  BY <1>1, <1>6, <1>7, <1>8, <1>9 DEF Contract!Accept, asked, done

\* A subscriber's answer is Answer.
LEMMA AnswerMaps ==
    ASSUME IInv, NEW m \in Serial, Answer(m)
    PROVE  Contract!Answer(m)
<1>1. m \in InFlight /\ DeliveryStep(m) /\ Elsewhere
  BY AnswerIsStep
<1>2. asked[m] # {}
  BY <1>1 DEF InFlight, asked
<1>3. /\ lastSerialNumber' = lastSerialNumber /\ InQueue' = InQueue
      /\ deadLetters' = deadLetters
  BY <1>1 DEF Elsewhere, storeVars, dlqVars, InQueue
<1> QED
  BY <1>1, <1>2, <1>3, DeliveryStepMaps DEF Contract!Answer, asked, done

\* The contract counts the deliveries as the queue does.
LEMMA OutIsInFlight == Contract!Cardinality(Contract!Out) = Cardinality(InFlight)
<1>1. Contract!Out = InFlight
  BY DEF Contract!Out, Contract!Serial, InFlight, Serial
<1> QED
  BY <1>1 DEF Contract!Cardinality, Cardinality

\* The first step of a delivery is Ask, unless it ends at once.
LEMMA DispatchMaps ==
    ASSUME IInv, Dispatch
    PROVE  (\E m \in Serial : Contract!Ask(m)) \/ Stutters
<1>0. PICK m \in Serial : m = topMessage
  BY DispatchIsStep
<1>1. /\ m \in Issued /\ m \notin InFlight
      /\ DeliveryStep(m) /\ Elsewhere
  BY <1>0, DispatchIsStep
<1>2. asked[m] = {} /\ asked \in [Serial -> SUBSET Subscriber]
  BY <1>1 DEF InFlight, asked, IInv, TypeOK, Delivery
<1>3. done \in [Serial -> SUBSET Subscriber]
  BY DEF done, Completed, IInv, TypeOK, Message
<1>4. /\ lastSerialNumber' = lastSerialNumber /\ InQueue' = InQueue
      /\ deadLetters' = deadLetters
  BY <1>1 DEF Elsewhere, storeVars, dlqVars, InQueue
<1>5. PICK completed \in {done[m], done[m] \cup asked[m]} :
         /\ done' = [done EXCEPT ![m] = completed]
         /\ \/ asked' = [asked EXCEPT ![m] = {}]
            \/ \E s \in Subscriber \ completed :
                  asked' = [asked EXCEPT ![m] = {s}]
  BY <1>1, DeliveryStepMaps
<1>6. completed = done[m] /\ done' = done
  BY <1>1, <1>2, <1>3, <1>5
<1>7. CASE asked' = [asked EXCEPT ![m] = {}]
  BY <1>1, <1>2, <1>4, <1>6, <1>7 DEF Stutters
<1>8. CASE \E s \in Subscriber \ completed : asked' = [asked EXCEPT ![m] = {s}]
  <2>1. m <= lastSerialNumber
    BY <1>1 DEF Issued, IInv, TypeOK
  <2>2. Cardinality(InFlight) < MaxOutstandingDeliveries
    <3>1. outstandingDeliveries < MaxOutstandingDeliveries
      BY DEF Dispatch, IInv, ThreadHoldsSlot
    <3>2. /\ outstandingDeliveries = Cardinality(InFlight) + returning
          /\ returning \in Nat /\ Cardinality(InFlight) \in Nat
      BY FiniteSets DEF IInv, OutstandingIsExact, TypeOK
    <3> QED
      BY <3>1, <3>2, QueueAssumption
  <2>3. \E s \in Subscriber \ done[m] : asked' = [asked EXCEPT ![m] = {s}]
    BY <1>6, <1>8
  <2>4. Contract!Cardinality(Contract!Out) < MaxOutstandingDeliveries
    BY <2>2, OutIsInFlight
  <2>5. Contract!Ask(m)
    BY <1>2, <1>4, <1>6, <2>1, <2>3, <2>4 DEF Contract!Ask, asked, done
  <2> QED
    BY <2>5
<1> QED
  BY <1>5, <1>7, <1>8

\* A turn of the disposal loop is Leave, or finds the message purged.
LEMMA DisposeMaps ==
    ASSUME IInv, DisposeNext
    PROVE  Contract!Leave \/ Stutters
<1> DEFINE m == Least(messagesWithDispositions)
<1>1. lastSerialNumber' = lastSerialNumber /\ asked' = asked /\ done' = done
  BY DEF DisposeNext, deliveryVars, asked, done, Completed
<1>2. CASE ~StillBuffered(m)
  BY <1>1, <1>2 DEF DisposeNext, Stutters, InQueue
<1>3. CASE StillBuffered(m)
  <2>1. m \in InQueue
    BY <1>3 DEF StillBuffered, InQueue, IInv, NothingStranded
  <2>2. InQueue' = InQueue \ {m}
    BY <1>3 DEF DisposeNext, RemoveFromBufferAndDatabase, InQueue
  <2>3. deadLetters' \in {deadLetters, deadLetters \cup {m}}
    BY <1>3 DEF DisposeNext, MoveMessageToDeadLetter
  <2> QED
    BY <1>1, <2>1, <2>2, <2>3 DEF Contract!Leave, asked, done
<1> QED
  BY <1>2, <1>3

\* Time, expiry and the thread's other steps are invisible to the contract.
LEMMA OthersStutter ==
    ASSUME IInv,
           \/ DeleteDeadLetterQueue \/ StopServer \/ SignalShutdown
           \/ \E s \in Subscriber : Subscribe(s) \/ Unsubscribe(s)
           \/ \E m \in Serial : DeferralElapses(m) \/ GrowsOld(m)
           \/ FinishDelivery \/ BeginIteration \/ HydrateMessageBuffer \/ Pick
           \/ AwaitDelivery \/ CollectDispositions \/ LockForDisposal
           \/ DisposalEnds \/ DeadLetterTimeout \/ LockTimeout
           \/ UNCHANGED vars
    PROVE  Stutters
<1>1. /\ delivery' = delivery /\ deadLetters' = deadLetters
      /\ lastSerialNumber' = lastSerialNumber
  BY DEF DeleteDeadLetterQueue, StopServer, SignalShutdown, Subscribe,
         Unsubscribe, DeferralElapses, GrowsOld, FinishDelivery,
         BeginIteration, HydrateMessageBuffer, Pick, AwaitDelivery,
         CollectDispositions, LockForDisposal, DisposalEnds,
         DeadLetterTimeout, LockTimeout, vars, storeVars, dlqVars, deliveryVars
<1>2. InQueue' = InQueue
  <2>1. CASE HydrateMessageBuffer
    <3>1. Hydration \subseteq database
      BY DEF Hydration
    <3> QED
      BY <2>1, <3>1 DEF HydrateMessageBuffer, InQueue, IInv,
                        EphemeralHasNoDatabase
  <2>2. CASE ~HydrateMessageBuffer
    BY <2>2 DEF DeleteDeadLetterQueue, StopServer, SignalShutdown, Subscribe,
         Unsubscribe, DeferralElapses, GrowsOld, FinishDelivery,
         BeginIteration, Pick, AwaitDelivery, CollectDispositions,
         LockForDisposal, DisposalEnds, DeadLetterTimeout, LockTimeout, vars,
         storeVars, InQueue
  <2> QED
    BY <2>1, <2>2
<1>3. done' = done
  <2>1. CASE Pick \/ \E m \in Serial : DeferralElapses(m) \/ GrowsOld(m)
    BY <2>1, SameHistory, PickKeepsHistory, TimeKeepsHistory
  <2>2. CASE ~(Pick \/ \E m \in Serial : DeferralElapses(m) \/ GrowsOld(m))
    <3>1. message' = message
      BY <2>2 DEF DeleteDeadLetterQueue, StopServer, SignalShutdown, Subscribe,
           Unsubscribe, FinishDelivery, BeginIteration, HydrateMessageBuffer,
           AwaitDelivery, CollectDispositions, LockForDisposal, DisposalEnds,
           DeadLetterTimeout, LockTimeout, vars, deliveryVars
    <3> QED
      BY <3>1 DEF done, Completed
  <2> QED
    BY <2>1, <2>2
<1> QED
  BY <1>1, <1>2, <1>3 DEF Stutters, asked

\* Every step is one of the contract's, or a stutter.
LEMMA StepMaps ==
    ASSUME IInv, UnissuedIsNew, [Next]_vars
    PROVE  [Contract!Next]_(Contract!vars)
<1>1. Stutters => UNCHANGED Contract!vars
  BY DEF Stutters, Contract!vars, asked, done
<1>2. CASE \E deferred \in BOOLEAN : Enqueue(deferred)
  BY <1>2, EnqueueMaps DEF Contract!Next
<1>3. CASE PurgeQueue
  <2>1. InQueue' = {}
    BY <1>3 DEF PurgeQueue, InQueue
  <2>2. asked' = asked /\ done' = done
    BY <1>3 DEF PurgeQueue, deliveryVars, asked, done, Completed
  <2> QED
    BY <1>3, <2>1, <2>2 DEF PurgeQueue, dlqVars, Contract!Purge,
                            Contract!Next, asked, done
<1>4. CASE \E m \in Serial : Answer(m)
  BY <1>4, AnswerMaps DEF Contract!Next, Contract!Serial, Serial
<1>5. CASE Dispatch
  BY <1>1, <1>5, DispatchMaps
     DEF Contract!Next, Contract!Serial, Serial
<1>6. CASE DisposeNext
  BY <1>1, <1>6, DisposeMaps DEF Contract!Next
<1> QED
  BY <1>1, <1>2, <1>3, <1>4, <1>5, <1>6, OthersStutter
     DEF Next, Clients, DeliveryThread

\* A queue keeps its contract: messages are accepted in order, leave for good,
\* are out with one subscriber each and at most MaxOutstandingDeliveries at a
\* time, and nobody is asked again who is done.
THEOREM ContractKept == Spec => KeepsContract
<1>1. Init => Contract!Init
  BY DEF Init, Contract!Init, Contract!Serial, Serial, InQueue, Idle,
         NewMessage, Completed
<1>2. IInv /\ UnissuedIsNew /\ [Next]_vars => [Contract!Next]_(Contract!vars)
  BY StepMaps
<1> QED
  BY <1>1, <1>2, HistoryInvariance, PTL DEF Spec, KeepsContract, Contract!Spec

-----------------------------------------------------------------------------
(* What follows from the contract alone.                                   *)

\* A dead letter left the queue; what is out is with one subscriber each that
\* is not done with it, and is not more than the limit allows.
Promised ==
    /\ deadLetters \cap InQueue = {}
    /\ Cardinality(InFlight) <= MaxOutstandingDeliveries
    /\ \A m \in Serial :
          /\ asked[m] = {} \/ \E s \in Subscriber : asked[m] = {s}
          /\ asked[m] \cap done[m] = {}

PromiseInv ==
    /\ lastSerialNumber \in Nat
    /\ InQueue \subseteq Issued /\ deadLetters \subseteq Issued
    /\ Promised

\* A set of messages that does not grow, or grows by one.
LEMMA OneMore ==
    /\ IsFiniteSet(InFlight) /\ Cardinality(InFlight) \in Nat
    /\ \A S \in SUBSET InFlight : Cardinality(S) <= Cardinality(InFlight)
    /\ \A m \in Serial \ InFlight :
           Cardinality(InFlight \cup {m}) = Cardinality(InFlight) + 1
<1>1. IsFiniteSet(Serial) /\ InFlight \subseteq Serial
  BY QueueAssumption, FS_Interval DEF Serial, InFlight
<1>2. IsFiniteSet(InFlight)
  BY <1>1, FS_Subset
<1> QED
  BY <1>2, FS_Subset, FS_AddElement, FS_CardinalityType

\* Asking and answering, in the queue's own terms.
LEMMA AskMeans ==
    ASSUME NEW m \in Serial, Contract!Ask(m)
    PROVE  /\ asked[m] = {} /\ done' = done
           /\ Cardinality(InFlight) < MaxOutstandingDeliveries
           /\ \E s \in Subscriber \ done[m] : asked' = [asked EXCEPT ![m] = {s}]
           /\ UNCHANGED <<lastSerialNumber, InQueue, deadLetters>>
BY OutIsInFlight DEF Contract!Ask, asked, done

LEMMA AnswerMeans ==
    ASSUME NEW m \in Serial, Contract!Answer(m)
    PROVE  /\ asked[m] # {}
           /\ \E completed \in {done[m], done[m] \cup asked[m]} :
                 /\ done' = [done EXCEPT ![m] = completed]
                 /\ \/ asked' = [asked EXCEPT ![m] = {}]
                    \/ \E s \in Subscriber \ completed :
                          asked' = [asked EXCEPT ![m] = {s}]
           /\ UNCHANGED <<lastSerialNumber, InQueue, deadLetters>>
BY DEF Contract!Answer, asked, done

LEMMA InFlightIsAsked ==
    /\ InFlight = {m \in Serial : asked[m] # {}}
    /\ InFlight' = {m \in Serial : asked'[m] # {}}
    /\ Contract!Serial = Serial
  BY DEF InFlight, asked, Contract!Serial, Serial

\* One subscriber is asked, or the last one has answered.
LEMMA AskingKeepsPromise ==
    ASSUME PromiseInv, NEW m \in Serial, Contract!Ask(m) \/ Contract!Answer(m)
    PROVE  PromiseInv'
<1>1. UNCHANGED <<lastSerialNumber, InQueue, deadLetters>>
  BY AskMeans, AnswerMeans
<1>2. CASE Contract!Ask(m)
  <2>1. PICK s \in Subscriber \ done[m] : asked' = [asked EXCEPT ![m] = {s}]
    BY <1>2, AskMeans
  <2>2. done' = done /\ m \notin InFlight
    BY <1>2, AskMeans, InFlightIsAsked
  <2>3. \A k \in Serial : asked'[k] = IF k = m THEN {s} ELSE asked[k]
    BY <2>1 DEF asked
  <2>4. Cardinality(InFlight) < MaxOutstandingDeliveries
    BY <1>2, AskMeans
  <2>5. InFlight' = InFlight \cup {m}
    BY <2>3, InFlightIsAsked
  <2>6. Cardinality(InFlight') <= MaxOutstandingDeliveries
    BY <2>2, <2>4, <2>5, OneMore, QueueAssumption
  <2> QED
    BY <1>1, <2>1, <2>2, <2>3, <2>6 DEF PromiseInv, Promised, Issued
<1>3. CASE Contract!Answer(m)
  <2>1. PICK completed \in {done[m], done[m] \cup asked[m]} :
            /\ done' = [done EXCEPT ![m] = completed]
            /\ \/ asked' = [asked EXCEPT ![m] = {}]
               \/ \E s \in Subscriber \ completed :
                     asked' = [asked EXCEPT ![m] = {s}]
    BY <1>3, AnswerMeans
  <2>2. PICK next : /\ asked' = [asked EXCEPT ![m] = next]
                    /\ next = {} \/ \E s \in Subscriber : next = {s}
                    /\ next \cap completed = {}
    <3>1. CASE asked' = [asked EXCEPT ![m] = {}]
      <4>1. {} = {} /\ {} \cap completed = {}
        OBVIOUS
      <4> QED
        BY <3>1, <4>1, Zenon
    <3>2. ASSUME NEW s \in Subscriber \ completed,
                 asked' = [asked EXCEPT ![m] = {s}]
          PROVE  {s} \cap completed = {}
      OBVIOUS
    <3> QED
      BY <2>1, <3>1, <3>2
  <2>3. /\ \A k \in Serial : asked'[k] = IF k = m THEN next ELSE asked[k]
        /\ \A k \in Serial : done'[k] = IF k = m THEN completed ELSE done[k]
    BY <2>1, <2>2 DEF asked, done
  <2>4. m \in InFlight
    BY <1>3, AnswerMeans, InFlightIsAsked
  <2>5. InFlight' \subseteq InFlight
    BY <2>3, <2>4, InFlightIsAsked
  <2>6. Cardinality(InFlight') <= Cardinality(InFlight)
    BY <2>5, OneMore
  <2>7. Cardinality(InFlight') \in Nat /\ Cardinality(InFlight) \in Nat
    BY <2>5, OneMore, FS_Subset, FS_CardinalityType
  <2>8. Cardinality(InFlight') <= MaxOutstandingDeliveries
    BY <2>6, <2>7, QueueAssumption DEF PromiseInv, Promised
  <2> QED
    BY <1>1, <2>2, <2>3, <2>8 DEF PromiseInv, Promised, Issued
<1> QED
  BY <1>2, <1>3

LEMMA QueueingKeepsPromise ==
    ASSUME PromiseInv, Contract!Accept \/ Contract!Purge \/ Contract!Leave
    PROVE  PromiseInv'
<1>1. asked' = asked /\ done' = done
  BY DEF Contract!Accept, Contract!Purge, Contract!Leave, asked, done
<1>2. InFlight' = InFlight
  BY <1>1, InFlightIsAsked
<1>3. /\ lastSerialNumber' \in Nat
      /\ InQueue' \subseteq Issued' /\ deadLetters' \subseteq Issued'
      /\ deadLetters' \cap InQueue' = {}
  <2>1. CASE Contract!Accept
    <3>1. /\ lastSerialNumber' = lastSerialNumber + 1
          /\ InQueue' = InQueue \cup {lastSerialNumber + 1}
          /\ deadLetters' = deadLetters /\ lastSerialNumber \in Nat
      BY <2>1 DEF Contract!Accept, PromiseInv
    <3>2. Issued \subseteq Issued' /\ lastSerialNumber + 1 \in Issued' \ Issued
      BY <3>1 DEF Issued
    <3> QED
      BY <3>1, <3>2 DEF PromiseInv, Promised
  <2>2. CASE Contract!Purge
    BY <2>2 DEF Contract!Purge, PromiseInv, Promised, Issued
  <2>3. CASE Contract!Leave
    <3>1. PICK m \in InQueue :
             /\ InQueue' = InQueue \ {m}
             /\ deadLetters' \in {deadLetters, deadLetters \cup {m}}
      BY <2>3 DEF Contract!Leave
    <3>2. lastSerialNumber' = lastSerialNumber
      BY <2>3 DEF Contract!Leave
    <3> QED
      BY <3>1, <3>2 DEF PromiseInv, Promised, Issued
  <2> QED
    BY <2>1, <2>2, <2>3
<1> QED
  BY <1>1, <1>2, <1>3 DEF PromiseInv, Promised

\* What left the queue is not accepted again.
LEMMA NothingComesBack ==
    ASSUME PromiseInv, [Contract!Next]_(Contract!vars),
           NEW m \in Issued, m \notin InQueue
    PROVE  m \notin InQueue'
<1>1. CASE Contract!Accept
  <2>1. InQueue' = InQueue \cup {lastSerialNumber + 1}
    BY <1>1 DEF Contract!Accept
  <2>2. m # lastSerialNumber + 1
    BY DEF Issued, PromiseInv
  <2> QED
    BY <2>1, <2>2
<1>2. CASE Contract!Purge \/ Contract!Leave
  BY <1>2 DEF Contract!Purge, Contract!Leave
<1>3. CASE \E k \in Serial : Contract!Ask(k) \/ Contract!Answer(k)
  BY <1>3, AskMeans, AnswerMeans
<1>4. CASE UNCHANGED Contract!vars
  BY <1>4 DEF Contract!vars
<1> QED
  BY <1>1, <1>2, <1>3, <1>4, InFlightIsAsked DEF Contract!Next

\* The contract is enough: whatever implements it brings no message back, has
\* no dead letter in the queue, exceeds no limit and asks nobody who is done.
THEOREM ContractMakesReliable == KeepsContract => GoneStaysGone /\ []Promised
<1>1. Contract!Init => PromiseInv
  <2>1. Contract!Init => InFlight = {}
    BY InFlightIsAsked DEF Contract!Init, asked
  <2>2. 0 <= MaxOutstandingDeliveries /\ Cardinality({}) = 0
    BY QueueAssumption, FS_EmptySet
  <2>3. Contract!Init => \A m \in Serial : asked[m] = {} /\ done[m] = {}
    BY InFlightIsAsked DEF Contract!Init, asked, done
  <2> QED
    BY <2>1, <2>2, <2>3 DEF Contract!Init, PromiseInv, Promised
<1>2. PromiseInv /\ [Contract!Next]_(Contract!vars) => PromiseInv'
  <2>1. ASSUME PromiseInv, UNCHANGED Contract!vars PROVE PromiseInv'
    <3>1. asked' = asked /\ done' = done
      BY <2>1 DEF Contract!vars, asked, done
    <3>2. InFlight' = InFlight
      BY <3>1, InFlightIsAsked
    <3> QED
      BY <2>1, <3>1, <3>2 DEF Contract!vars, PromiseInv, Promised, Issued
  <2>2. ASSUME PromiseInv, Contract!Next PROVE PromiseInv'
    BY <2>2, AskingKeepsPromise, QueueingKeepsPromise, InFlightIsAsked
       DEF Contract!Next
  <2> QED
    BY <2>1, <2>2
<1>3. PromiseInv /\ [Contract!Next]_(Contract!vars)
          => [\A m \in 1..lastSerialNumber :
                 m \notin InQueue => m \notin InQueue']_vars
  BY NothingComesBack DEF Issued
<1>4. PromiseInv => Promised
  BY DEF PromiseInv
<1> QED
  BY <1>1, <1>2, <1>3, <1>4, PTL DEF KeepsContract, Contract!Spec, GoneStaysGone
=============================================================================
