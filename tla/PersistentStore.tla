-------------------------- MODULE PersistentStore --------------------------
(***************************************************************************)
(* The store of one persistent queue: the RocksDB database, the message    *)
(* buffer that mirrors a prefix of it, the depth and the serial number     *)
(* kept in memory, and the callers of Enqueue, which hold the              *)
(* EnqueuedMessages lock shared and take several steps, so that several    *)
(* of them are between taking a serial number and counting the message.    *)
(* Purge, hydration, disposal and shutdown hold that lock exclusively.     *)
(* The process may crash at any step; memory is lost and the database, all *)
(* writes of which are in its log, is opened again.                        *)
(*                                                                         *)
(* Which messages are delivered is module MessageQueue's concern: here any *)
(* buffered message may be disposed of.                                    *)
(***************************************************************************)
EXTENDS Integers, FiniteSets, Sequences

CONSTANTS
    Producer,    \* callers of Enqueue, and moves from a parent queue
    BufferSize,  \* DEFAULT_PERSISTENT_MESSAGES_BUFFER_SIZE
    MinBuffer,   \* DEFAULT_PERSISTENT_MESSAGES_MIN_BUFFER
    MaxMessages, \* BOUND on the messages sent to the queue
    MaxRestarts  \* BOUND on the number of crashes and stops

ASSUME StoreAssumption ==
    /\ IsFiniteSet(Producer)
    /\ BufferSize \in Nat \ {0} /\ MinBuffer \in Nat \ {0}
    /\ MaxMessages \in Nat /\ MaxRestarts \in Nat

Id == 1..MaxMessages      \* EnqueuedMessage.MessageId, in the order of creation
Serial == 1..MaxMessages  \* a serial number is never above the messages sent

\* What a producer that holds the lock shared has done so far.
Phase == {"idle", "locked", "numbered", "stored"}

VARIABLES
    database,          \* serial number -> message, a partial function
    messageBuffer,     \* List<EnqueuedMessage>
    queueDepth, lastSerialNumber,
    isOpen,            \* Database # null
    isUp,              \* the process runs and the queue is published
    attemptBufferRehydration,
    served,            \* the queue has a subscriber and a free delivery slot
    purging,           \* keys PurgeQueue has collected and not yet removed
    producer,
    sent, restarts,    \* counters that are bounded
    accepted,          \* history: messages whose Enqueue succeeded
    earlier,           \* history, by message: those accepted and not removed
                       \*   when its Enqueue got the lock
    removed            \* history: messages disposed of or purged

queueVars == <<messageBuffer, queueDepth, lastSerialNumber, isOpen, isUp,
               attemptBufferRehydration, served, purging>>
history == <<accepted, earlier, removed>>
vars == <<database, queueVars, producer, sent, restarts, history>>

Stored == {database[n] : n \in DOMAIN database}
Buffered == {messageBuffer[i].serial : i \in DOMAIN messageBuffer}
Unlocked == \A p \in Producer : producer[p].phase = "idle"
IdleProducer == [phase |-> "idle", serial |-> 0, id |-> 0]

Without(f, n) == [k \in DOMAIN f \ {n} |-> f[k]]
With(f, n, v) == [k \in DOMAIN f \cup {n} |-> IF k = n THEN v ELSE f[k]]

Init ==
    /\ database = <<>> /\ messageBuffer = <<>>
    /\ queueDepth = 0 /\ lastSerialNumber = 0
    /\ isOpen = TRUE /\ isUp = TRUE /\ attemptBufferRehydration = FALSE
    /\ served = FALSE
    /\ purging = {}
    /\ producer = [p \in Producer |-> IdleProducer]
    /\ sent = 0 /\ restarts = 0
    /\ accepted = {} /\ removed = {} /\ earlier = [m \in Id |-> {}]

-----------------------------------------------------------------------------
(* Enqueue, and the persistent branch of MoveMessageToDeadLetter.          *)

\* EnqueuedMessages.TryRead: shared with the other producers.
TakeReadLock(p) ==
    /\ isUp /\ purging = {}
    /\ producer[p].phase = "idle" /\ sent < MaxMessages
    /\ producer' = [producer EXCEPT ![p] =
                       [phase |-> "locked", serial |-> 0, id |-> sent + 1]]
    /\ sent' = sent + 1
    /\ earlier' = [earlier EXCEPT ![sent + 1] = accepted \ removed]
    /\ UNCHANGED <<database, queueVars, restarts, accepted, removed>>

\* "Persistence database has not been initialized": the call throws.
DatabaseClosed(p) ==
    /\ producer[p].phase = "locked" /\ ~isOpen
    /\ producer' = [producer EXCEPT ![p] = IdleProducer]
    /\ UNCHANGED <<database, queueVars, sent, restarts, history>>

\* Mutant of TakeNumber: the increment is not interlocked, it reads the number
\* of stored messages instead.
TakeNumberFromDepth == queueDepth + 1

\* Interlocked.Increment
TakeNumber == lastSerialNumber + 1

GetNextSerialNumber(p) ==
    /\ producer[p].phase = "locked" /\ isOpen
    /\ lastSerialNumber' = TakeNumber
    /\ producer' = [producer EXCEPT ![p].phase = "numbered",
                                    ![p].serial = TakeNumber]
    /\ UNCHANGED <<database, messageBuffer, queueDepth, isOpen, isUp,
                   attemptBufferRehydration, served, purging, sent, restarts,
                   history>>

Store(p) ==
    /\ producer[p].phase = "numbered"
    /\ database' = With(database, producer[p].serial, producer[p].id)
    /\ producer' = [producer EXCEPT ![p].phase = "stored"]
    /\ UNCHANGED <<queueVars, sent, restarts, history>>

\* Put throws: the call fails, the serial number stays unused.
StoreFails(p) ==
    /\ producer[p].phase = "numbered"
    /\ producer' = [producer EXCEPT ![p] = IdleProducer]
    /\ UNCHANGED <<database, queueVars, sent, restarts, history>>

\* "Only count the message once it has actually been stored."
CountAndReturn(p) ==
    /\ producer[p].phase = "stored"
    /\ queueDepth' = queueDepth + 1
    /\ producer' = [producer EXCEPT ![p] = IdleProducer]
    /\ accepted' = accepted \cup {producer[p].id}
    /\ UNCHANGED <<database, messageBuffer, lastSerialNumber, isOpen, isUp,
                   attemptBufferRehydration, served, purging, sent, restarts,
                   earlier, removed>>

-----------------------------------------------------------------------------
(* The delivery thread.                                                    *)

\* Subscribers come and go, and deliveries begin and end.
ServedChanges ==
    /\ isUp /\ served' = ~served
    /\ UNCHANGED <<database, messageBuffer, queueDepth, lastSerialNumber,
                   isOpen, isUp, attemptBufferRehydration, purging, producer,
                   sent, restarts, history>>

\* Under the shared lock: the producers may be half way.
AskForHydration ==
    /\ served
    /\ isUp /\ isOpen /\ purging = {} /\ ~attemptBufferRehydration
    /\ queueDepth > Len(messageBuffer)
    /\ attemptBufferRehydration' = TRUE
    /\ UNCHANGED <<database, messageBuffer, queueDepth, lastSerialNumber,
                   isOpen, isUp, served, purging, producer, sent, restarts,
                   history>>

\* The same when the buffer is short: then the thread asks on its next pass,
\* whatever it found in the buffer.
AskForHydrationShort == Len(messageBuffer) < MinBuffer /\ AskForHydration

LastBuffered ==
    IF messageBuffer = <<>> THEN 0
    ELSE messageBuffer[Len(messageBuffer)].serial

GreatestBuffered ==
    IF messageBuffer = <<>> THEN 0
    ELSE CHOOSE n \in Buffered : \A k \in Buffered : k <= n

\* Mutant of AboveBuffer: the iterator is moved past the key it sought.
AboveBufferStrict(n) == n > GreatestBuffered + 1

\* Seek(maxBufferedSerialNumber + 1)
AboveBuffer(n) == n > GreatestBuffered

\* The keys the iterator yields, in key order, at most BufferSize of them.
Found == {n \in DOMAIN database : AboveBuffer(n)}
Rank(n) == Cardinality({k \in Found : k <= n})
Loaded ==
    LET count == IF Cardinality(Found) < BufferSize
                 THEN Cardinality(Found) ELSE BufferSize
        key(i) == CHOOSE n \in Found : Rank(n) = i
    IN [i \in 1..count |-> [serial |-> key(i), id |-> database[key(i)]]]

\* Mutant of WriteLockFree: the producers are not waited for.
WriteLockIgnored == TRUE

WriteLockFree == Unlocked

HydrateMessageBuffer ==
    /\ attemptBufferRehydration /\ isUp /\ isOpen
    /\ WriteLockFree /\ purging = {}
    /\ messageBuffer' = messageBuffer \o Loaded
    /\ attemptBufferRehydration' = FALSE
    /\ UNCHANGED <<database, queueDepth, lastSerialNumber, isOpen, isUp,
                   served, purging, producer, sent, restarts, history>>

\* TryWrite gives up; the request is forgotten and made again by a later pass.
HydrationTimesOut ==
    /\ attemptBufferRehydration
    /\ attemptBufferRehydration' = FALSE
    /\ UNCHANGED <<database, messageBuffer, queueDepth, lastSerialNumber,
                   isOpen, isUp, served, purging, producer, sent, restarts,
                   history>>

\* RemoveFromBufferAndDatabase and DecrementQueueDepth, under the write lock:
\* a crash between them leaves the same database.
Dispose ==
    /\ isUp /\ isOpen /\ Unlocked /\ purging = {}
    /\ \E i \in DOMAIN messageBuffer :
       /\ database' = Without(database, messageBuffer[i].serial)
       /\ messageBuffer' = SubSeq(messageBuffer, 1, i - 1)
                               \o SubSeq(messageBuffer, i + 1, Len(messageBuffer))
       /\ removed' = removed \cup {messageBuffer[i].id}
    /\ queueDepth' = queueDepth - 1
    /\ UNCHANGED <<lastSerialNumber, isOpen, isUp, attemptBufferRehydration,
                   served, purging, producer, sent, restarts, accepted,
                   earlier>>

-----------------------------------------------------------------------------
(* PurgeQueue: one key at a time, under the write lock.                    *)

StartPurge ==
    /\ isUp /\ isOpen /\ Unlocked /\ purging = {} /\ database # <<>>
    /\ purging' = DOMAIN database
    /\ UNCHANGED <<database, messageBuffer, queueDepth, lastSerialNumber,
                   isOpen, isUp, attemptBufferRehydration, served, producer,
                   sent, restarts, history>>

\* Mutant of ForgetBuffer: only the database is purged.
ForgetBufferNot == UNCHANGED messageBuffer

ForgetBuffer == messageBuffer' = <<>>

\* The last key also clears the buffer and the depth.
PurgeKey ==
    /\ isUp
    /\ \E n \in purging :
       /\ \A k \in purging : n <= k
       /\ database' = Without(database, n)
       /\ purging' = purging \ {n}
       /\ removed' = removed \cup {database[n]}
       /\ IF purging = {n}
          THEN ForgetBuffer /\ queueDepth' = 0
          ELSE UNCHANGED <<messageBuffer, queueDepth>>
    /\ UNCHANGED <<lastSerialNumber, isOpen, isUp, attemptBufferRehydration,
                   served, producer, sent, restarts, accepted, earlier>>

-----------------------------------------------------------------------------
(* Shutdown, crash and restart.                                            *)

\* The end of WaitForShutdown: the database is closed under the write lock.
CloseDatabase ==
    /\ isUp /\ isOpen /\ Unlocked /\ purging = {}
    /\ restarts < MaxRestarts
    /\ isOpen' = FALSE
    /\ UNCHANGED <<database, messageBuffer, queueDepth, lastSerialNumber,
                   isUp, attemptBufferRehydration, served, purging, producer,
                   sent, restarts, history>>

\* The process ends, by a crash or after the database was closed.
ProcessEnds ==
    /\ isUp /\ restarts < MaxRestarts
    /\ restarts' = restarts + 1
    /\ isUp' = FALSE /\ isOpen' = FALSE
    /\ messageBuffer' = <<>> /\ queueDepth' = 0 /\ lastSerialNumber' = 0
    /\ attemptBufferRehydration' = FALSE /\ served' = FALSE /\ purging' = {}
    /\ producer' = [p \in Producer |-> IdleProducer]
    /\ UNCHANGED <<database, sent, history>>

GreatestKey == CHOOSE n \in DOMAIN database : \A k \in DOMAIN database : k <= n

\* Mutant of RecoveredSerialNumber: numbering starts afresh.
RecoveredSerialNumberZero == 0

\* Mutant of RecoveredSerialNumber: the records are counted.
RecoveredSerialNumberCount == Cardinality(DOMAIN database)

\* The key of the last record, 0 when there is none.
RecoveredSerialNumber == IF database = <<>> THEN 0 ELSE GreatestKey

InitializePersistentDatabase ==
    /\ ~isUp
    /\ isUp' = TRUE /\ isOpen' = TRUE
    /\ queueDepth' = Cardinality(DOMAIN database)
    /\ lastSerialNumber' = RecoveredSerialNumber
    /\ UNCHANGED <<database, messageBuffer, attemptBufferRehydration, served,
                   purging, producer, sent, restarts, history>>

-----------------------------------------------------------------------------
EnqueueStep(p) ==
    \/ DatabaseClosed(p) \/ GetNextSerialNumber(p) \/ Store(p)
    \/ StoreFails(p) \/ CountAndReturn(p)

Next ==
    \/ \E p \in Producer : TakeReadLock(p) \/ EnqueueStep(p)
    \/ ServedChanges
    \/ AskForHydration \/ HydrateMessageBuffer \/ HydrationTimesOut \/ Dispose
    \/ StartPurge \/ PurgeKey
    \/ CloseDatabase \/ ProcessEnds \/ InitializePersistentDatabase

Spec == Init /\ [][Next]_vars

\* The callers and the purge run on, the service is started again, and the
\* delivery thread of a queue that is served tries the lock again and again.
Fairness ==
    /\ \A p \in Producer : WF_vars(EnqueueStep(p))
    /\ WF_vars(PurgeKey) /\ WF_vars(InitializePersistentDatabase)
    /\ WF_vars(isUp /\ ~isOpen /\ ProcessEnds)
    /\ WF_vars(AskForHydrationShort) /\ SF_vars(HydrateMessageBuffer)

FairSpec == Spec /\ Fairness

-----------------------------------------------------------------------------
(* Properties.                                                             *)

TypeOK ==
    /\ DOMAIN database \subseteq Serial /\ Stored \subseteq Id
    /\ messageBuffer \in Seq([serial : Serial, id : Id])
    /\ queueDepth \in Nat /\ lastSerialNumber \in 0..MaxMessages
    /\ {isOpen, isUp, attemptBufferRehydration, served} \subseteq BOOLEAN
    /\ purging \subseteq Serial
    /\ producer \in [Producer -> [phase : Phase, serial : Serial \cup {0},
                                  id : Id \cup {0}]]
    /\ sent \in 0..MaxMessages /\ restarts \in 0..MaxRestarts
    /\ accepted \subseteq Id /\ removed \subseteq Id
    /\ earlier \in [Id -> SUBSET Id]

\* The depth counter lags behind the database by exactly the messages that are
\* stored and not counted yet, whatever is enqueued, purged or crashes.
DepthTracksDatabase ==
    isUp /\ purging = {} =>
        queueDepth + Cardinality({p \in Producer : producer[p].phase = "stored"})
            = Cardinality(DOMAIN database)

\* The buffer is what the delivery thread takes it for: the oldest stored
\* messages in the order of their keys, so that the first is the head of the
\* queue and hydration above the greatest misses none.
BufferIsPrefix ==
    purging = {} =>
        /\ \A i, j \in DOMAIN messageBuffer :
               i < j => messageBuffer[i].serial < messageBuffer[j].serial
        /\ \A i \in DOMAIN messageBuffer :
               /\ messageBuffer[i].serial \in DOMAIN database
               /\ database[messageBuffer[i].serial] = messageBuffer[i].id
        /\ \A n \in DOMAIN database \ Buffered : n > LastBuffered

\* A message whose Enqueue succeeded is in the database until it is disposed of
\* or purged: no crash loses it and no later message takes its key.
AcceptedIsStored == accepted \subseteq Stored \cup removed

\* A message that was accepted before the call for another one began has the
\* smaller key, and so is delivered first, also when the two were sent to
\* different lives of the process.
FirstComeFirstServed ==
    \A n, k \in DOMAIN database :
        database[n] \in earlier[database[k]] => n < k

\* A stored message reaches the buffer, or is removed, in spite of crashes and
\* of hydrations that miss the lock, if at last the queue keeps a subscriber and
\* a free slot, and its subscribers run the buffer short again and again.  A
\* queue without subscribers is not hydrated.  (Property EveryMessageLeaves of
\* MessageQueue has the whole way, with what is asked of the subscribers.)
StoredIsBuffered ==
    <>[]served /\ []<>(Len(messageBuffer) < MinBuffer) =>
        \A m \in Id :
            m \in Stored ~>
                \/ \E i \in DOMAIN messageBuffer : messageBuffer[i].id = m
                \/ m \notin Stored
-----------------------------------------------------------------------------
(* What the store implements.                                              *)

Calling == {p \in Producer : producer[p].phase # "idle"}

\* The order of the queue is the order of the keys.
KeyOrder ==
    {pair \in Stored \X Stored :
        \E n, k \in DOMAIN database :
            n < k /\ pair = <<database[n], database[k]>>}

Durable == INSTANCE DurableQueue WITH
    Message <- Id,
    calls   <- {producer[p].id : p \in Calling},
    queue   <- Stored,
    before  <- KeyOrder

\* Whatever the producers, the hydration, a purge and a crash do, the store is
\* a durable first-come-first-served queue: a call that succeeds has placed its
\* message behind all those accepted before it began, a call that throws has
\* not, and no step but a removal takes a message out or changes the order.
KeepsDurability == Durable!Spec
=============================================================================
