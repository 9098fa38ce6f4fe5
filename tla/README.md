# CatMQ verification

TLA+ specifications of the message-queue server in `src/NTDLS.CatMQ.Server` and
of the client in `src/NTDLS.CatMQ.Client`, checked with TLC on small instances
and proved with TLAPS for every value of the constants.

File and line references are to the repository; `SMQS` abbreviates
`src/NTDLS.CatMQ.Server/Server/SingleMessageQueueServer.cs`, and `CMqServer.cs`
and `CMqClient.cs` are in the two directories above.

## 1. The system

A client process (`CMqClient`) talks to the server (`CMqServer`) over
NTDLS.ReliableMessaging: notifications and queries, where a query waits for a
reply or for a timeout. The server keeps a dictionary of queues; each queue is a
`SingleMessageQueueServer` with one delivery thread of its own. Shared state is
guarded by NTDLS.Semaphore resources (`Read`, `TryRead`, `TryWrite`,
`TryReadAll` with several resources), which either run a callback under the lock
or report that the lock was not obtained in time. Persistent queues keep their
messages in a RocksDB database, and the server lists them in `queues.json`.

| Component | State | Operations | What is hard | Correct when | Status |
|---|---|---|---|---|---|
| **Queue delivery** (`SMQS`, `SubscriberDispositions`, `EnqueuedMessage`) | message buffer, per message: state, deferral, attempts and three sets of subscribers; outstanding-delivery counter; thread-local flags | the delivery loop: expire, pick, dispatch, collect, dispose; `DistributeToSubscribersAsync`; shutdown | deliveries run as tasks beside the loop; subscribers come and go, the queue is purged and the server stopped at any await | one delivery per message at a time; no attempt after a final answer; limits kept; counters exact; every message leaves the queue in the end | modelled |
| **Persistent store** (`SMQS` `HydrateMessageBuffer`/`InitializePersistentDatabase`, `Extensions`, `MessageQueueStatistics`) | the database, the buffer that mirrors a prefix of it, depth and serial-number counters | Enqueue under a shared lock, hydrate, remove, purge, open, close | several producers between taking a number and counting it; crashes; counters rebuilt from the keys | the buffer is a prefix of the database; the depth is its size; what was accepted is stored until it is removed | modelled |
| **Queue registry** (`CMqServer`) | dictionary of queues, `queues.json` and its temporary file, running flag, who has which database open | Create with its dead-letter companion and roll-back, Delete with the directory, heartbeat checkpoint, Stop, Start | every step of a call can fail or be the last one before a crash; later calls decide by the registry, a restart by the file | what was reported is so after any restart; no half-created queue stays; nobody keeps the lock | modelled |
| **Client** (`CMqClient`, `CMqSubscription`) | connection, subscription, receive buffers, flush task | Connect, Disconnect, reconnect with `RestoreSubscriptions`, Subscribe, Unsubscribe, buffered delivery | reconnect task against application calls; queries that time out and are handled all the same; a flush task | no subscription is lost silently; what is buffered is handed over | modelled |
| **Query handlers** | none | forward one request to one `CMqServer` call, report its exception | - | - | partly |
| **Locks** (all of the above) | who holds what, back-off loops | `TryReadAll`, `TryWriteAll` with retries | the disposal loop holds one queue's lock while it takes another's | nobody waits for ever | not modelled (7) |
| Statistics, serialization, service host, REST API and pages | none that decides anything | count, convert, call `CMqServer` | - | - | not modelled (7) |

Interactions: a client's Enqueue goes through the registry into a queue's store;
the queue's thread reads the store through the buffer and sends queries back
through `CMqServer.DeliverMessageWithResultAsync`; the client's handler, or its
buffer, decides the answer, and the answer (or the acknowledgement timeout) the
message's fate; a dead letter moves from one queue to its companion under both
queues' locks; the end of a connection removes its subscribers from all queues.

`PROJECT.json` lists, under `hazards`, where each of the difficulties bites and
which property watches it, or why none does.

## 2. Modules

| Module | Content |
|---|---|
| `ReliableQueue` | the contract of one queue: what its users may rely on |
| `MessageQueue` | one queue with its thread, deliveries, subscribers, companion queue, clients and server shutdown |
| `MessageQueueProofs` | the inductive invariant of `MessageQueue`, and what holds in every configuration |
| `MessageQueueConditions` | what holds of `MessageQueue` where nobody defers, purges, stops, ... |
| `MessageQueueRefinement` | `MessageQueue` implements `ReliableQueue` |
| `DurableQueue` | the contract of a persistent queue with those who send to it |
| `PersistentStore`, `PersistentStoreProofs` | the store of one persistent queue: producers step by step, purge key by key, crash and restart |
| `PersistentStoreRefinement` | `PersistentStore` implements `DurableQueue` |
| `QueueCatalogue` | the contract of the registry: a catalogue and its saved copy |
| `QueueRegistry`, `QueueRegistryProofs` | the dictionary of queues and `queues.json`: create, delete, checkpoint, stop, crash, start |
| `QueueRegistryRefinement` | `QueueRegistry` implements `QueueCatalogue` |
| `ClientSubscriptions`, `ClientSubscriptionsProofs` | one client's subscription to one queue, with the server's side of it |
| `MCMessageQueue`, `MCPersistentStore`, `MCQueueRegistry`, `MCClientSubscriptions` | instances for TLC; one `.cfg` per run |
| `MCQueueRegistrySystems` | the registry on Windows and on Linux in one run |

The modules split the system by lock. `MessageQueue` takes an Enqueue as one step
because `PersistentStore` shows what its inner steps can do; `PersistentStore`
disposes of any message because `MessageQueue` decides which; `QueueRegistry`
has queues without messages, and `ClientSubscriptions` a queue that only
delivers and counts the answer. Three modules have a contract, an abstract
specification without locks, threads or files: `ReliableQueue`, `DurableQueue`
and `QueueCatalogue`. Its instance (`Contract`, `Durable`, `Catalogue`) stands at
the end of the module that implements it, with the mapping of the variables.

Definitions introduced by "Mutant of" are plausible mistakes: substituting one
for the definition it names must break the property it is listed with in
`PROJECT.json`, which shows that the property depends on the code.

### 2.1 MessageQueue

| Variable | Code |
|---|---|
| `serverRunning`, `isRunning` | `CMqServer._isRunning`, `SingleMessageQueueServer._isRunning` |
| `dlqExists`, `deadLetters` | the companion queue is in the dictionary; what was moved to it |
| `subscribers` | the queue's `Subscribers` |
| `database`, `messageBuffer`, `queueDepth`, `lastSerialNumber` | `EnqueuedMessageContainer`, `MessageQueueStatistics` |
| `message[m]` | the fields of `EnqueuedMessage` that decide, and one that counts: `State`, `DeferredUntil`, `DeferredCount`, age, `SubscriberMessageDeliveries`, and the `Satisfied...`, `Consumed...` and `DeliveryLimitReached...SubscriberIDs` |
| `delivery[m]` | the locals of a running `DistributeToSubscribersWithDisposition`: the subscriber awaited, the rest of the `Remaining` snapshot, the snapshot, the failed ones |
| `returning` | deliveries that have assigned the message's state and not yet run the `finally` block |
| `pc`, `topMessage`, `attemptBufferRehydration`, `messagesWithDispositions`, `consecutiveExceptions` | the delivery thread's locals |

The thread's loop is cut where another task can come in: between two lock
sections and at each `await`. One pass is `BeginIteration`
(`HydrateMessageBuffer`) `Pick` (`Dispatch` (`AwaitDelivery`))
`CollectDispositions` (`LockForDisposal` `DisposeNext`... `DisposalEnds`).
`LockTimeout` stands for a try-lock that fails: the code carries on with the
rest of the pass, and so does the model. `DeadLetterTimeout` is the exception
that leaves the disposal loop.

A delivery takes one step per answer. `Answer(m)` is everything that can end the
wait: the dispositions a client can return, an exception, the acknowledgement
timeout and a lost connection (the last three are one outcome in the code, the
`catch`). Each answer continues up to the next `await` or to the state the
message is given (`Return`); `FinishDelivery` is the `finally` block, a step of
its own, because the thread can see the new state before the slot is free.

Abstractions:

* A message is its serial number. In `PersistentStore` the buffer is a list, and
  `BufferIsPrefix` shows it sorted; `MessageQueue` therefore keeps the set of the
  buffered numbers, and the first of the list is the least.
* Time is `deferred` (cleared by `DeferralElapses`) and `age` (raised by
  `GrowsOld`); `fresh` to `ancient` in one step covers every order of the two age
  limits.
* `Random` and `Balanced` delivery orders are one nondeterministic order.
* The Enqueue of `MessageQueue` is one step: a half-done Enqueue holds the lock
  shared, so no step that needs the lock exclusively can meet it.
* A client's call tests `CMqServer._isRunning` once, before it waits for its locks
  (`CMqServer.cs:1088`, `:1271`, `:1385`), and `Stop` waits for no call. `Enqueue`,
  `PurgeQueue`, `Subscribe`, `Unsubscribe` and `DeleteDeadLetterQueue` therefore
  have no guard on the flag: one that passed the test may take effect at any
  later time. Once the database is disposed such a call throws and changes
  nothing; `MessageQueue` ends there. `MoveMessageToDeadLetter`, which tests the
  flag in the same loop, may move the message or not once the server has stopped.
* The deadlines of `WaitForShutdown` (`SMQS:674`) and of the other retry loops on
  locks are taken as not reached.
* `DeliveryThrottle`, the yield, the periodic flush of the memory table, logging
  and statistics that nothing decides on are left out.
* Outside this repository, and modelled by how it is used: the semaphore library
  (callback under the lock, or failure), the messaging library (reply, exception
  or timeout), RocksDB (atomic `Put`/`Remove`, ordered iteration).

### 2.2 ReliableQueue

The contract has five variables and no thread, buffer, database or lock:
messages are accepted in the order of their numbers; one that left does not come
back and only on leaving may turn up among the dead letters; at most
`MaxOutstandingDeliveries` are out at a time, each with one subscriber; a
subscriber that is done with a message is never asked again.

| `ReliableQueue` | `MessageQueue` |
|---|---|
| `accepted` | `lastSerialNumber` |
| `queue` | `InQueue`: the database, or the buffer of an ephemeral queue |
| `asked[m]` | `delivery[m].awaiting` |
| `done[m]` | `Completed(message[m])`: satisfied, or given up on |
| `deadLetters` | `deadLetters` |
| `Accept` | `Enqueue` |
| `Ask` | `Dispatch` |
| `Answer` | `Answer`, by which the delivery ends or goes on |
| `Leave`, `Purge` | `DisposeNext`, `PurgeQueue` |
| a stutter | everything else |

What the contract leaves open on purpose, because the code does: a purge does
not recall a message that is out, and a message may leave without being
delivered (expiry, 6.2) or without reaching the companion (6.1). Delivery in the
end is not in it either; that is `EveryMessageLeaves`.

### 2.3 PersistentStore

`database` is a partial function from serial numbers to message identities and
`messageBuffer` a sequence, as in the code. A producer goes through `TakeReadLock`,
`GetNextSerialNumber`, `Store`, `CountAndReturn`, with `StoreFails` and
`DatabaseClosed` as its error exits; several producers hold the lock at once.
`PurgeKey` removes one key per step, so that a crash can happen between two.
`ProcessEnds` loses all memory at any moment; `InitializePersistentDatabase`
rebuilds depth and serial number from the keys. `served` is what the delivery
thread looks at before it asks for a hydration: a free delivery slot and a
subscriber (`SMQS:149`, `SMQS:159`); both come and go at any time
(`ServedChanges`), and `AskForHydration` needs them. Any buffered message may be
disposed of: which one is `MessageQueue`'s concern. `accepted`, `removed` and
`earlier` are history: which messages were reported as accepted, which were
disposed of or purged, and which were waiting when the call for a message began.

The contract `DurableQueue` says what a sender may rely on: a call places its
message at one moment between its beginning and its end, behind everything that
was accepted before the call began; calls that overlap may be placed either way
round, which is why the contract chooses a place and the code's numbers decide
it; what is placed keeps its place through any number of crashes; a call that
throws has placed nothing; one that a crash cut off may have.

| `DurableQueue` | `PersistentStore` |
|---|---|
| `calls` | the messages of the producers inside `Enqueue` |
| `queue`, `before` | the messages in the database, in the order of their keys |
| `accepted`, `earlier`, `removed` | the history variables |
| `Begin`, `Place`, `Return` | `TakeReadLock`, `Store`, `CountAndReturn` |
| `Fail` | `StoreFails`, `DatabaseClosed` |
| `Remove` | `Dispose`, `PurgeKey` |
| `Crash` | `ProcessEnds` |
| a stutter | everything else, `GetNextSerialNumber` and the hydration among it |

### 2.4 QueueRegistry

| Variable | Code |
|---|---|
| `isUp`, `isRunning`, `stopping` | the process exists; `CMqServer._isRunning`; how far `Stop` is |
| `writer` | who is in a `Write` of `_messageQueues`, which is held from the look-up of `CreateQueue` to the start of the thread, and in `DeleteQueue` to the end of the checkpoint |
| `config`, `state` | `_messageQueues`: the configuration under each key, and what became of its queue |
| `database` | who has the RocksDB of a path open: the queue in the registry (`listed`), one that `DeleteQueue` is closing (`leaving`), one that nobody will close (`orphan`), nobody |
| `directory` | the queue's directory exists |
| `tempFile`, `queuesFile` | `queues.json.tmp`, `queues.json`: existing, completely written (`whole`), truncated and nothing written yet (`empty`), written by two at once (`shared`), and with which entries |
| `checkpoint[p]` | how far a process is in `CheckpointPersistentMessageQueues` |
| `call[c]` | how far a caller is in `CreateQueue` or `DeleteQueue`, and with which key |
| `fate[q]` | history: what the last caller was told of the queue |

A checkpoint is three steps, `BeginWrite` (the file is truncated), `EndWrite`,
and `Checkpointed` (`File.Move`) or `CheckpointThrows`; callers make it under the
exclusive lock, the heartbeat and `Stop` under the shared one, so those two can
overlap. `CreateQueue` takes `CreateQueue`, for a companion `CreateCompanion` and
`CompanionCheckpointEnds`, then `CreateCheckpointEnds`; any failure runs
`RollBack`. `DeleteQueue` takes `DeleteQueue` (the test of `_isRunning`),
`DeleteRegistered` or `DeleteMissing` or `DeleteTimesOut`,
`DeleteCheckpointEnds`, `DeleteCloses`, `DeleteDirectory`. `Stop` takes
`StopServer`, `StopSignals`, `StopCheckpointEnds`, `StopCloses`, `StopEnds`.
`Crash` may come at any step; `Start` reads the file, adds the ephemeral
companions and initializes the queues it lists. An empty file is an empty
registry (`CMqServer.cs:725`); with a half-written one the JSON reader throws and
there is no `Start`.

Abstractions: of a configuration only the two persistence schemes; of a
directory only whether it exists; queue names without `.dlq`, which the code
rejects; `PersistencePath` configured. `OpenFilesLocked` is the system's rule
that a file somebody has open can be neither opened for writing, moved nor
removed by another (Windows). The installers build the service for Linux too
(`Installers/Build and Compile Installers.bat:14`, `:17`; `Program.cs:44` is its
entry point there), where an open file can be moved and removed: runs and proofs
cover both values. The event `writeFailure` is a write that stops half-way.

The contract `QueueCatalogue` has one call at a time, and a copy of the catalogue
that is always the whole of its persistent queues at one moment; a creation or
deletion is confirmed in the step in which the copy has it.

| `QueueCatalogue` | `QueueRegistry` |
|---|---|
| `open` | `isUp` |
| `catalogue` | `config` |
| `busy` | the keys of the call that holds the lock (`InProgress`) |
| `saved` | the entries of `queues.json`; nothing, if it is half-written |
| `told` | `fate` |
| `Create`, `Join` | `CreateQueue`, `CreateCompanion` |
| `Settle`, `Created`, `Deleted` | the checkpoint of the companion, of the queue, of a deletion |
| `Withdraw`, `GiveUp` | a failing checkpoint or companion, a failing checkpoint of a deletion |
| `Exists`, `Refuse`, `Delete`, `Report` | `CreateExisting`, `CreateFailsToOpen`, `DeleteRegistered`, `DeleteMissing` and `DeleteOnStoppingServer` |
| `Copy` | a checkpoint of the heartbeat or of `Stop` |
| `Exit`, `Start` | `Exit`, `Start` |
| a stutter | the steps that open and write the temporary file, close and remove databases |

It also shows what the code does not promise: a creation that fails after its
companion was written leaves the companion (`Withdraw` takes back what is not
settled) and leaves itself in the copy, and a deletion that finds nothing
promises nothing (6.4).

### 2.5 ClientSubscriptions

| Variable | Code |
|---|---|
| `connection`, `linkUp`, `explicitlyDisconnected` | `RmClient`: its connection, a number, whether it is up, and `ExplicitlyDisconnected` |
| `registered` | `_subscriptions`: the subscription under the queue's name, or 0 |
| `buffered`, `messageBuffer` | by subscription: `CMqSubscription`, `_messageBuffer` |
| `bufferedDeliveryTask` | `BufferedDeliveryTaskProc` runs |
| `process[p]` | what an application thread, or the task of a reconnect, is doing |
| `subscribers`, `gone` | the server: the queue's `Subscribers`; connections whose `RmServer_OnDisconnected` has run |
| `requests` | queries sent and not handled |
| `delivery[m]` | where a message is between the queue and the client's handler |
| `handedOver`, `troubled` | history: messages the application has; some exception was reported to it |

`Subscribe` registers before it queries; `SubscribeEnds` starts the task, or
discards the subscription if it is still the one registered. A query is `Send`,
`HandleRequest` (the server's handler, which may refuse) and the answer;
`GivesUp` is a timeout or the end of the connection, after which the server may
still handle it. `Reconnect` starts a task, `Restore`, that queries for what is
registered by then. `Receive` looks the handler up and `Handle` invokes it, with
no lock in between. `TaskFlushes` hands over full batches, or all when the
interval has elapsed; `TaskEnds` is the last, forced, flush.

NTDLS.ReliableMessaging is outside the repository and taken by how it is used: a
query is handled at most once and not after the disconnect event of its
connection; its answer is lost with the connection. A delivery that fails puts
the message back: the queue's bookkeeping is `MessageQueue`'s.

## 3. What TLC checks

`Environment` and `Replies` choose which events and answers a run includes.
`QRRegistry` chooses the system in its initial state (`MCQueueRegistrySystems`).
On Linux its events are a crash, `Stop` and a write that stops half-way; whether a
file or a database opens is left to the Windows half, since it does not depend on
the system.

| Run | Question | Result |
|---|---|---|
| `MQAsynchronous` | two subscribers that come and go, two messages of a persistent queue with a buffer of one, two slots, purges, deferrals, failing stores, missed locks | `TypeOK`, `OutstandingIsExact`, `SingleDelivery`, `DepthIsExact`, `NothingStranded`, `AttemptsAccountedFor`, `CompletedNotRetried`, `GoneStaysGone`, `KeepsContract` hold |
| `MQSynchronous` | synchronous delivery to competing subscribers, expiry, explicit dead letters, exhausted attempts, a companion queue that is busy up to the exception limit | `InOrderPerSubscriber`, `FirstConsumerIsTheLast`, `DeadLetterInOnePlace` hold |
| `MQLiveness` | does every message leave, does Stop come to an end, and is it the end, but for calls that began before it? | `EveryMessageLeaves`, `StopCompletes`, `EndIsFinal` hold |
| `PSCrash` | two producers, four messages, two ends of the process | `TypeOK`, `DepthTracksDatabase`, `BufferIsPrefix`, `AcceptedIsStored`, `FirstComeFirstServed`, `KeepsDurability`, `StoredIsBuffered` hold |
| `QRRegistry` | two callers create and delete a queue with any companion, against the heartbeat, Stop, a crash and a restart: on Windows with files and databases that fail to open; on Linux with writes that stop half-way, as long as Stop's checkpoint does not meet the heartbeat's | `TypeOK`, `CreatedStaysCreated`, `DeletionIsDurable`, `EveryQueueRuns`, `KeepsCatalogue`, `CallsReturn`, `StopCompletes` hold |
| `CLSubscriptions` | an application thread against lost links, the reconnect, timeouts and refusals | `TypeOK`, `NoSilentLoss`, `BufferedIsHandedOver` hold |
| `MQStopLosesDeadLetter` | is a dead letter kept? | `DeadLettersKept` is violated (6.1) |
| `MQDiscardsUnsent` | are messages kept while there is nobody to receive them? | `NotDiscardedUnsent` is violated (6.2) |
| `MQFailedDeliveryDropped` | is a message that could not be delivered to somebody retained? | `FailedDeliveriesRetained` is violated (6.3) |
| `QRDeletedReturns` | does a deleted queue stay deleted? | `DeletedStaysDeleted` is violated (6.4) |
| `CLMessageDeclined` | does a message wait for a subscriber? | `NoMessageDeclined` is violated (6.5) |
| `QRTornFile` | do persistent queues survive a restart on Linux? | `QueuesSurviveRestart` is violated (6.6) |

`CHECK_DEADLOCK FALSE` appears where the system may stop: a queue whose thread
was ended by exceptions (`MQSynchronous`), a stopped server (`MQLiveness`,
`MQStopLosesDeadLetter`), a store, a registry or a client that has used up its
messages, calls, connections or restarts (`PSCrash`, `QR...`, `CL...`).

### 3.1 Bounds

| Bound | Value | Why it is enough |
|---|---|---|
| `MaxSerial` | 2 | two messages compete for a slot, for the one place in the buffer and for the order |
| `Subscriber` | 1 or 2 | the bookkeeping is per subscriber; two give one that answers and one that does not, or leaves |
| `MaxDeliveryAttempts` | 2 (1 in `MQAsynchronous`) | a first attempt, a retry and the limit; with 1, the deferral that `AttemptBound` still allows is already one beyond the limit |
| `AttemptBound` | 2 | caps attempts where the code has no limit: a deferral |
| `BufferSize`, `MinBuffer` | 1, 1 (2, 1 in `PSCrash`) | the buffer fills, empties and has to be refilled |
| `ExceptionLimit` | 1 (1000 in the code) | the thread survives one exception and ends at the second |
| `MaxMessages`, `MaxRestarts` of the store | 4, 2 | a number can be reused after each restart; a crash in a purge is followed by another |
| `Queue`, `Caller` | 1, 2 (1 in `QRDeletedReturns`, `QRTornFile`) | a queue and its companion share the file; two callers meet on both keys |
| `MaxCalls`, `MaxRestarts` of the registry | 3, 1 (1, 1 in `QRTornFile`) | create, delete and one more; what a restart finds is what the file held |
| `App`, `MaxSubscriptions`, `MaxConnections` | 1, 2, 2 (1, 1, 1 in the violations) | a subscription, its removal and a new one; a connection, its loss and the next, whose restore task races with the thread (several threads: the proof, 4.4) |
| `MaxMessages` of the client, `BatchSize` | 1, 2 | a batch that never fills, which only a flush can empty |

Every counter that can grow is bounded in a guard named above; none of the
bounds cuts off a step in progress except `AttemptBound`, which forbids a further
`Defer` or failure, never an answer the subscriber must be able to give. The
safety properties do not depend on the bounds: they are proved without them (4).

### 3.2 Fairness

`MessageQueue`:

* weak for the thread's unguarded steps and for `FinishDelivery`: tasks run on;
* weak for `Answer(m)`: a query ends in an answer or in the acknowledgement
  timeout, which the code counts as a failed delivery;
* weak for `DeferralElapses` and `SignalShutdown`: time passes, and `Stop` goes on
  to signal the queues;
* strong for `HydrateMessageBuffer`, `Pick`, `LockForDisposal` and `DisposeNext`:
  each is a try-lock that is made again in every pass, and nobody holds the lock
  across an `await`; it fails often, not for ever.

Nothing is assumed about clients. `EveryMessageLeaves` has its own hypothesis that
the queue keeps running and that from some time on it has a subscriber.
`AttemptBound` makes a subscriber stop deferring after a while: one that defers
for ever does keep its message in the queue for ever, because deferrals do not
count against the limit. One that fails or does not consume for ever is given up
on by the limit.

`PersistentStore`: weak for the producers, the purge, the restart and, once the
database is closed, the end of the process; strong for hydration (a try-lock
again); none for disposal. The request for a hydration is weakly fair only while
the queue is served and the buffer is below its minimum, since the thread looks
at neither the buffer nor the depth without a free slot (`SMQS:149`) and a
subscriber (`SMQS:159`). Nothing makes subscribers come or consume:
`StoredIsBuffered` has the hypothesis that from some time on the queue is always
served and that the buffer runs short again and again.

`QueueRegistry`: strong for the steps of a caller and of `Stop`, since they wait
for the registry's blocking lock, which is granted to whoever waits although the
heartbeat comes back every 30 seconds; weak for a checkpoint of the heartbeat.
Calls, `Stop`, crashes and restarts are free to happen or not. On Linux the fair
steps are those after which the two checkpoints do not meet.

`ClientSubscriptions`: weak for the threads, for the server's handling of
queries, for the receipt of a message and for the flush task, whose interval
elapses. The application's calls, the loss of a link, the reconnect and the
disconnect event are free.

## 4. What is proved

Every invariant and every action property that a passing run checks is proved
for all values of the constants, from the named `ASSUME` of its module alone
(finite sets of subscribers, producers or callers where they are counted,
natural numbers and Booleans as configuration, names that differ), but for the
hypotheses stated with a theorem. The bounds of 3.1 are arbitrary numbers in the
proofs. The three contracts are proved to be kept, step by step, and to imply what
matters most (4.6). Of the six violated properties each has a theorem too, which
says when it does hold (4.5).

| Theorem | Property | Hypothesis |
|---|---|---|
| `MessageQueueProofs!TypeCorrect` | `TypeOK` | |
| `MessageQueueProofs!OutstandingIsCounted` | `OutstandingIsExact` | |
| `MessageQueueProofs!DepthIsCounted` | `DepthIsExact` | |
| `MessageQueueProofs!DeliveredOnceAtATime` | `SingleDelivery` | |
| `MessageQueueProofs!HydrationMissesNothing` | `NothingStranded` | |
| `MessageQueueProofs!NeverRetriedWhenCompleted` | `CompletedNotRetried` | |
| `MessageQueueProofs!NoAttemptAfterFirstConsumer` | `FirstConsumerIsTheLast` | |
| `MessageQueueProofs!GoneForGood` | `GoneStaysGone` | |
| `MessageQueueProofs!NothingAfterTheEnd` | `EndIsFinal` | |
| `MessageQueueConditions!AttemptsBounded` | `AttemptsAccountedFor` | |
| `MessageQueueConditions!LimitRespected` | `AttemptsWithinLimit` | nobody answers `Defer` |
| `MessageQueueConditions!DeadLettersAreKept` | `DeadLetterInOnePlace` | no purge, no stop, the companion is not deleted |
| `MessageQueueConditions!SentInOrder` | `InOrderPerSubscriber` | synchronous delivery, no deferrals |
| `MessageQueueConditions!LostOnlyWhenStopping` | `DeadLettersKept` | no stop |
| `MessageQueueConditions!DiscardedOnlyWhenSent` | `NotDiscardedUnsent` | no subscriber goes away |
| `MessageQueueConditions!GivenUpAreRetained` | `FailedDeliveriesRetained` | see 4.5 |
| `MessageQueueRefinement!ContractKept` | `KeepsContract` | |
| `MessageQueueRefinement!ContractMakesReliable` | `GoneStaysGone`, `Promised` | the contract `KeepsContract` alone (4.6) |
| `PersistentStoreProofs!TypeCorrect` | `TypeOK` | |
| `PersistentStoreProofs!DepthIsTracked` | `DepthTracksDatabase` | |
| `PersistentStoreProofs!BufferIsTheHead` | `BufferIsPrefix` | |
| `PersistentStoreProofs!NothingAcceptedIsLost` | `AcceptedIsStored` | |
| `PersistentStoreRefinement!OrderIsFirstCome` | `FirstComeFirstServed` | |
| `PersistentStoreRefinement!DurabilityKept` | `KeepsDurability` | |
| `PersistentStoreRefinement!ContractIsFirstCome` | `AcceptedIsStored`, `FirstComeFirstServed` | the contract `KeepsDurability` and `TypeOK` alone (4.6) |
| `QueueRegistryProofs!TypeCorrect` | `TypeOK` | |
| `QueueRegistryProofs!QueuesRun` | `EveryQueueRuns` | |
| `QueueRegistryProofs!CreatedSurvives` | `CreatedStaysCreated` | `[]CheckpointsAreSafe` (4.3) |
| `QueueRegistryProofs!DeletionSurvives` | `DeletionIsDurable` | `[]CheckpointsAreSafe` (4.3) |
| `QueueRegistryProofs!DeletedForGood` | `DeletedStaysDeleted` | `FilesAreReliable` |
| `QueueRegistryRefinement!CatalogueKept` | `KeepsCatalogue` | `[]CheckpointsAreSafe` (4.3) |
| `QueueRegistryRefinement!CatalogueKeepsItsWord` | `CreatedStaysCreated`, deleted queues | the contract `KeepsCatalogue` alone (4.6) |
| `ClientSubscriptionsProofs!TypeCorrect` | `TypeOK` | |
| `ClientSubscriptionsProofs!NothingLostSilently` | `NoSilentLoss` | |
| `ClientSubscriptionsProofs!DeclinedOnlyWhenRemoved` | `NoMessageDeclined` | the application calls neither `Unsubscribe` nor `Connect` |
| `ClientSubscriptionsProofs!ConsumedReachesApplication` | `ConsumedIsHandedOver` | what is registered stays so, and `BufferedIsHandedOver` |

### 4.1 MessageQueue

All rest on `Invariance`: `IInv` is inductive. Its parts and why each is needed:

* `TypeOK` and `OnlyIssued`: nothing is stored, buffered, in flight or held by the
  thread beyond the last serial number, so Enqueue adds one message to the depth.
* `EphemeralHasNoDatabase`, `NothingStranded`, `DepthIsExact`: the depth counts
  the queue only because the buffer is part of the database; the disposal loop's
  test that the message is still buffered then keeps the counter in step.
* `SingleDelivery` with `ThreadHoldsSlot`: between `Pick` and `Dispatch` the
  thread owns a message that is `Ready` and a slot that is not counted yet;
  without this the limit is not inductive.
* `OutstandingIsExact`: the counter, the running deliveries and the returning
  ones.
* `DeliverySane`: a message without an awaited subscriber has no delivery; the
  awaited and the pending subscribers of a delivery have not completed the
  message, although the snapshot they come from is older than the answers.
* `ConsumedIsDropped`: with `FirstConsumedSubscriber`, a consumed message is in
  state `Drop`, so nothing picks it again.

The argument for the deliveries is made once: `ProceedIsStep` and the lemmas
beside it show that every answer is a `DeliveryStep` (one delivery returns or
goes on to one more subscriber of its snapshot), `DeliveryStepKeeps` that such a
step keeps `IInv`, and `HowMessagesChange` what any step at all may do to a
message, from which the action properties follow (with `HistoryInvariance`, which
adds `UnissuedIsNew`: a message that was not enqueued yet carries no attempts and
no answers, so that Enqueue, which resets the record, resets nothing).

The conditions of `MessageQueueConditions` are what the code needs:

* `LimitInv`: a subscriber at the limit (`Limit`: the configured one and one for
  each deferral of the message) is done with the message, is being asked for the
  last time, or the message is on its way out. `AttemptsBounded` has no
  hypothesis; `LimitRespected` is the same without deferrals (`NoDeferrals`),
  which is what the documentation claims with them (6, "also seen").
* `PlaceInv`: what is worked on is in the queue, what is moved leaves at once,
  only finished messages are disposed of. A purge takes dead letters with it; a
  message that is out during a purge is a dead letter of no queue; `Stop` and a
  deleted companion lose them (6.1).
* `OrderInv`: one delivery at a time, and everything before its message is
  finished. With a second delivery, or a message that was put back with a
  deferral, later messages overtake.

`ContractKept` shows each step to be the one of 2.2. It uses `IInv` for the
number of messages that are out and `DeliverySane` for the next subscriber.

`NothingAfterTheEnd` is the safety half of what `WaitForShutdown` promises
`DeleteQueue`, `Stop` and the roll-back, which close the database next: no
delivery, no late answer and no pass of the thread is left to touch it. What may
still come is a call that passed the test of the flag before `Stop`, which
`EndIsFinal` allows in two forms: one more message, counted and stored, or a
purge. It follows from `OutstandingIsExact`: when the counter is zero nothing is in flight
and nothing is returning, so neither a late answer nor a `finally` block is left,
and the thread has ended.

### 4.2 PersistentStore

`SInv` adds to the properties: the stored keys are a function
(`DatabaseIsFunction`); nothing in memory outlives the process (`MemoryIsLost`);
every stored key has been issued, and no more numbers are used than messages
were sent (`NumbersAreIssued`); the numbers of producers in progress differ,
are above the buffer and free until stored (`NumbersAreApart`), which is why
hydration, alone with the lock, cannot run past a number that is stored later;
a purge is alone (`PurgeIsAlone`). What a hydration loads is described by ranks
of keys; that each rank up to the number of keys found is the rank of exactly
one key follows from the well-foundedness of the naturals.

`OInv` adds, for the contract: a message is sent by one call and is stored once,
under one key (`IdsAreIssued`, `IdsAreApart`), and a number that was taken is
above the keys of everything that was accepted before the call began, although
its record is not written yet (`EarlierIsAhead`). The last is what a step of
`Store` needs to place its message lawfully, and it is not obvious across a
crash: the counter is rebuilt from the keys that are left, and the newest may
have been removed. A number may then be issued twice, but never below a message
that is still stored. `Place` is the step with an argument of its own: the
messages with smaller keys are a beginning of the queue that has in it
everything accepted earlier.

### 4.3 QueueRegistry

`LInv` is the discipline of the lock: who is in a locked step is the writer,
checkpoints of others exclude it (`CallsHoldLock`), and without a process there
is no registry (`NothingInMemory`). `RInv` adds that every queue runs or is on
its way by the one caller that holds the lock. `FInv` is about the file: what is
about to be moved is whole and is the registry's list (`TempIsReady`), two never
write at once (`OneWriter`), and what a caller was told, the registry and the
file agree (`Remembers`).

`CheckpointsAreSafe` is a state predicate: of the heartbeat and `Stop` at most
one is in a checkpoint (`NoOverlap`), or open files are locked and a write, once
begun, is completed. The theorems are about every behaviour in which it always
holds, with `Stop`, crashes, restarts, failing files and, on either system,
writes that stop half-way; no operation is excluded, only the moment at which the
two checkpoints meet. Between all others the registry's lock does what is needed
(`Alone`, `AFileIsWrittenByOne`). The hypothesis is needed: `Stop`
checkpoints under the shared lock as the heartbeat does, both with the same
temporary file. If one of them moves the file the other is writing, or finds its
own overwritten by a write that failed half-way, `queues.json` is half-written.
The code sees to none of this: 6.6 is what happens on Linux. On Windows the
hypothesis holds unless a write stops half-way; the Windows half of `QRRegistry`
lets the two checkpoints meet.

`CatalogueKept` has the same hypothesis and needs little more: a queue is in the
registry while it is being created (`CreatedIsThere`), so that `Created`,
`Settle` and `Withdraw` are about something; and, since `CreateExisting` confirms
a queue without writing, that `queues.json` has a confirmed queue with the very
configuration it has in the registry (the last conjunct of `Remembers`).

### 4.4 ClientSubscriptions

`CInv`: a query that is not handled belongs to an open connection and to a
caller that waits or is about to report (`RequestsAreOpen`); one thread at a
time connects, after an explicit disconnect (`ConnectIsAlone`); the task of a
reconnect to come is idle (`TasksAreFresh`); and a connected client that was told
of no exception is subscribed, or some thread or task will subscribe it,
unregister it or report (`SubscribedOrOnItsWay`). The theorems hold for any
number of application threads, where the run has one.

### 4.5 When the violated properties hold

A counterexample shows that a property fails, and a theorem with a hypothesis
how narrow the failure is: the finding needs what the hypothesis excludes. In 6.1
to 6.5 each event excluded is needed: TLC finds a violation when any one of them
is put back (for 6.3 with `unsubscribe` it takes three subscribers; for 6.4 the
failing checkpoint goes with a crash).

| Finding | Theorem | Hypothesis | Argument |
|---|---|---|---|
| 6.1 | `LostOnlyWhenStopping` | no `stop` | a disposal that gets past the companion has moved the message or found no companion; purges, a companion that is deleted, missed locks and moves that throw are all allowed |
| 6.2 | `DiscardedOnlyWhenSent` | no `unsubscribe`, which stands for a lost connection too | `SentInv`: whom the thread picked the message for is still there at `Dispatch` (`HeldForSomebody`), and whoever is asked or done was sent it (`AskedWereSent`) |
| 6.3 | `GivenUpAreRetained` | every subscriber answers for itself (no `FirstConsumedSubscriber`); no `Drop` and no exception among the answers; nobody unsubscribes; no store fails; no stop | `RetainInv`: a delivery asks present subscribers and has no failed one, a message that is `Ready` again has somebody left to ask (`Settled`), and so the branch of `SMQS:324` is not reached |
| 6.4 | `DeletedForGood` | `FilesAreReliable`: no `stop`, and no checkpoint that fails | `GInv`: the temporary file a checkpoint moves exists, and what is listed in `queues.json` is in the registry or its deletion is under way (`GoneFor`); crashes at any step, databases that do not open and directories that cannot be removed are allowed |
| 6.5 | `DeclinedOnlyWhenRemoved` | no `Unsubscribe` and no `Connect` by the application | `KeptInv`: nothing has asked the server for messages before a handler is registered or an exception was reported; any number of threads, drops, reconnects, timeouts and refusals |
| 6.6 | `CreatedSurvives` | `[]CheckpointsAreSafe`: the two checkpoints do not meet | 4.3; `CreatedStaysCreated` contains `QueuesSurviveRestart` |
| attempt limit | `LimitRespected` | no `Defer` among the answers | 4.1; about `AttemptsWithinLimit` |
| order | `SentInOrder` | synchronous delivery, no deferrals | `OrderInv` |
| stranded batch | `ConsumedReachesApplication` | what is registered stays registered, and the flush task does its work (`BufferedIsHandedOver`, which `CLSubscriptions` checks) | `HandInv`: the handler that was looked up is the registered one (`HeldForRegistered`), and what was consumed is with the application or in the buffer of that subscription (`ConsumedIsKept`) |

The last three are about divergences that are not runs ("also seen" in 6).
`ConsumedIsHandedOver`, of the stranded batch, is a liveness property: the theorem
reduces it to the one about the flush task, which is only model-checked. In 6.5
`Connect` is there because it clears the registrations: a restore task of the old
connection, or a second thread's `Subscribe` on its way, can then subscribe the
new connection without a handler.

### 4.6 What the contracts are worth

A refinement says as much as its abstract specification does. Three theorems say
what follows from the contracts without `Spec`, and so of any implementation of
them, another buffer, another lock or another order of the steps included. They
are proved from the contracts' actions only, with invariants of the contracts.

* `ContractMakesReliable`, from `ReliableQueue` (`PromiseInv`): what left the
  queue stays gone, no dead letter is in the queue, the deliveries that are out
  are never more than `MaxOutstandingDeliveries`, and each asks one subscriber,
  which is not done with the message.
* `ContractIsFirstCome`, from `DurableQueue` (`DInv`): the stored messages are
  always in one line (`QueueIsALine`), a message is accepted once and kept until
  removed (`AcceptedOnce`), and everything that was accepted before its call
  began is ahead of it (`EarlierComesFirst`). `TypeOK` is a hypothesis because a
  contract does not say what its implementation stores; `TypeCorrect` proves it.
* `CatalogueKeepsItsWord`, from `QueueCatalogue` (`PromiseInv`): what a caller
  was told is in `queues.json` and, while there is a process, in its registry.
  Crashes are among the contract's steps. `CheckpointsAreSafe` is needed for
  `CatalogueKept`, not here.

`SingleDelivery`, `DepthIsExact` and `BufferIsPrefix` do not follow from a
contract: they are about the implementation.

## 5. What is only model-checked

Liveness: `EveryMessageLeaves` and `StopCompletes` of `MessageQueue`,
`StoredIsBuffered`, `CallsReturn` and `StopCompletes` of `QueueRegistry`,
`BufferedIsHandedOver`. The prover has no support for fairness and `ENABLED`.
The violated properties of section 6 are shown by their counterexamples; 4.5
proves the conditions under which they hold.

## 6. Where code and documentation disagree

1. **A stopping server loses a dead letter** (`MQStopLosesDeadLetter`).
   `MoveMessageToDeadLetter` (`CMqServer.cs:900`) loops `while (_isRunning)`; when
   `Stop` has cleared the flag it returns without having moved anything, and the
   disposal loop removes the message from buffer and database.
2. **A message nobody was sent is dead-lettered** (`MQDiscardsUnsent`). The check
   that the queue has subscribers (`SMQS:157`, "so that we do not discard
   messages") is made under locks that are released before the delivery reads
   the subscribers again (`SMQS:322`).
3. **A failed delivery is dropped** (`MQFailedDeliveryDropped`). When the last
   attempts of the remaining subscriber fail with exceptions, the message returns
   to `Ready` with nobody left to try; the next pass drops it (`SMQS:328`) because
   somebody else has consumed it, although `SMQS:488` wants a copy retained. The
   comment at `SMQS:324` says the flow "should not allow us to ever get here".
4. **A deleted queue returns** (`QRDeletedReturns`). The roll-back of a creation
   (`CMqServer.cs:1062`) restores the registry and not the file, which the
   companion's checkpoint wrote with the new queue in it. A deletion finds
   nothing, checkpoints nothing and reports success; after a crash `Start` brings
   the queue back. The test `ServerRestart.cs:184`: "a deleted queue stays
   deleted."
5. **A message is declined by a client that is still listed**
   (`CLMessageDeclined`). One that is on its way when `Unsubscribe` removes the
   handler is answered `NotInterested` (`CMqClient.cs:236`), which ends its
   delivery to this subscriber, and with no other subscriber it is used up,
   whereas `QueueOperations.cs:412` says a message "waits for a subscriber rather
   than being lost".
6. **A restart finds no queues** (`QRTornFile`, where open files are not locked).
   `Stop` and the heartbeat checkpoint under the shared lock (`CMqServer.cs:188`,
   `:874`) with one temporary file. `Stop` moves the file the heartbeat has just
   truncated (`CMqServer.cs:215`, `:216`) and the process ends before the heartbeat
   writes; `Start` takes the empty file for an empty registry (`CMqServer.cs:725`),
   whereas `ServerRestart.cs:33` says "persistent queues and their waiting messages
   survive". No crash is needed. The window is short: a heartbeat checkpoint, every
   30 seconds, has to begin while `Stop` is between its write and its move.

Also seen:

* `CMqQueueConfiguration.cs:69` says the attempt limit "includes deferred
  deliveries"; the `Defer` branch (`SMQS:426`) returns before the limit is looked
  at (`SMQS:456`), so a deferral at the limit is followed by one more attempt:
  TLC finds `AttemptsWithinLimit` violated as soon as `Defer` is an answer. What
  does hold, with deferrals, is `AttemptsAccountedFor`; `LimitRespected` is the
  documented limit without them.
* `CMqQueueConfiguration.cs:49` says of asynchronous delivery, the default, that
  messages "are still delivered in order per subscriber"; each message has a task
  of its own (`SMQS:195`) that visits the subscribers one after the other, so the
  second message reaches a subscriber that the first has yet to reach. The order
  holds with synchronous delivery (`InOrderPerSubscriber`, `SentInOrder`).
* A partial batch is stranded: what is in the buffer of a subscription that
  `Unsubscribe` removes (`CMqClient.cs:611`) is consumed for the server and never
  handed over, whereas `CMqClient.cs:368` promises delivery at the batch size or
  the flush interval. `ConsumedIsHandedOver` is the promise, and
  `ConsumedReachesApplication` says when it is kept.
* `MaxMessageAge` of zero is documented as infinite and expires every message
  (`SMQS:112`).
* After a restart the serial number of a removed newest message is issued again
  (`SMQS:621`); messages are identified to clients by `MessageId`, not by it.
* `Start` adds the ephemeral companion of a persistent queue to the registry and
  nobody initializes it (`CMqServer.cs:753`): it accepts messages and delivers
  none. `NeverInitialized` is the exception `EveryQueueRuns` makes for it.
* A failed checkpoint of `DeleteQueue` leaves a database open that nobody closes
  (`CMqServer.cs:1112`), one of `Stop` all of them (`CMqServer.cs:874`); a
  `CreateQueue` after `Stop`'s signal leaves a running queue (`CMqServer.cs:876`).
* `Connect` clears buffers whose messages were consumed (`CMqClient.cs:247`), and
  registrations that a restore task or another thread's `Subscribe` may be about
  to subscribe at the server (4.5).
* A query of `Subscribe` that times out may still be handled and leaves a
  subscriber without a handler until the connection ends; `NoSilentLoss` is about
  clients that were told of no exception.

## 7. Not modelled

* **Locks.** Who waits on whom, and the order in which `TryReadAll` and
  `TryWriteAll` ask, is inside NTDLS.Semaphore, which is not in the repository.
  The modules have the outcomes: a try-lock fails or is granted, the registry's
  blocking lock is granted at last.
* A `Remove` that throws after the copy was stored in the companion queue
  (`SMQS:236`), and the flush outside the `try` block (`SMQS:85`): listed as
  hazards.
* The messages in a queue's directory when a queue of the same name is created
  while `DeleteQueue` removes it: `QueueRegistry` has the step and no messages.
* Query handlers other than those of Subscribe and Unsubscribe, Enqueue and
  Purge: each forwards one request and keeps nothing.
* Statistics and their history, serialization, caching, instrumentation, the
  service host, the REST API and the management pages with their scripts
  (`src/CatMQ.Service/wwwroot`, most of it vendored libraries): conversions,
  counters and presentation without a protocol.

## 8. Plan

Done: queue delivery, store, registry and client with their proofs, three
contracts with their refinements and what follows from them, and the conditions
of the findings. What could follow:

1. A refinement of the Enqueue step of `MessageQueue` by `PersistentStore`, which
   is argued in 2.1 and not checked.
2. The lock order, if the semaphore library comes into the repository.
