---------------------------- MODULE QueueRegistry ----------------------------
(***************************************************************************)
(* The registry of queues of CMqServer: CreateQueue with the companion     *)
(* (dead-letter) queue and the roll-back, DeleteQueue, the heartbeat's and *)
(* Stop's checkpoints of queues.json, Stop, and Start on what a stop or a  *)
(* crash left on disk.                                                     *)
(*                                                                         *)
(* Abstractions.  Of a queue's configuration only the two persistence      *)
(* schemes are kept, and of its directory whether it exists.  The registry *)
(* lock (OptimisticCriticalResource) is held exclusively by the caller     *)
(* "writer" and shared by a process that is checkpointing.  Every process  *)
(* of the service is a new CMqServer.  PersistencePath is configured.      *)
(***************************************************************************)
EXTENDS Integers, FiniteSets

CONSTANTS
    Queue,           \* names of queues that CreateQueue accepts
    Caller,          \* threads that create and delete queues
    Nobody,          \* no caller and no key
    Config,          \* the configurations CreateQueue may be called with
    Environment,     \* the events of the environment that may happen
    OpenFilesLocked, \* a file that is written is nobody else's to open for
                     \* writing or to move: TRUE on Windows, not on Linux
    MaxCalls,        \* BOUND on the calls of CreateQueue and DeleteQueue
    MaxRestarts      \* BOUND on the number of restarts

Scheme == {"Persistent", "Ephemeral"}
AnyConfig == [scheme: Scheme, deadLetter: Scheme \cup {"None"}]
NoConfig == [scheme |-> "None", deadLetter |-> "None"]
Event == {"crash", "stop", "fileFailure", "writeFailure", "openFailure",
          "removeFailure"}

DeadLetterOf(q) == <<q, "dlq">>
Key == Queue \cup {DeadLetterOf(q) : q \in Queue}

\* "Queue names cannot end with '.dlq'."
ASSUME RegistryAssumption ==
    /\ IsFiniteSet(Caller) /\ Caller \cap {Nobody, "heartbeat", "stop"} = {}
    /\ \A q \in Queue : DeadLetterOf(q) \notin Queue
    /\ Config \subseteq AnyConfig /\ Environment \subseteq Event
    /\ OpenFilesLocked \in BOOLEAN
    /\ MaxCalls \in Nat /\ MaxRestarts \in Nat

\* CMqDeadLetterQueueConfiguration.ToConfiguration
ToConfiguration(cfg) == [scheme |-> cfg.deadLetter, deadLetter |-> "None"]

Process == Caller \cup {"heartbeat", "stop"}

\* "created" is in the registry with its thread not started.
QueueState == {"none", "created", "failed", "running", "stopped"}

\* Who has the RocksDB of a path open: the queue in the registry, one that
\* DeleteQueue is closing, or one that nobody will close.
Owner == {"closed", "listed", "leaving", "orphan"}

\* "empty": nobody has finished writing it since it was truncated;
\* "shared": two processes have been writing it at once.
File == [exists: BOOLEAN, whole: BOOLEAN, empty: BOOLEAN, shared: BOOLEAN,
         entries: [Key -> AnyConfig \cup {NoConfig}]]

Step == {"idle", "companion", "companionCheckpoint", "checkpoint",
         "deleteWant", "deleteCheckpoint", "close", "directory"}

\* A checkpoint opens queues.json.tmp, writes it and moves it; its handle may
\* meanwhile have become one of queues.json.
Phase == {"none", "open", "write", "writeMoved", "move"}

Fate == {"unknown", "created", "failed", "deleted", "reported"}

VARIABLES
    isUp,                  \* the process exists
    isRunning,             \* CMqServer._isRunning
    writer,                \* who holds the registry exclusively
    config, state,         \* _messageQueues, by key
    database, directory,   \* by key
    tempFile, queuesFile,
    checkpoint,            \* by process
    call,                  \* by caller: what it does, and to which queue
    stopping,              \* how far Stop is
    fate,                  \* history: what the last caller was told of a queue
    calls, restarts        \* counters that are bounded

registry == <<config, state>>
disk == <<directory, tempFile, queuesFile>>
server == <<isUp, isRunning, stopping>>
counters == <<calls, restarts>>
vars == <<server, writer, registry, database, disk, checkpoint, call, fate,
          counters>>

Idle == [step |-> "idle", key |-> Nobody]
NoFile == [exists |-> FALSE, whole |-> TRUE, empty |-> FALSE,
           shared |-> FALSE, entries |-> [k \in Key |-> NoConfig]]

Init ==
    /\ isUp = TRUE /\ isRunning = TRUE /\ stopping = "no"
    /\ writer = Nobody
    /\ config = [k \in Key |-> NoConfig] /\ state = [k \in Key |-> "none"]
    /\ database = [k \in Key |-> "closed"]
    /\ directory = [k \in Key |-> FALSE]
    /\ tempFile = NoFile /\ queuesFile = NoFile
    /\ checkpoint = [p \in Process |-> "none"]
    /\ call = [c \in Caller |-> Idle]
    /\ fate = [q \in Queue |-> "unknown"]
    /\ calls = 0 /\ restarts = 0

Registered(k) == config[k] # NoConfig
Persists(cfg) == cfg.scheme = "Persistent"

\* Mutant of NoReader: the heartbeat does not hold the registry while it writes.
NoReaderButStop == checkpoint["stop"] = "none"

NoReader == checkpoint["heartbeat"] = "none" /\ checkpoint["stop"] = "none"

LockFree == writer = Nobody /\ NoReader

Add(k, cfg, s) ==
    /\ config' = [config EXCEPT ![k] = cfg]
    /\ state' = [state EXCEPT ![k] = s]

Remove(k) == Add(k, NoConfig, "none")

At(c, step) == call[c].step = step
Goto(c, step) == call' = [call EXCEPT ![c].step = step]
Return(c) == call' = [call EXCEPT ![c] = Idle]

-----------------------------------------------------------------------------
(* CheckpointPersistentMessageQueues, under the registry lock.             *)

\* Mutant of Persisted: the entries of the previous file are kept.
PersistedMerged ==
    [k \in Key |-> IF Persists(config[k]) THEN config[k]
                   ELSE queuesFile.entries[k]]

\* What the file is to hold: the persistent queues and their configurations.
Persisted == [k \in Key |-> IF Persists(config[k]) THEN config[k] ELSE NoConfig]

Others(p) == Process \ {p}
TempIsOpen(p) == \E o \in Others(p) : checkpoint[o] = "write"

Truncated(p) == [tempFile EXCEPT !.exists = TRUE, !.whole = FALSE,
                                 !.empty = TRUE, !.shared = TempIsOpen(p)]

\* Mutant of OpenTemp: queues.json is written in place.
OpenTempInPlace(p) ==
    /\ checkpoint[p] = "open" /\ (TempIsOpen(p) => ~OpenFilesLocked)
    /\ queuesFile' = [queuesFile EXCEPT !.whole = FALSE, !.empty = TRUE]
    /\ tempFile' = Truncated(p)

\* File.WriteAllText truncates the file first.  It asks that nobody else write
\* the file (FileShare.Read), which Linux does not enforce between writers.
OpenTemp(p) ==
    /\ checkpoint[p] = "open" /\ (TempIsOpen(p) => ~OpenFilesLocked)
    /\ tempFile' = Truncated(p)
    /\ UNCHANGED queuesFile

BeginWrite(p) ==
    /\ isUp
    /\ OpenTemp(p)
    /\ checkpoint' = [checkpoint EXCEPT ![p] = "write"]
    /\ UNCHANGED <<server, writer, registry, database, directory, call, fate,
                   counters>>

\* The statistics of the queues go on changing: two texts of different length
\* written over each other are whole or not.
Written(file) ==
    {[file EXCEPT !.whole = whole, !.empty = FALSE, !.entries = Persisted] :
        whole \in IF file.shared THEN BOOLEAN ELSE {TRUE}}

EndWrite(p) ==
    /\ isUp
    /\ \/ /\ checkpoint[p] = "write"
          /\ tempFile' \in Written(tempFile) /\ UNCHANGED queuesFile
       \/ /\ checkpoint[p] = "writeMoved"
          /\ queuesFile' \in Written(queuesFile) /\ UNCHANGED tempFile
    /\ checkpoint' = [checkpoint EXCEPT ![p] = "move"]
    /\ UNCHANGED <<server, writer, registry, database, directory, call, fate,
                   counters>>

\* File.Move(tempfileName, fileName, overwrite: true)
Checkpointed(p, next) ==
    /\ isUp
    /\ checkpoint[p] = "move" /\ tempFile.exists
    /\ TempIsOpen(p) => ~OpenFilesLocked
    /\ queuesFile' = tempFile
    /\ tempFile' = [tempFile EXCEPT !.exists = FALSE]
    /\ checkpoint' = [o \in Process |->
           IF o = p THEN next
           ELSE IF checkpoint[o] = "write" THEN "writeMoved" ELSE checkpoint[o]]

\* The file cannot be created or moved, or the write stops half-way.
FailsAt(event) ==
    CASE event = "fileFailure" -> {"open", "move"}
      [] event = "writeFailure" -> {"write", "writeMoved"}
      [] OTHER -> {}

\* The temporary file is in use or was moved by the other, or the disk fails.
CheckpointThrows(p) ==
    /\ isUp
    /\ \/ checkpoint[p] = "open" /\ TempIsOpen(p)
       \/ checkpoint[p] = "move" /\ ~tempFile.exists
       \/ checkpoint[p] = "move" /\ TempIsOpen(p) /\ OpenFilesLocked
       \/ \E event \in Environment : checkpoint[p] \in FailsAt(event)
    /\ checkpoint' = [checkpoint EXCEPT ![p] = "none"]
    /\ UNCHANGED <<tempFile, queuesFile>>

\* The 30-second checkpoint of HeartbeatThread; an exception is logged.
HeartbeatCheckpoint ==
    /\ isUp /\ isRunning /\ writer = Nobody
    /\ checkpoint["heartbeat"] = "none"
    /\ checkpoint' = [checkpoint EXCEPT !["heartbeat"] = "open"]
    /\ UNCHANGED <<server, writer, registry, database, disk, call, fate,
                   counters>>

HeartbeatCheckpointEnds ==
    /\ Checkpointed("heartbeat", "none") \/ CheckpointThrows("heartbeat")
    /\ UNCHANGED <<server, writer, registry, database, directory, call, fate,
                   counters>>

-----------------------------------------------------------------------------
(* CreateQueue: the registry is held from the look-up to the start of the  *)
(* queue's thread.                                                         *)

\* InitializePersistentDatabase: the directory is made before the database is
\* opened, which one process can do once at a time.
Opens(k, cfg) ==
    IF Persists(cfg)
    THEN /\ database[k] = "closed"
         /\ database' = [database EXCEPT ![k] = "listed"]
         /\ directory' = [directory EXCEPT ![k] = TRUE]
    ELSE UNCHANGED <<database, directory>>

OpenFails(k, cfg) ==
    /\ Persists(cfg)
    /\ database[k] # "closed" \/ "openFailure" \in Environment
    /\ directory' = [directory EXCEPT ![k] = TRUE]

Call(c) ==
    /\ isUp /\ At(c, "idle") /\ calls < MaxCalls
    /\ calls' = calls + 1 /\ UNCHANGED restarts

Told(q, what) == fate' = [fate EXCEPT ![q] = what]

\* An ephemeral queue does not outlive the process: nothing to remember.
ToldCreated(q, cfg) == Told(q, IF Persists(cfg) THEN "created" ELSE "unknown")

CreateExisting(c, q) ==
    /\ Call(c) /\ LockFree /\ Registered(q)
    /\ ToldCreated(q, config[q])
    /\ UNCHANGED <<server, writer, registry, database, disk, checkpoint, call>>

CreateFailsToOpen(c, q, cfg) ==
    /\ Call(c) /\ LockFree /\ ~Registered(q)
    /\ OpenFails(q, cfg)
    /\ Told(q, "failed")
    /\ UNCHANGED <<server, writer, registry, database, tempFile, queuesFile,
                   checkpoint, call>>

CreateQueue(c, q, cfg) ==
    /\ Call(c) /\ LockFree /\ ~Registered(q)
    /\ Opens(q, cfg)
    /\ Add(q, cfg, "created")
    /\ writer' = c
    /\ IF cfg.deadLetter = "None"
       THEN /\ call' = [call EXCEPT ![c] = [step |-> "checkpoint", key |-> q]]
            /\ checkpoint' = [checkpoint EXCEPT ![c] = "open"]
       ELSE /\ call' = [call EXCEPT ![c] = [step |-> "companion", key |-> q]]
            /\ UNCHANGED checkpoint
    /\ Told(q, "unknown")
    /\ UNCHANGED <<server, tempFile, queuesFile>>

Take(c, step, k) == call' = [call EXCEPT ![c] = [step |-> step, key |-> k]]

\* WaitForShutdown disposes of the database of the queues in S.
Close(S) == database' = [k \in Key |->
                IF k \in S /\ database[k] = "listed" THEN "closed"
                ELSE database[k]]

\* Mutant of RollBack: the queue stays in the registry.
RollBackCloses(S) == Close(S) /\ UNCHANGED registry

\* Mutant of RollBack: a companion is taken back too, whoever created it.
RollBackBoth(S) ==
    LET both == S \cup {DeadLetterOf(q) : q \in S \cap Queue} IN
    /\ config' = [k \in Key |-> IF k \in both THEN NoConfig ELSE config[k]]
    /\ state' = [k \in Key |-> IF k \in both THEN "none" ELSE state[k]]
    /\ Close(both)

\* The catch block: the queue is taken back and its database closed.
RollBack(S) ==
    /\ config' = [k \in Key |-> IF k \in S THEN NoConfig ELSE config[k]]
    /\ state' = [k \in Key |-> IF k \in S THEN "none" ELSE state[k]]
    /\ Close(S)

\* Mutant of CreateEnds: the lock is not released when the call throws.
CreateEndsLocked(c, what) ==
    /\ Return(c) /\ writer' = (IF what = "failed" THEN writer ELSE Nobody)
    /\ IF what = "created" THEN ToldCreated(call[c].key, config[call[c].key])
                           ELSE Told(call[c].key, what)

CreateEnds(c, what) ==
    /\ Return(c) /\ writer' = Nobody
    /\ IF what = "created" THEN ToldCreated(call[c].key, config[call[c].key])
                           ELSE Told(call[c].key, what)

CreateCompanion(c) ==
    /\ isUp /\ At(c, "companion")
    /\ LET q == call[c].key
           dlq == DeadLetterOf(q)
           cfg == ToConfiguration(config[q])
       IN \/ /\ Registered(dlq)
             /\ Goto(c, "checkpoint")
             /\ checkpoint' = [checkpoint EXCEPT ![c] = "open"]
             /\ UNCHANGED <<registry, database, directory, fate, writer>>
          \/ /\ ~Registered(dlq) /\ Opens(dlq, cfg)
             /\ Add(dlq, cfg, "created")
             /\ Goto(c, "companionCheckpoint")
             /\ checkpoint' = [checkpoint EXCEPT ![c] = "open"]
             /\ UNCHANGED <<fate, writer>>
          \/ /\ ~Registered(dlq) /\ OpenFails(dlq, cfg)
             /\ RollBack({q}) /\ CreateEnds(c, "failed")
             /\ UNCHANGED checkpoint
    /\ UNCHANGED <<server, tempFile, queuesFile, counters>>

\* The first checkpoint already lists the queue that is being created; its
\* failure takes both back.
CompanionCheckpointEnds(c) ==
    /\ At(c, "companionCheckpoint")
    /\ LET q == call[c].key IN
       \/ /\ Checkpointed(c, "open")
          /\ state' = [state EXCEPT ![DeadLetterOf(q)] = "running"]
          /\ Goto(c, "checkpoint")
          /\ UNCHANGED <<config, database, fate, writer>>
       \/ /\ CheckpointThrows(c)
          /\ RollBack({q, DeadLetterOf(q)}) /\ CreateEnds(c, "failed")
    /\ UNCHANGED <<server, directory, counters>>

\* The second one's failure leaves the companion, and the file, as they are.
CreateCheckpointEnds(c) ==
    /\ At(c, "checkpoint")
    /\ LET q == call[c].key IN
       \/ /\ Checkpointed(c, "none")
          /\ state' = [state EXCEPT ![q] = "running"]
          /\ CreateEnds(c, "created")
          /\ UNCHANGED <<config, database>>
       \/ /\ CheckpointThrows(c)
          /\ RollBack({q}) /\ CreateEnds(c, "failed")
    /\ UNCHANGED <<server, directory, counters>>

-----------------------------------------------------------------------------
(* DeleteQueue: the companion of a deleted queue stays.                    *)

\* "while (_isRunning)" is passed before the registry is locked ...
DeleteQueue(c, k) ==
    /\ Call(c) /\ isRunning
    /\ Take(c, "deleteWant", k)
    /\ UNCHANGED <<server, writer, registry, database, disk, checkpoint, fate>>

\* ... and a stopping server returns as if the queue had been deleted.
ToldDeleted(k) ==
    IF k \in Queue /\ fate[k] # "deleted" THEN Told(k, "reported")
                                          ELSE UNCHANGED fate

DeleteOnStoppingServer(c, k) ==
    /\ Call(c) /\ ~isRunning
    /\ ToldDeleted(k)
    /\ UNCHANGED <<server, writer, registry, database, disk, checkpoint, call>>

DeleteMissing(c) ==
    /\ isUp /\ At(c, "deleteWant") /\ LockFree
    /\ ~Registered(call[c].key)
    /\ ToldDeleted(call[c].key)
    /\ Return(c)
    /\ UNCHANGED <<server, writer, registry, database, disk, checkpoint,
                   counters>>

\* EnqueuedMessages.TryWrite gave up until the deadline: TimeoutException.
DeleteTimesOut(c) ==
    /\ isUp /\ At(c, "deleteWant") /\ LockFree
    /\ Registered(call[c].key)
    /\ Return(c)
    /\ UNCHANGED <<server, writer, registry, database, disk, checkpoint, fate,
                   counters>>

ToldNothing(k) ==
    IF k \in Queue THEN Told(k, "unknown") ELSE UNCHANGED fate

DeleteRegistered(c) ==
    /\ isUp /\ At(c, "deleteWant") /\ LockFree
    /\ LET k == call[c].key IN
       /\ Registered(k)
       /\ Remove(k)
       /\ database' = [database EXCEPT ![k] =
              IF @ = "listed" THEN "leaving" ELSE @]
       /\ ToldNothing(k)
    /\ Goto(c, "deleteCheckpoint") /\ writer' = c
    /\ checkpoint' = [checkpoint EXCEPT ![c] = "open"]
    /\ UNCHANGED <<server, disk, counters>>

\* An exception ends the call: nobody waits for the queue or closes it.
DeleteCheckpointEnds(c) ==
    /\ At(c, "deleteCheckpoint")
    /\ writer' = Nobody
    /\ LET k == call[c].key IN
       \/ /\ Checkpointed(c, "none")
          /\ Goto(c, "close")
          /\ IF k \in Queue THEN Told(k, "deleted") ELSE UNCHANGED fate
          /\ UNCHANGED database
       \/ /\ CheckpointThrows(c)
          /\ Return(c)
          /\ database' = [database EXCEPT ![k] =
                 IF @ = "leaving" THEN "orphan" ELSE @]
          /\ UNCHANGED fate
    /\ UNCHANGED <<server, registry, directory, counters>>

\* WaitForShutdown, outside the locks.
DeleteCloses(c) ==
    /\ isUp /\ At(c, "close")
    /\ LET k == call[c].key IN
       database' = [database EXCEPT ![k] =
           IF @ = "leaving" THEN "closed" ELSE @]
    /\ Goto(c, "directory")
    /\ UNCHANGED <<server, writer, registry, disk, checkpoint, fate, counters>>

\* Directory.Delete; an exception is logged and ignored.
DeleteDirectory(c) ==
    /\ isUp /\ At(c, "directory")
    /\ LET k == call[c].key IN
       \/ /\ OpenFilesLocked => database[k] = "closed"
          /\ directory' = [directory EXCEPT ![k] = FALSE]
       \/ /\ \/ "removeFailure" \in Environment
             \/ OpenFilesLocked /\ database[k] # "closed"
          /\ UNCHANGED directory
    /\ Return(c)
    /\ UNCHANGED <<server, writer, registry, database, tempFile, queuesFile,
                   checkpoint, fate, counters>>

-----------------------------------------------------------------------------
(* Stop, the end of the process, and Start.                                *)

StopServer ==
    /\ "stop" \in Environment
    /\ isUp /\ isRunning
    /\ isRunning' = FALSE /\ stopping' = "signal"
    /\ UNCHANGED <<isUp, writer, registry, database, disk, checkpoint, call,
                   fate, counters>>

\* Every queue is signalled and the file written under one read lock.
StopSignals ==
    /\ isUp /\ stopping = "signal" /\ writer = Nobody
    /\ state' = [k \in Key |-> IF Registered(k) THEN "stopped" ELSE "none"]
    /\ checkpoint' = [checkpoint EXCEPT !["stop"] = "open"]
    /\ stopping' = "checkpoint"
    /\ UNCHANGED <<isUp, isRunning, writer, config, database, disk, call, fate,
                   counters>>

\* An exception leaves Stop before it has waited for any queue.
StopCheckpointEnds ==
    /\ stopping = "checkpoint"
    /\ \/ Checkpointed("stop", "none") /\ stopping' = "close"
       \/ CheckpointThrows("stop") /\ stopping' = "exit"
    /\ UNCHANGED <<isUp, isRunning, writer, registry, database, directory,
                   call, fate, counters>>

\* WaitForShutdown of the queues that were signalled.
StopCloses ==
    /\ isUp /\ stopping = "close"
    /\ Close({k \in Key : state[k] = "stopped"})
    /\ stopping' = "exit"
    /\ UNCHANGED <<isUp, isRunning, writer, registry, disk, checkpoint, call,
                   fate, counters>>

\* The memory of the process is gone.
Exit ==
    /\ isUp' = FALSE /\ isRunning' = FALSE /\ stopping' = "no"
    /\ writer' = Nobody
    /\ config' = [k \in Key |-> NoConfig] /\ state' = [k \in Key |-> "none"]
    /\ database' = [k \in Key |-> "closed"]
    /\ checkpoint' = [p \in Process |-> "none"]
    /\ call' = [c \in Caller |-> Idle]
    /\ UNCHANGED <<disk, fate, counters>>

StopEnds == isUp /\ stopping = "exit" /\ Exit

Crash == "crash" \in Environment /\ isUp /\ Exit

\* What Start finds in the file, which is nothing in a truncated one, and the
\* ephemeral companions it adds.
Saved == IF queuesFile.whole THEN queuesFile.entries ELSE NoFile.entries
Listed(k) == Saved[k] # NoConfig
WantsCompanion(q) == Saved[q].deadLetter = "Ephemeral"

\* The first of the two entries of one key is kept, the second throws.
KeptCompanions(q) ==
    LET own == ToConfiguration(Saved[q])
        listed == Saved[DeadLetterOf(q)]
    IN CASE ~WantsCompanion(q) -> {listed}
         [] WantsCompanion(q) /\ listed = NoConfig -> {own}
         [] OTHER -> {own, listed}

Kept(k) == IF k \in Queue THEN {Saved[k]}
           ELSE KeptCompanions(k[1])

\* A queue that is not initialized is not started: the database did not open,
\* or nobody asked for it to be initialized.  On part of a text the JSON reader
\* throws: no server comes of that, and no step.
Start ==
    /\ ~isUp /\ restarts < MaxRestarts
    /\ queuesFile.whole \/ queuesFile.empty
    /\ restarts' = restarts + 1
    /\ isUp' = TRUE /\ isRunning' = TRUE
    /\ \E kept \in [Key -> AnyConfig \cup {NoConfig}] :
          (\A k \in Key : kept[k] \in Kept(k)) /\ config' = kept
    /\ \E broken \in SUBSET {k \in Key : Listed(k)} :
       /\ broken # {} => "openFailure" \in Environment
       /\ state' = [k \in Key |->
              CASE config'[k] = NoConfig -> "none"
                [] Persists(config'[k]) /\ k \in broken -> "failed"
                [] Persists(config'[k]) /\ k \notin broken -> "running"
                [] OTHER -> "created"]
       /\ database' = [k \in Key |->
              CASE ~Listed(k) \/ k \in broken -> "closed"
                [] Listed(k) /\ k \notin broken /\ Persists(config'[k])
                     -> "listed"
                [] OTHER -> "orphan"]
    /\ directory' = [k \in Key |-> directory[k] \/ Listed(k)]
    /\ UNCHANGED <<stopping, writer, tempFile, queuesFile, checkpoint, call,
                   fate, calls>>

-----------------------------------------------------------------------------
Writes(p) == BeginWrite(p) \/ EndWrite(p)

CreateSteps(c) ==
    \/ CreateCompanion(c) \/ CompanionCheckpointEnds(c)
    \/ CreateCheckpointEnds(c)

DeleteSteps(c) ==
    \/ DeleteMissing(c) \/ DeleteTimesOut(c) \/ DeleteRegistered(c)
    \/ DeleteCheckpointEnds(c) \/ DeleteCloses(c) \/ DeleteDirectory(c)

Calls(c) ==
    \/ \E q \in Queue : CreateExisting(c, q)
    \/ \E q \in Queue, cfg \in Config :
          CreateQueue(c, q, cfg) \/ CreateFailsToOpen(c, q, cfg)
    \/ \E k \in Key : DeleteQueue(c, k) \/ DeleteOnStoppingServer(c, k)

CallerSteps(c) == CreateSteps(c) \/ DeleteSteps(c) \/ Writes(c)

StopSteps ==
    \/ StopSignals \/ Writes("stop") \/ StopCheckpointEnds
    \/ StopCloses \/ StopEnds

HeartbeatSteps == Writes("heartbeat") \/ HeartbeatCheckpointEnds

Next ==
    \/ \E c \in Caller : Calls(c) \/ CallerSteps(c)
    \/ HeartbeatCheckpoint \/ HeartbeatSteps
    \/ StopServer \/ StopSteps
    \/ Crash \/ Start

Spec == Init /\ [][Next]_vars

\* Threads run on; the blocking lock of the registry is granted at last to
\* whoever waits for it, although the heartbeat comes back every 30 seconds.
Fairness ==
    /\ \A c \in Caller : SF_vars(CallerSteps(c))
    /\ SF_vars(StopSteps) /\ WF_vars(HeartbeatSteps)

FairSpec == Spec /\ Fairness

-----------------------------------------------------------------------------
(* The hypothesis under which checkpoints may be trusted.                  *)

\* The heartbeat and Stop both read the registry: the one pair of checkpoints
\* that its lock does not keep apart.
NoOverlap == checkpoint["heartbeat"] = "none" \/ checkpoint["stop"] = "none"

\* Either they do not meet, or the system protects a file that is being
\* written from the other and no write stops half-way.  Nothing in the code
\* sees to the former, and Linux not to the latter (see QRTornFile.cfg).
CheckpointsAreSafe ==
    NoOverlap \/ (OpenFilesLocked /\ "writeFailure" \notin Environment)

-----------------------------------------------------------------------------
(* Properties.                                                             *)

\* Type correctness, and the lock's discipline: nobody changes the registry
\* while another writes it to the file.
TypeOK ==
    /\ isUp \in BOOLEAN /\ isRunning \in BOOLEAN
    /\ stopping \in {"no", "signal", "checkpoint", "close", "exit"}
    /\ writer \in Caller \cup {Nobody}
    /\ config \in [Key -> AnyConfig \cup {NoConfig}]
    /\ state \in [Key -> QueueState]
    /\ database \in [Key -> Owner] /\ directory \in [Key -> BOOLEAN]
    /\ tempFile \in File /\ queuesFile \in File
    /\ checkpoint \in [Process -> Phase]
    /\ call \in [Caller -> [step: Step, key: Key \cup {Nobody}]]
    /\ fate \in [Queue -> Fate]
    /\ calls \in 0..MaxCalls /\ restarts \in 0..MaxRestarts
    /\ writer # Nobody => \A p \in Process \ Caller : checkpoint[p] = "none"
    /\ \A c \in Caller : checkpoint[c] # "none" => writer = c

\* A persistent queue whose creation was reported is in queues.json until
\* somebody deletes it, and in the registry of every later process: whatever
\* other calls, failing or half-done checkpoints, stops and crashes follow, as
\* long as CheckpointsAreSafe; without that see QueuesSurviveRestart.
CreatedStaysCreated ==
    \A q \in Queue : fate[q] = "created" =>
        /\ queuesFile.whole /\ Persists(queuesFile.entries[q])
        /\ isUp => Registered(q)

\* "Restart: persistent queues and their waiting messages survive": a
\* persistent queue whose creation was reported is in the registry of every
\* later server, if only the server was stopped in between.
QueuesSurviveRestart ==
    \A q \in Queue : fate[q] = "created" /\ isUp => Registered(q)

\* A queue whose deletion was carried out is neither loaded nor listed again,
\* as long as CheckpointsAreSafe.
DeletionIsDurable ==
    \A q \in Queue : fate[q] = "deleted" => ~Registered(q) /\ ~Listed(q)

\* "Restart: a deleted queue stays deleted.": a queue whose deletion was
\* reported to a caller is not in the registry of a later process.
DeletedStaysDeleted ==
    \A q \in Queue : fate[q] \in {"deleted", "reported"} => ~Registered(q)

\* Start re-creates the ephemeral companion of a persistent queue, but asks
\* nobody to initialize it: its thread is not started.
NeverInitialized(k) == k \notin Queue /\ ~Persists(config[k])

\* Every queue of a running server is started, but for those whose database
\* failed to open and the companions above: no call that fails half-way
\* leaves a queue behind that nothing runs; while the registry is locked a
\* queue may be on its way.
EveryQueueRuns ==
    isRunning /\ LockFree =>
        \A k \in Key : Registered(k) =>
            state[k] \in {"running", "failed"} \/ NeverInitialized(k)

\* Every call of CreateQueue and DeleteQueue returns: nobody keeps the lock.
CallsReturn == \A c \in Caller : ~At(c, "idle") ~> At(c, "idle")

\* A server that stops gets to the end of Stop: the calls in progress, the
\* heartbeat and their exceptions do not keep it from the registry.
StopCompletes == stopping # "no" ~> stopping = "no"

-----------------------------------------------------------------------------
(* What the registry implements.                                           *)

\* The keys that the holder of the lock is creating or deleting.
InProgress ==
    IF writer = Nobody THEN {}
    ELSE {call[writer].key} \cup
         (IF At(writer, "companionCheckpoint")
          THEN {DeadLetterOf(call[writer].key)} ELSE {})

PersistentConfig == {cfg \in AnyConfig : Persists(cfg)}

Catalogue == INSTANCE QueueCatalogue WITH
    Configuration <- AnyConfig,
    Absent        <- NoConfig,
    Durable       <- PersistentConfig,
    open          <- isUp,
    catalogue     <- config,
    busy          <- InProgress,
    saved         <- Saved,
    told          <- fate

\* As long as CheckpointsAreSafe, through half-done checkpoints of callers,
\* heartbeat and Stop, failing files and databases, roll-backs, crashes and
\* restarts, queues.json is the whole registry as it was at one moment, and a
\* caller is told of a creation or a deletion when it is in there.
KeepsCatalogue == Catalogue!Spec
=============================================================================
