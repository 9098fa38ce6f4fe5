------------------------- MODULE QueueRegistryProofs -------------------------
(***************************************************************************)
(* Proofs about QueueRegistry, for any queues, callers and configurations: *)
(* the discipline of the registry lock, that every queue of a running      *)
(* server is started, that what was reported created or carried out as a   *)
(* deletion survives stops, crashes and half-done checkpoints, and that a  *)
(* deletion survives even if it was only reported where no file fails.     *)
(***************************************************************************)
EXTENDS QueueRegistry, TLAPS

Cfg == AnyConfig \cup {NoConfig}
CreateStep == {"companion", "companionCheckpoint", "checkpoint"}
LockedStep == CreateStep \cup {"deleteCheckpoint"}

Creating(c) == call[c].step \in CreateStep

\* What a call does and which lock it has go together.
CallsHoldLock ==
    \A c \in Caller :
        /\ writer = c <=> call[c].step \in LockedStep
        /\ call[c].step # "idle" => call[c].key \in Key
        /\ Creating(c) => call[c].key \in Queue
        /\ At(c, "companion") =>
              /\ checkpoint[c] = "none"
              /\ config[call[c].key] \in AnyConfig
              /\ config[call[c].key].deadLetter # "None"

\* Without a process there is no registry, and a server that stops has
\* cleared its flag.
NothingInMemory ==
    /\ ~isUp => /\ config = [k \in Key |-> NoConfig]
                /\ checkpoint = [p \in Process |-> "none"]
                /\ ~isRunning /\ writer = Nobody /\ stopping = "no"
    /\ stopping # "no" => ~isRunning

LInv == TypeOK /\ CallsHoldLock /\ NothingInMemory

-----------------------------------------------------------------------------
(* The steps of a checkpoint, whoever makes it.                            *)

\* One process's part of a checkpoint: the files stay files, and of the other
\* processes none begins or ends one.
CheckpointStep(p) ==
    /\ tempFile' \in File /\ queuesFile' \in File
    /\ checkpoint' \in [Process -> Phase]
    /\ \A o \in Process \ {p} : checkpoint'[o] = "none" <=> checkpoint[o] = "none"

LEMMA PersistedType ==
    ASSUME TypeOK
    PROVE  Persisted \in [Key -> Cfg]
BY DEF TypeOK, Persisted, Cfg

LEMMA CheckpointedStep ==
    ASSUME TypeOK, NEW p \in Process, NEW next \in Phase, Checkpointed(p, next)
    PROVE  /\ CheckpointStep(p) /\ checkpoint[p] = "move"
           /\ checkpoint'[p] = next
BY DEF TypeOK, Checkpointed, CheckpointStep, Phase, File

LEMMA ThrowsStep ==
    ASSUME TypeOK, NEW p \in Process, CheckpointThrows(p)
    PROVE  /\ CheckpointStep(p) /\ checkpoint[p] # "none"
           /\ checkpoint'[p] = "none"
BY DEF TypeOK, CheckpointThrows, CheckpointStep, Phase, FailsAt

LEMMA WritesStep ==
    ASSUME TypeOK, NEW p \in Process, Writes(p)
    PROVE  /\ CheckpointStep(p) /\ isUp
           /\ checkpoint[p] # "none" /\ checkpoint'[p] # "none"
           /\ UNCHANGED <<server, writer, registry, database, directory, call,
                          fate, counters>>
<1>1. CASE BeginWrite(p)
  <2>1. TempIsOpen(p) \in BOOLEAN
    BY DEF TempIsOpen
  <2>2. Truncated(p) \in File
    BY <2>1 DEF TypeOK, Truncated, File
  <2>3. /\ tempFile' \in File /\ queuesFile' \in File
        /\ checkpoint' = [checkpoint EXCEPT ![p] = "write"]
        /\ checkpoint[p] = "open" /\ checkpoint \in [Process -> Phase]
    BY <1>1, <2>2 DEF TypeOK, BeginWrite, OpenTemp
  <2>4. CheckpointStep(p) /\ checkpoint'[p] = "write"
    BY <2>3 DEF CheckpointStep, Phase
  <2>5. isUp /\ UNCHANGED <<server, writer, registry, database, directory, call,
                             fate, counters>>
    BY <1>1 DEF BeginWrite
  <2> QED
    BY <2>3, <2>4, <2>5
<1>2. CASE EndWrite(p)
  <2>1. Written(tempFile) \subseteq File /\ Written(queuesFile) \subseteq File
    <3>1. \A file \in File : Written(file) \subseteq File
      BY PersistedType DEF Written, File, Cfg
    <3> QED
      BY <3>1 DEF TypeOK
  <2>2. tempFile' \in File /\ queuesFile' \in File
    BY <1>2, <2>1 DEF TypeOK, EndWrite
  <2> QED
    BY <1>2, <2>2 DEF TypeOK, EndWrite, CheckpointStep, Phase
<1> QED
  BY <1>1, <1>2 DEF Writes

LEMMA ConfigFacts ==
    /\ NoConfig \notin AnyConfig /\ ~Persists(NoConfig)
    /\ \A cfg \in AnyConfig :
          cfg.deadLetter # "None" => ToConfiguration(cfg) \in AnyConfig
    /\ \A cfg \in AnyConfig : cfg # NoConfig
BY DEF NoConfig, AnyConfig, Scheme, Persists, ToConfiguration

LEMMA KeyFacts ==
    /\ Queue \subseteq Key
    /\ \A q \in Queue : DeadLetterOf(q) \in Key /\ DeadLetterOf(q) \notin Queue
                        /\ DeadLetterOf(q)[1] = q
    /\ \A k \in Key : k \notin Queue => k[1] \in Queue /\ k = DeadLetterOf(k[1])
BY RegistryAssumption DEF Key, DeadLetterOf

LEMMA InitLock == Init => LInv
<1> SUFFICES ASSUME Init PROVE LInv
  OBVIOUS
<1>1. NoFile \in File
  BY DEF NoFile, File
<1>2. 0 \in 0..MaxCalls /\ 0 \in 0..MaxRestarts
  BY RegistryAssumption
<1>3. Idle \in [step: Step, key: Key \cup {Nobody}] /\ Idle.step = "idle"
  BY DEF Idle, Step
<1>4. TypeOK
  <2>1. /\ config \in [Key -> AnyConfig \cup {NoConfig}]
        /\ state \in [Key -> QueueState] /\ database \in [Key -> Owner]
        /\ directory \in [Key -> BOOLEAN] /\ checkpoint \in [Process -> Phase]
        /\ fate \in [Queue -> Fate]
        /\ call \in [Caller -> [step: Step, key: Key \cup {Nobody}]]
    BY <1>3 DEF Init, QueueState, Owner, Phase, Fate
  <2> QED
    BY <1>1, <1>2, <2>1 DEF Init, TypeOK, Process
<1>5. CallsHoldLock
  BY <1>3, RegistryAssumption
  DEF Init, CallsHoldLock, Creating, At, LockedStep, CreateStep
<1>6. NothingInMemory
  BY DEF Init, NothingInMemory
<1> QED
  BY <1>4, <1>5, <1>6 DEF LInv

\* Opening a database, or failing to, changes what is on disk and its owner.
LEMMA OpensType ==
    ASSUME TypeOK, NEW k \in Key, NEW cfg, Opens(k, cfg)
    PROVE  database' \in [Key -> Owner] /\ directory' \in [Key -> BOOLEAN]
BY DEF TypeOK, Opens, Owner

LEMMA OpenFailsType ==
    ASSUME TypeOK, NEW k \in Key, NEW cfg, OpenFails(k, cfg)
    PROVE  directory' \in [Key -> BOOLEAN]
BY DEF TypeOK, OpenFails

LEMMA CloseType ==
    ASSUME TypeOK, NEW S, Close(S)
    PROVE  database' \in [Key -> Owner]
BY DEF TypeOK, Close, Owner

LEMMA RollBackType ==
    ASSUME TypeOK, NEW S, RollBack(S)
    PROVE  /\ database' \in [Key -> Owner]
           /\ config' \in [Key -> Cfg] /\ state' \in [Key -> QueueState]
BY CloseType DEF RollBack, TypeOK, QueueState, Cfg

\* Without a lock there is no checkpoint of a caller.
LEMMA LockFacts ==
    ASSUME LInv
    PROVE  /\ writer = Nobody => \A c \in Caller :
                 checkpoint[c] = "none" /\ call[c].step \notin LockedStep
           /\ \A c \in Caller : writer = c => \A p \in Process \ {c} :
                 checkpoint[p] = "none"
           /\ LockFree => \A p \in Process : checkpoint[p] = "none"
           /\ Nobody \notin Caller
           /\ "heartbeat" \in Process \ Caller /\ "stop" \in Process \ Caller
           /\ Caller \subseteq Process
BY RegistryAssumption DEF LInv, TypeOK, CallsHoldLock, LockFree, NoReader, Process

LEMMA WritesKeepLock ==
    ASSUME LInv, NEW p \in Process, Writes(p)
    PROVE  LInv'
<1>1. TypeOK
  BY DEF LInv
<1>2. /\ CheckpointStep(p) /\ isUp /\ checkpoint[p] # "none"
      /\ checkpoint'[p] # "none"
      /\ UNCHANGED <<server, writer, registry, database, directory, call,
                     fate, counters>>
  BY <1>1, WritesStep
<1>3. \A o \in Process : checkpoint'[o] = "none" <=> checkpoint[o] = "none"
  BY <1>2 DEF CheckpointStep
<1>4. TypeOK'
  BY <1>1, <1>2, <1>3, LockFacts DEF TypeOK, CheckpointStep, server, registry, counters
<1>5. CallsHoldLock'
  BY <1>2, <1>3, LockFacts DEF LInv, CallsHoldLock, Creating, At, registry
<1>6. NothingInMemory'
  BY <1>2 DEF LInv, NothingInMemory, server
<1> QED
  BY <1>4, <1>5, <1>6 DEF LInv

\* The calls that return at once, and the beginnings of the others.
LEMMA CallsKeepLock ==
    ASSUME LInv, NEW c \in Caller, Calls(c)
    PROVE  LInv'
<1>1. TypeOK /\ c \in Process /\ isUp /\ call[c].step = "idle" /\ writer # c
  BY LockFacts DEF LInv, Calls, CreateExisting, CreateQueue, CreateFailsToOpen,
     DeleteQueue, DeleteOnStoppingServer, Call, At, CallsHoldLock, LockedStep,
     CreateStep
<1>2. calls' \in 0..MaxCalls /\ restarts' \in 0..MaxRestarts
  BY RegistryAssumption DEF LInv, TypeOK, Calls, CreateExisting, CreateQueue,
     CreateFailsToOpen, DeleteQueue, DeleteOnStoppingServer, Call
<1>3. \A q \in Queue, what \in Fate : Told(q, what) => fate' \in [Queue -> Fate]
  BY <1>1 DEF TypeOK, Told
<1>4. CASE \/ \E q \in Queue : CreateExisting(c, q)
           \/ \E k \in Key : DeleteOnStoppingServer(c, k)
  <2>1. UNCHANGED <<server, writer, registry, database, disk, checkpoint, call>>
    BY <1>4 DEF CreateExisting, DeleteOnStoppingServer
  <2>2. fate' \in [Queue -> Fate]
    BY <1>1, <1>3, <1>4 DEF CreateExisting, DeleteOnStoppingServer, ToldCreated,
       ToldDeleted, Fate, TypeOK
  <2>3. TypeOK'
    BY <1>1, <1>2, <2>1, <2>2 DEF TypeOK, server, registry, disk
  <2> QED
    BY <2>1, <2>3 DEF LInv, CallsHoldLock, NothingInMemory, Creating, At, server,
       registry
<1>5. CASE \E q \in Queue, cfg \in Config : CreateFailsToOpen(c, q, cfg)
  <2>1. PICK q \in Queue, cfg \in Config : CreateFailsToOpen(c, q, cfg)
    BY <1>5
  <2>2. UNCHANGED <<server, writer, registry, database, tempFile, queuesFile,
                    checkpoint, call>>
    BY <2>1 DEF CreateFailsToOpen
  <2>3. fate' \in [Queue -> Fate] /\ directory' \in [Key -> BOOLEAN]
    BY <1>1, <1>3, <2>1, OpenFailsType, KeyFacts DEF CreateFailsToOpen, Fate
  <2>4. TypeOK'
    BY <1>1, <1>2, <2>2, <2>3 DEF TypeOK, server, registry
  <2> QED
    BY <2>2, <2>4 DEF LInv, CallsHoldLock, NothingInMemory, Creating, At, server,
       registry
<1>6. CASE \E q \in Queue, cfg \in Config : CreateQueue(c, q, cfg)
  <2>1. PICK q \in Queue, cfg \in Config : CreateQueue(c, q, cfg)
    BY <1>6
  <2>2. /\ LockFree /\ writer' = c /\ Add(q, cfg, "created")
        /\ UNCHANGED <<server, tempFile, queuesFile>>
        /\ \E step \in {"checkpoint", "companion"} :
              /\ call' = [call EXCEPT ![c] = [step |-> step, key |-> q]]
              /\ checkpoint' = IF step = "companion" THEN checkpoint
                               ELSE [checkpoint EXCEPT ![c] = "open"]
              /\ step = "companion" => cfg.deadLetter # "None"
    BY <2>1 DEF CreateQueue
  <2>3. fate' \in [Queue -> Fate] /\ directory' \in [Key -> BOOLEAN]
        /\ database' \in [Key -> Owner]
    BY <1>1, <1>3, <2>1, OpensType, KeyFacts DEF CreateQueue, Fate
  <2>4. q \in Key /\ cfg \in AnyConfig
    BY KeyFacts, RegistryAssumption
  <2>5. config' \in [Key -> Cfg] /\ state' \in [Key -> QueueState]
        /\ config'[q] = cfg
    BY <1>1, <2>2, <2>4 DEF TypeOK, Add, QueueState, Cfg
  <2>6. PICK step \in {"checkpoint", "companion"} :
              /\ call' = [call EXCEPT ![c] = [step |-> step, key |-> q]]
              /\ checkpoint' = IF step = "companion" THEN checkpoint
                               ELSE [checkpoint EXCEPT ![c] = "open"]
              /\ step = "companion" => cfg.deadLetter # "None"
    BY <2>2
  <2>7. /\ call' \in [Caller -> [step: Step, key: Key \cup {Nobody}]]
        /\ checkpoint' \in [Process -> Phase]
        /\ \A o \in Process \ {c} : checkpoint'[o] = "none"
    BY <1>1, <2>2, <2>4, <2>6, LockFacts DEF TypeOK, Step, Phase
  <2>8. writer = Nobody
    BY <2>2 DEF LockFree
  <2>9. TypeOK'
    BY <1>1, <1>2, <2>2, <2>3, <2>5, <2>7, LockFacts DEF TypeOK, server, Cfg
  <2>10. CallsHoldLock'
    BY <1>1, <2>2, <2>4, <2>5, <2>6, <2>8, LockFacts
    DEF LInv, TypeOK, CallsHoldLock, Creating, At, LockedStep, CreateStep
  <2>11. NothingInMemory'
    BY <1>1, <2>2 DEF LInv, NothingInMemory, server
  <2> QED
    BY <2>9, <2>10, <2>11 DEF LInv
<1>7. CASE \E k \in Key : DeleteQueue(c, k)
  <2>1. PICK k \in Key : DeleteQueue(c, k)
    BY <1>7
  <2>2. /\ call' = [call EXCEPT ![c] = [step |-> "deleteWant", key |-> k]]
        /\ UNCHANGED <<server, writer, registry, database, disk, checkpoint,
                       fate>>
    BY <2>1 DEF DeleteQueue, Take
  <2>3. TypeOK'
    BY <1>1, <1>2, <2>2 DEF TypeOK, server, registry, disk, Step
  <2>4. CallsHoldLock'
    BY <1>1, <2>2 DEF LInv, TypeOK, CallsHoldLock, Creating, At, LockedStep,
       CreateStep, registry
  <2> QED
    BY <2>2, <2>3, <2>4 DEF LInv, NothingInMemory, server, registry
<1> QED
  BY <1>4, <1>5, <1>6, <1>7 DEF Calls

LockDiscipline ==
    /\ writer # Nobody => \A p \in Process \ Caller : checkpoint[p] = "none"
    /\ \A c \in Caller : checkpoint[c] # "none" => writer = c

\* A caller that has the lock goes on with it, or leaves it and its checkpoint.
LEMMA HolderStep ==
    ASSUME LInv, NEW c \in Caller, writer = c,
           NEW step \in Step \ {"companion"}, NEW key \in Key \cup {Nobody},
           step # "idle" => key \in Key, step \in CreateStep => key \in Queue,
           call' = [call EXCEPT ![c] = [step |-> step, key |-> key]],
           writer' = IF step \in LockedStep THEN c ELSE Nobody,
           checkpoint' \in [Process -> Phase],
           \A o \in Process \ {c} : checkpoint'[o] = "none",
           step \notin LockedStep => checkpoint'[c] = "none"
    PROVE  /\ CallsHoldLock' /\ LockDiscipline'
           /\ call' \in [Caller -> [step: Step, key: Key \cup {Nobody}]]
           /\ writer' \in Caller \cup {Nobody}
<1>1. /\ call' \in [Caller -> [step: Step, key: Key \cup {Nobody}]]
      /\ call'[c].step = step /\ call'[c].key = key
      /\ \A d \in Caller \ {c} : call'[d] = call[d]
  BY DEF LInv, TypeOK
<1>2. \A d \in Caller \ {c} : call[d].step \notin LockedStep
  BY DEF LInv, CallsHoldLock
<1>3. CallsHoldLock'
  BY <1>1, <1>2, LockFacts
  DEF LInv, CallsHoldLock, Creating, At, LockedStep, CreateStep
<1>4. LockDiscipline'
  BY LockFacts DEF LockDiscipline
<1> QED
  BY <1>1, <1>3, <1>4

\* The same for what CreateQueue and DeleteQueue end with.
LEMMA HolderReturns ==
    ASSUME LInv, NEW c \in Caller, writer = c, Return(c), writer' = Nobody,
           checkpoint' \in [Process -> Phase], checkpoint'[c] = "none",
           \A o \in Process \ {c} : checkpoint'[o] = "none"
    PROVE  /\ CallsHoldLock' /\ LockDiscipline'
           /\ call' \in [Caller -> [step: Step, key: Key \cup {Nobody}]]
           /\ writer' \in Caller \cup {Nobody}
BY HolderStep DEF Return, Idle, Step, LockedStep, CreateStep

LEMMA GotoKeepsKey ==
    ASSUME TypeOK, NEW c \in Caller, NEW step, Goto(c, step)
    PROVE  call' = [call EXCEPT ![c] = [step |-> step, key |-> call[c].key]]
<1>1. call[c] \in [step: Step, key: Key \cup {Nobody}]
  BY DEF TypeOK
<1>2. [call[c] EXCEPT !.step = step] = [step |-> step, key |-> call[c].key]
  BY <1>1
<1> QED
  BY <1>2 DEF Goto

LEMMA CreateEndsType ==
    ASSUME LInv, NEW c \in Caller, Creating(c), NEW what \in {"created", "failed"},
           CreateEnds(c, what)
    PROVE  Return(c) /\ writer' = Nobody /\ fate' \in [Queue -> Fate]
<1>1. call[c].key \in Queue
  BY DEF LInv, CallsHoldLock
<1> QED
  BY <1>1 DEF LInv, TypeOK, CreateEnds, ToldCreated, Told, Fate

LEMMA CreateStepsKeepLock ==
    ASSUME LInv, NEW c \in Caller, CreateSteps(c)
    PROVE  LInv'
<1> DEFINE q == call[c].key
           dlq == DeadLetterOf(q)
<1>1. TypeOK /\ c \in Process /\ isUp /\ Creating(c)
  BY LockFacts DEF LInv, CreateSteps, CreateCompanion, CompanionCheckpointEnds,
     CreateCheckpointEnds, At, Creating, CreateStep, Checkpointed, CheckpointThrows
<1>2. /\ writer = c /\ q \in Queue /\ q \in Key /\ dlq \in Key /\ dlq \notin Queue
      /\ \A o \in Process \ {c} : checkpoint[o] = "none"
  BY <1>1, LockFacts, KeyFacts DEF LInv, CallsHoldLock, Creating, LockedStep
<1>3. UNCHANGED <<server, counters>>
  BY DEF CreateSteps, CreateCompanion, CompanionCheckpointEnds,
     CreateCheckpointEnds
<1>4. NothingInMemory'
  BY <1>1, <1>3 DEF LInv, NothingInMemory, server
<1>5. ASSUME /\ CallsHoldLock' /\ LockDiscipline'
             /\ call' \in [Caller -> [step: Step, key: Key \cup {Nobody}]]
             /\ writer' \in Caller \cup {Nobody}
             /\ tempFile' \in File /\ queuesFile' \in File
             /\ checkpoint' \in [Process -> Phase]
             /\ config' \in [Key -> Cfg] /\ state' \in [Key -> QueueState]
             /\ database' \in [Key -> Owner] /\ directory' \in [Key -> BOOLEAN]
             /\ fate' \in [Queue -> Fate]
      PROVE  LInv'
  BY <1>1, <1>3, <1>4, <1>5 DEF LInv, TypeOK, LockDiscipline, server, counters, Cfg
<1>6. CASE CreateCompanion(c)
  <2>1. At(c, "companion") /\ UNCHANGED <<tempFile, queuesFile>>
    BY <1>6 DEF CreateCompanion
  <2>2. checkpoint[c] = "none" /\ config[q] \in AnyConfig
        /\ config[q].deadLetter # "None" /\ ToConfiguration(config[q]) \in AnyConfig
    BY <2>1, ConfigFacts DEF LInv, CallsHoldLock
  <2>3. CASE /\ Goto(c, "checkpoint") \/ Goto(c, "companionCheckpoint")
             /\ checkpoint' = [checkpoint EXCEPT ![c] = "open"]
             /\ UNCHANGED <<fate, writer>>
             /\ \/ UNCHANGED <<registry, database, directory>>
                \/ /\ Opens(dlq, ToConfiguration(config[q]))
                   /\ Add(dlq, ToConfiguration(config[q]), "created")
    <3>1. /\ config' \in [Key -> Cfg] /\ state' \in [Key -> QueueState]
          /\ database' \in [Key -> Owner] /\ directory' \in [Key -> BOOLEAN]
      BY <1>1, <1>2, <2>2, <2>3, OpensType DEF TypeOK, Add, registry, QueueState, Cfg
    <3>2. checkpoint' \in [Process -> Phase]
          /\ \A o \in Process \ {c} : checkpoint'[o] = "none"
      BY <1>1, <1>2, <2>3 DEF TypeOK, Phase
    <3>3. PICK step \in {"checkpoint", "companionCheckpoint"} :
             call' = [call EXCEPT ![c] = [step |-> step, key |-> q]]
      BY <1>1, <2>3, GotoKeepsKey
    <3>4. /\ CallsHoldLock' /\ LockDiscipline'
          /\ call' \in [Caller -> [step: Step, key: Key \cup {Nobody}]]
          /\ writer' \in Caller \cup {Nobody}
      BY <1>2, <2>3, <3>2, <3>3, HolderStep DEF Step, LockedStep, CreateStep
    <3> QED
      BY <1>1, <1>5, <2>1, <2>3, <3>1, <3>2, <3>4 DEF TypeOK
  <2>4. CASE /\ OpenFails(dlq, ToConfiguration(config[q]))
             /\ RollBack({q}) /\ CreateEnds(c, "failed")
             /\ UNCHANGED checkpoint
    <3>1. Return(c) /\ writer' = Nobody /\ fate' \in [Queue -> Fate]
      BY <1>1, <2>4, CreateEndsType
    <3>2. /\ CallsHoldLock' /\ LockDiscipline'
          /\ call' \in [Caller -> [step: Step, key: Key \cup {Nobody}]]
          /\ writer' \in Caller \cup {Nobody}
      BY <1>1, <1>2, <2>2, <2>4, <3>1, HolderReturns DEF TypeOK
    <3>3. /\ config' \in [Key -> Cfg] /\ state' \in [Key -> QueueState]
          /\ database' \in [Key -> Owner] /\ directory' \in [Key -> BOOLEAN]
      BY <1>1, <1>2, <2>4, RollBackType, OpenFailsType
    <3> QED
      BY <1>1, <1>5, <2>1, <2>4, <3>1, <3>2, <3>3 DEF TypeOK
  <2> QED
    BY <1>6, <2>3, <2>4 DEF CreateCompanion
<1>7. ASSUME NEW S, RollBack(S), CreateEnds(c, "failed"), CheckpointThrows(c),
             UNCHANGED directory
      PROVE  LInv'
  <2>1. Return(c) /\ writer' = Nobody /\ fate' \in [Queue -> Fate]
    BY <1>1, <1>7, CreateEndsType
  <2>2. CheckpointStep(c) /\ checkpoint'[c] = "none"
    BY <1>1, <1>7, ThrowsStep
  <2>3. /\ CallsHoldLock' /\ LockDiscipline'
        /\ call' \in [Caller -> [step: Step, key: Key \cup {Nobody}]]
        /\ writer' \in Caller \cup {Nobody}
    BY <1>2, <2>1, <2>2, HolderReturns DEF CheckpointStep
  <2>4. /\ config' \in [Key -> Cfg] /\ state' \in [Key -> QueueState]
        /\ database' \in [Key -> Owner]
    BY <1>1, <1>7, RollBackType
  <2> QED
    BY <1>1, <1>5, <1>7, <2>1, <2>2, <2>3, <2>4 DEF TypeOK, CheckpointStep
<1>8. CASE CompanionCheckpointEnds(c)
  <2>1. CASE /\ Checkpointed(c, "open")
             /\ state' = [state EXCEPT ![dlq] = "running"]
             /\ Goto(c, "checkpoint")
             /\ UNCHANGED <<config, database, fate, writer>>
    <3>1. CheckpointStep(c)
      BY <1>1, <2>1, CheckpointedStep DEF Phase
    <3>2. call' = [call EXCEPT ![c] = [step |-> "checkpoint", key |-> q]]
      BY <1>1, <2>1, GotoKeepsKey
    <3>3. \A o \in Process \ {c} : checkpoint'[o] = "none"
      BY <1>2, <3>1 DEF CheckpointStep
    <3>4. /\ CallsHoldLock' /\ LockDiscipline'
          /\ call' \in [Caller -> [step: Step, key: Key \cup {Nobody}]]
          /\ writer' \in Caller \cup {Nobody}
      BY <1>2, <2>1, <3>1, <3>2, <3>3, HolderStep
      DEF CheckpointStep, Step, LockedStep, CreateStep
    <3>5. state' \in [Key -> QueueState]
      BY <1>1, <2>1 DEF TypeOK, QueueState
    <3> QED
      BY <1>1, <1>5, <1>8, <2>1, <3>1, <3>4, <3>5
      DEF TypeOK, CheckpointStep, CompanionCheckpointEnds, Cfg
  <2> QED
    BY <1>7, <1>8, <2>1 DEF CompanionCheckpointEnds
<1>9. CASE CreateCheckpointEnds(c)
  <2>1. CASE /\ Checkpointed(c, "none")
             /\ state' = [state EXCEPT ![q] = "running"]
             /\ CreateEnds(c, "created")
             /\ UNCHANGED <<config, database>>
    <3>1. CheckpointStep(c) /\ checkpoint'[c] = "none"
      BY <1>1, <2>1, CheckpointedStep DEF Phase
    <3>2. Return(c) /\ writer' = Nobody /\ fate' \in [Queue -> Fate]
      BY <1>1, <2>1, CreateEndsType
    <3>3. /\ CallsHoldLock' /\ LockDiscipline'
          /\ call' \in [Caller -> [step: Step, key: Key \cup {Nobody}]]
          /\ writer' \in Caller \cup {Nobody}
      BY <1>2, <3>1, <3>2, HolderReturns DEF CheckpointStep
    <3>4. state' \in [Key -> QueueState]
      BY <1>1, <2>1 DEF TypeOK, QueueState
    <3> QED
      BY <1>1, <1>5, <1>9, <2>1, <3>1, <3>2, <3>3, <3>4
      DEF TypeOK, CheckpointStep, CreateCheckpointEnds, Cfg
  <2> QED
    BY <1>7, <1>9, <2>1 DEF CreateCheckpointEnds
<1> QED
  BY <1>6, <1>8, <1>9 DEF CreateSteps

LEMMA DeleteStepsKeepLock ==
    ASSUME LInv, NEW c \in Caller, DeleteSteps(c)
    PROVE  LInv'
<1> DEFINE k == call[c].key
<1>1. TypeOK /\ c \in Process /\ isUp /\ call[c].step # "idle" /\ k \in Key
  BY LockFacts DEF LInv, DeleteSteps, DeleteMissing, DeleteTimesOut,
     DeleteRegistered, DeleteCheckpointEnds, DeleteCloses, DeleteDirectory, At,
     CallsHoldLock, Checkpointed, CheckpointThrows
<1>2. UNCHANGED <<server, counters>>
  BY DEF DeleteSteps, DeleteMissing, DeleteTimesOut, DeleteRegistered,
     DeleteCheckpointEnds, DeleteCloses, DeleteDirectory
<1>3. /\ \A what \in Fate, q \in Queue : Told(q, what) => fate' \in [Queue -> Fate]
      /\ fate' = fate => fate' \in [Queue -> Fate]
  BY <1>1 DEF TypeOK, Told
<1>4. ASSUME \/ DeleteMissing(c) \/ DeleteTimesOut(c) \/ DeleteCloses(c)
             \/ DeleteDirectory(c)
      PROVE  LInv'
  <2>1. call[c].step \in {"deleteWant", "close", "directory"}
        /\ UNCHANGED <<writer, registry, tempFile, queuesFile, checkpoint>>
    BY <1>4 DEF DeleteMissing, DeleteTimesOut, DeleteCloses, DeleteDirectory, At,
       disk
  <2>2. fate' \in [Queue -> Fate] /\ directory' \in [Key -> BOOLEAN]
        /\ database' \in [Key -> Owner]
    BY <1>1, <1>3, <1>4 DEF DeleteMissing, DeleteTimesOut, DeleteCloses,
       DeleteDirectory, ToldDeleted, Fate, TypeOK, Owner, disk
  <2>3. PICK new \in {Idle, [step |-> "directory", key |-> k]} :
           call' = [call EXCEPT ![c] = new]
    BY <1>1, <1>4, GotoKeepsKey DEF DeleteMissing, DeleteTimesOut, DeleteCloses,
       DeleteDirectory, Return
  <2>4. new \in [step: Step, key: Key \cup {Nobody}]
        /\ new.step \notin LockedStep /\ (new.step # "idle" => new.key \in Key)
    BY <1>1 DEF Idle, Step, LockedStep, CreateStep
  <2>5. TypeOK'
    BY <1>1, <1>2, <2>1, <2>2, <2>3, <2>4 DEF TypeOK, server, registry, counters
  <2>6. CallsHoldLock'
    BY <1>1, <2>1, <2>3, <2>4 DEF LInv, TypeOK, CallsHoldLock, Creating, At,
       LockedStep, CreateStep, registry
  <2> QED
    BY <1>2, <2>1, <2>5, <2>6 DEF LInv, NothingInMemory, server, registry
<1>5. CASE DeleteRegistered(c)
  <2>1. /\ call[c].step = "deleteWant" /\ LockFree /\ writer' = c
        /\ Remove(k)
        /\ checkpoint' = [checkpoint EXCEPT ![c] = "open"]
        /\ UNCHANGED disk
    BY <1>5 DEF DeleteRegistered, At
  <2>2. call' = [call EXCEPT ![c] = [step |-> "deleteCheckpoint", key |-> k]]
    BY <1>1, <1>5, GotoKeepsKey DEF DeleteRegistered
  <2>3. fate' \in [Queue -> Fate] /\ database' \in [Key -> Owner]
    BY <1>1, <1>3, <1>5 DEF DeleteRegistered, ToldNothing, Fate, TypeOK, Owner
  <2>4. config' \in [Key -> Cfg] /\ state' \in [Key -> QueueState]
    BY <1>1, <2>1 DEF TypeOK, Remove, Add, QueueState, Cfg
  <2>5. /\ call' \in [Caller -> [step: Step, key: Key \cup {Nobody}]]
        /\ checkpoint' \in [Process -> Phase]
        /\ \A o \in Process \ {c} : checkpoint'[o] = "none"
    BY <1>1, <2>1, <2>2, LockFacts DEF TypeOK, Step, Phase
  <2>6. TypeOK'
    BY <1>1, <1>2, <2>1, <2>3, <2>4, <2>5, LockFacts
    DEF TypeOK, server, counters, disk, Cfg
  <2>7. CallsHoldLock'
    BY <1>1, <2>1, <2>2, LockFacts DEF LInv, TypeOK, CallsHoldLock, Creating, At,
       LockedStep, CreateStep, LockFree
  <2> QED
    BY <1>1, <1>2, <2>6, <2>7 DEF LInv, NothingInMemory, server
<1>6. CASE DeleteCheckpointEnds(c)
  <2>1. /\ call[c].step = "deleteCheckpoint" /\ writer' = Nobody
        /\ UNCHANGED <<registry, directory>>
    BY <1>6 DEF DeleteCheckpointEnds, At
  <2>2. writer = c /\ \A o \in Process \ {c} : checkpoint[o] = "none"
    BY <2>1, LockFacts DEF LInv, CallsHoldLock, LockedStep
  <2>3. CheckpointStep(c) /\ checkpoint'[c] = "none"
    BY <1>1, <1>6, CheckpointedStep, ThrowsStep DEF DeleteCheckpointEnds, Phase
  <2>4. fate' \in [Queue -> Fate] /\ database' \in [Key -> Owner]
    BY <1>1, <1>3, <1>6 DEF DeleteCheckpointEnds, Fate, TypeOK, Owner
  <2>5. PICK new \in {Idle, [step |-> "close", key |-> k]} :
           call' = [call EXCEPT ![c] = new]
    BY <1>1, <1>6, GotoKeepsKey DEF DeleteCheckpointEnds, Return
  <2>6. /\ CallsHoldLock' /\ LockDiscipline'
        /\ call' \in [Caller -> [step: Step, key: Key \cup {Nobody}]]
        /\ writer' \in Caller \cup {Nobody}
    BY <1>1, <2>1, <2>2, <2>3, <2>5, HolderStep
    DEF CheckpointStep, Idle, Step, LockedStep, CreateStep
  <2>7. TypeOK'
    BY <1>1, <1>2, <2>1, <2>3, <2>4, <2>6
    DEF TypeOK, LockDiscipline, CheckpointStep, server, registry, counters
  <2> QED
    BY <1>1, <1>2, <2>6, <2>7 DEF LInv, NothingInMemory, server
<1> QED
  BY <1>4, <1>5, <1>6 DEF DeleteSteps

\* The checkpoints that hold the registry shared.
LEMMA ReadersKeepLock ==
    ASSUME LInv,
           \/ HeartbeatCheckpoint \/ HeartbeatCheckpointEnds
           \/ StopServer \/ StopSignals \/ StopCheckpointEnds \/ StopCloses
    PROVE  LInv'
<1>1. /\ TypeOK /\ "heartbeat" \in Process \ Caller /\ "stop" \in Process \ Caller
  BY LockFacts DEF LInv
<1>2. ASSUME isUp, UNCHANGED <<isUp, writer, config, directory, call, fate, counters>>,
             isRunning' \in {FALSE, isRunning},
             stopping' \in {"no", "signal", "checkpoint", "close", "exit"},
             stopping' # "no" => ~isRunning',
             state' \in [Key -> QueueState], database' \in [Key -> Owner],
             NEW p \in Process \ Caller, CheckpointStep(p),
             checkpoint'[p] # "none" => writer = Nobody \/ checkpoint[p] # "none"
      PROVE  LInv'
  <2>1. TypeOK'
    BY <1>1, <1>2, LockFacts DEF TypeOK, CheckpointStep, counters
  <2>2. CallsHoldLock'
    BY <1>1, <1>2, LockFacts DEF LInv, CallsHoldLock, Creating, At, CheckpointStep
  <2> QED
    BY <1>2, <2>1, <2>2 DEF LInv, NothingInMemory
<1>3. CASE HeartbeatCheckpoint
  <2>1. CheckpointStep("heartbeat")
    BY <1>1, <1>3 DEF TypeOK, HeartbeatCheckpoint, CheckpointStep, Phase, disk
  <2> QED
    BY <1>1, <1>2, <1>3, <2>1 DEF HeartbeatCheckpoint, TypeOK, LInv, NothingInMemory,
       server, registry, disk
<1>4. CASE HeartbeatCheckpointEnds
  <2>1. CheckpointStep("heartbeat") /\ checkpoint'["heartbeat"] = "none" /\ isUp
    BY <1>1, <1>4, CheckpointedStep, ThrowsStep
    DEF HeartbeatCheckpointEnds, Phase, Checkpointed, CheckpointThrows
  <2> QED
    BY <1>1, <1>2, <1>4, <2>1 DEF HeartbeatCheckpointEnds, TypeOK, LInv,
       NothingInMemory, server, registry
<1>5. CASE StopServer
  <2>1. CheckpointStep("stop")
    BY <1>1, <1>5 DEF TypeOK, StopServer, CheckpointStep, disk
  <2> QED
    BY <1>1, <1>2, <1>5, <2>1 DEF StopServer, TypeOK, registry, disk
<1>6. CASE StopSignals
  <2>1. CheckpointStep("stop")
    BY <1>1, <1>6 DEF TypeOK, StopSignals, CheckpointStep, Phase, disk
  <2>2. state' \in [Key -> QueueState]
    BY <1>6 DEF StopSignals, QueueState
  <2> QED
    BY <1>1, <1>2, <1>6, <2>1, <2>2 DEF StopSignals, TypeOK, LInv, NothingInMemory,
       disk
<1>7. CASE StopCheckpointEnds
  <2>1. CheckpointStep("stop") /\ checkpoint'["stop"] = "none" /\ isUp
    BY <1>1, <1>7, CheckpointedStep, ThrowsStep
    DEF StopCheckpointEnds, Phase, Checkpointed, CheckpointThrows
  <2>2. stopping # "no" /\ stopping' \in {"close", "exit"}
        /\ UNCHANGED <<isUp, isRunning, writer, registry, database, directory,
                       call, fate, counters>>
    BY <1>7 DEF StopCheckpointEnds
  <2> QED
    BY <1>1, <1>2, <2>1, <2>2 DEF TypeOK, LInv, NothingInMemory, registry
<1>8. CASE StopCloses
  <2>1. CheckpointStep("stop")
    BY <1>1, <1>8 DEF TypeOK, StopCloses, CheckpointStep, disk
  <2>2. database' \in [Key -> Owner]
    BY <1>1, <1>8, CloseType DEF StopCloses
  <2> QED
    BY <1>1, <1>2, <1>8, <2>1, <2>2 DEF StopCloses, TypeOK, LInv, NothingInMemory,
       registry, disk
<1> QED
  BY <1>3, <1>4, <1>5, <1>6, <1>7, <1>8

LEMMA ExitKeepsLock ==
    ASSUME LInv, Exit
    PROVE  LInv'
<1>1. Idle \in [step: Step, key: Key \cup {Nobody}] /\ Idle.step = "idle"
  BY DEF Idle, Step
<1>2. /\ config' \in [Key -> AnyConfig \cup {NoConfig}]
      /\ state' \in [Key -> QueueState] /\ database' \in [Key -> Owner]
      /\ checkpoint' \in [Process -> Phase]
      /\ call' \in [Caller -> [step: Step, key: Key \cup {Nobody}]]
  BY <1>1 DEF Exit, QueueState, Owner, Phase
<1>3. TypeOK'
  BY <1>2, LockFacts DEF LInv, TypeOK, Exit, disk, counters
<1>4. CallsHoldLock'
  BY <1>1, LockFacts DEF Exit, CallsHoldLock, Creating, At, LockedStep, CreateStep
<1> QED
  BY <1>3, <1>4 DEF LInv, NothingInMemory, Exit

LEMMA StartKeepsLock ==
    ASSUME LInv, Start
    PROVE  LInv'
<1>1. TypeOK
  BY DEF LInv
<1>2. config' \in [Key -> Cfg]
  <2>1. PICK kept \in [Key -> AnyConfig \cup {NoConfig}] : config' = kept
    BY DEF Start
  <2> QED
    BY <2>1 DEF Cfg
<1>3. state' \in [Key -> QueueState]
  BY DEF Start, QueueState
<1>4. database' \in [Key -> Owner]
  BY DEF Start, Owner
<1>5. directory' \in [Key -> BOOLEAN]
  BY <1>1 DEF Start, TypeOK, Listed
<1>6. restarts' \in 0..MaxRestarts /\ calls' = calls
  BY <1>1, RegistryAssumption DEF Start, TypeOK
<1>7. /\ UNCHANGED <<stopping, writer, tempFile, queuesFile, checkpoint, call, fate>>
      /\ isUp' = TRUE /\ isRunning' = TRUE /\ ~isUp
  BY DEF Start
<1>8. TypeOK'
  BY <1>1, <1>2, <1>3, <1>4, <1>5, <1>6, <1>7 DEF TypeOK, Cfg
<1>9. CallsHoldLock'
  BY <1>7, LockFacts DEF LInv, NothingInMemory, CallsHoldLock, Creating, At,
     LockedStep, CreateStep
<1> QED
  BY <1>7, <1>8, <1>9 DEF LInv, NothingInMemory

LEMMA StutterKeepsLock ==
    ASSUME LInv, UNCHANGED vars
    PROVE  LInv'
BY DEF LInv, TypeOK, CallsHoldLock, NothingInMemory, Creating, At, vars, server,
   registry, disk, counters

\* What one step is, for the proofs about what it keeps.
LEMMA StepCases ==
    ASSUME Next
    PROVE  \/ \E c \in Caller : Calls(c) \/ CreateSteps(c) \/ DeleteSteps(c)
           \/ \E p \in Caller \cup {"heartbeat", "stop"} : Writes(p)
           \/ HeartbeatCheckpoint \/ HeartbeatCheckpointEnds
           \/ StopServer \/ StopSignals \/ StopCheckpointEnds \/ StopCloses
           \/ Exit \/ Start
BY DEF Next, CallerSteps, HeartbeatSteps, StopSteps, StopEnds, Crash

LEMMA LockInvariance == Spec => []LInv
<1>1. ASSUME LInv, [Next]_vars PROVE LInv'
  <2>1. CASE Next
    BY <1>1, <2>1, StepCases, CallsKeepLock, CreateStepsKeepLock,
       DeleteStepsKeepLock, WritesKeepLock, ReadersKeepLock, ExitKeepsLock,
       StartKeepsLock DEF Process
  <2> QED
    BY <1>1, <2>1, StutterKeepsLock
<1> QED
  BY <1>1, InitLock, PTL DEF Spec

\* Every variable keeps its type, and the registry's lock is obeyed: whoever
\* checkpoints without it, the heartbeat or Stop, does so while no caller that
\* creates or deletes a queue has it.
THEOREM TypeCorrect == Spec => []TypeOK
BY LockInvariance, PTL DEF LInv

-----------------------------------------------------------------------------
(* Every queue of a running server is started.                             *)

\* A queue that is not started yet is one that a caller still works on.
OnItsWay(k) ==
    \E c \in Caller :
        /\ Creating(c)
        /\ \/ k = call[c].key
           \/ At(c, "companionCheckpoint") /\ k = DeadLetterOf(call[c].key)

RunsOrOnItsWay ==
    isRunning =>
        \A k \in Key : Registered(k) =>
            \/ state[k] \in {"running", "failed"} \/ NeverInitialized(k)
            \/ OnItsWay(k)

\* Only persistent queues get into the file.
HoldsPersistent(file) ==
    \A k \in Key : file.entries[k] # NoConfig => Persists(file.entries[k])

RInv == /\ RunsOrOnItsWay
        /\ HoldsPersistent(tempFile) /\ HoldsPersistent(queuesFile)

LEMMA PersistedHolds ==
    \A k \in Key : /\ Persisted[k] # NoConfig => Persists(Persisted[k])
                   /\ Persists(config[k]) => Persisted[k] = config[k]
                   /\ config[k] = NoConfig => Persisted[k] = NoConfig
BY ConfigFacts DEF Persisted

\* A checkpoint writes what is persistent, or moves what was written.
LEMMA FilesHold ==
    ASSUME LInv, RInv, NEW p \in Process, NEW next,
           Checkpointed(p, next) \/ CheckpointThrows(p) \/ Writes(p)
    PROVE  HoldsPersistent(tempFile)' /\ HoldsPersistent(queuesFile)'
<1>1. tempFile \in File /\ queuesFile \in File
  BY DEF LInv, TypeOK
<1>2. /\ tempFile'.entries \in {tempFile.entries, Persisted}
      /\ queuesFile'.entries \in {queuesFile.entries, tempFile.entries, Persisted}
  <2>1. CASE Checkpointed(p, next) \/ CheckpointThrows(p)
    BY <1>1, <2>1 DEF Checkpointed, CheckpointThrows, File
  <2>2. CASE BeginWrite(p)
    BY <1>1, <2>2 DEF BeginWrite, OpenTemp, Truncated, File
  <2>3. CASE EndWrite(p)
    BY <1>1, <2>3 DEF EndWrite, Written, File
  <2> QED
    BY <2>1, <2>2, <2>3 DEF Writes
<1> QED
  BY <1>2, PersistedHolds DEF RInv, HoldsPersistent

LEMMA SameRuns ==
    ASSUME RInv, isRunning' => isRunning,
           isRunning' => UNCHANGED <<registry, call>>
    PROVE  RunsOrOnItsWay'
BY DEF RInv, RunsOrOnItsWay, OnItsWay, Registered, NeverInitialized, Creating, At,
   registry

\* A caller that begins or goes on with a creation, or ends one.
LEMMA CreatingRuns ==
    ASSUME LInv, RInv, NEW c \in Caller, CreateSteps(c)
    PROVE  RunsOrOnItsWay'
<1> DEFINE q == call[c].key
           dlq == DeadLetterOf(q)
<1>1. TypeOK /\ Creating(c) /\ isRunning' = isRunning
  BY DEF LInv, CreateSteps, CreateCompanion, CompanionCheckpointEnds,
     CreateCheckpointEnds, At, Creating, CreateStep, server
<1>2. /\ q \in Queue /\ q \in Key /\ dlq \in Key /\ dlq # q
      /\ \A d \in Caller : Creating(d) => d = c
  BY <1>1, KeyFacts DEF LInv, CallsHoldLock, Creating, LockedStep
<1>3. ASSUME NEW k \in Key, isRunning, config[k] # NoConfig, k # q, k # dlq
      PROVE  state[k] \in {"running", "failed"} \/ NeverInitialized(k)
  BY <1>2, <1>3 DEF RInv, RunsOrOnItsWay, OnItsWay, Registered
<1>4. ASSUME isRunning, config[dlq] # NoConfig, ~At(c, "companionCheckpoint")
      PROVE  state[dlq] \in {"running", "failed"} \/ NeverInitialized(dlq)
  BY <1>2, <1>4 DEF RInv, RunsOrOnItsWay, OnItsWay, Registered
<1>5. ASSUME NEW S, RollBack(S), q \in S,
             dlq \in S \/ ~At(c, "companionCheckpoint")
      PROVE  RunsOrOnItsWay'
  <2>1. \A k \in Key : config'[k] = (IF k \in S THEN NoConfig ELSE config[k])
                       /\ state'[k] = IF k \in S THEN "none" ELSE state[k]
    BY <1>5 DEF RollBack
  <2> QED
    BY <1>1, <1>3, <1>4, <1>5, <2>1 DEF RunsOrOnItsWay, Registered, NeverInitialized
<1>6. CASE CreateCompanion(c)
  <2>1. At(c, "companion")
    BY <1>6 DEF CreateCompanion
  <2>2. CASE Goto(c, "checkpoint") /\ UNCHANGED registry
    <3>1. Creating(c)' /\ call'[c].key = q
      BY <1>1, <2>2, GotoKeepsKey DEF TypeOK, Creating, CreateStep
    <3> QED
      BY <1>1, <1>3, <1>4, <2>1, <2>2, <3>1
      DEF RunsOrOnItsWay, OnItsWay, Registered, NeverInitialized, At, registry
  <2>3. CASE /\ Goto(c, "companionCheckpoint")
             /\ Add(dlq, ToConfiguration(config[q]), "created")
    <3>1. Creating(c)' /\ call'[c].key = q /\ At(c, "companionCheckpoint")'
      BY <1>1, <2>3, GotoKeepsKey DEF TypeOK, Creating, CreateStep, At
    <3>2. \A k \in Key \ {dlq} : config'[k] = config[k] /\ state'[k] = state[k]
      BY <1>1, <2>3 DEF TypeOK, Add
    <3> QED
      BY <1>1, <1>3, <3>1, <3>2
      DEF RunsOrOnItsWay, OnItsWay, Registered, NeverInitialized
  <2>4. CASE RollBack({q})
    BY <1>5, <2>1, <2>4 DEF At
  <2> QED
    BY <1>6, <2>2, <2>3, <2>4 DEF CreateCompanion
<1>7. CASE CompanionCheckpointEnds(c)
  <2>1. CASE /\ state' = [state EXCEPT ![dlq] = "running"]
             /\ Goto(c, "checkpoint") /\ UNCHANGED config
    <3>1. Creating(c)' /\ call'[c].key = q
      BY <1>1, <2>1, GotoKeepsKey DEF TypeOK, Creating, CreateStep
    <3>2. state'[dlq] = "running" /\ \A k \in Key \ {dlq} : state'[k] = state[k]
      BY <1>1, <1>2, <2>1 DEF TypeOK
    <3> QED
      BY <1>1, <1>3, <2>1, <3>1, <3>2
      DEF RunsOrOnItsWay, OnItsWay, Registered, NeverInitialized
  <2>2. CASE RollBack({q, dlq})
    BY <1>5, <2>2
  <2> QED
    BY <1>7, <2>1, <2>2 DEF CompanionCheckpointEnds
<1>8. CASE CreateCheckpointEnds(c)
  <2>1. ~At(c, "companionCheckpoint")
    BY <1>8 DEF CreateCheckpointEnds, At
  <2>2. CASE state' = [state EXCEPT ![q] = "running"] /\ UNCHANGED config
    <3>1. state'[q] = "running" /\ \A k \in Key \ {q} : state'[k] = state[k]
      BY <1>1, <1>2, <2>2 DEF TypeOK
    <3> QED
      BY <1>1, <1>3, <1>4, <2>1, <2>2, <3>1
      DEF RunsOrOnItsWay, Registered, NeverInitialized
  <2>3. CASE RollBack({q})
    BY <1>5, <2>1, <2>3
  <2> QED
    BY <1>8, <2>2, <2>3 DEF CreateCheckpointEnds
<1> QED
  BY <1>6, <1>7, <1>8 DEF CreateSteps

LEMMA RunsStep ==
    ASSUME LInv, RInv, Next
    PROVE  RInv'
<1>1. ASSUME UNCHANGED <<tempFile, queuesFile>>
      PROVE  HoldsPersistent(tempFile)' /\ HoldsPersistent(queuesFile)'
  BY <1>1 DEF RInv, HoldsPersistent
<1>2. ASSUME NEW c \in Caller, Calls(c) PROVE RInv'
  <2>1. UNCHANGED <<isRunning, tempFile, queuesFile>> /\ call[c].step = "idle"
    BY <1>2 DEF Calls, CreateExisting, CreateQueue, CreateFailsToOpen, DeleteQueue,
       DeleteOnStoppingServer, server, disk, Call, At
  <2>2. ASSUME UNCHANGED registry,
               UNCHANGED call \/ \E k : Take(c, "deleteWant", k)
        PROVE  RunsOrOnItsWay'
    <3>1. \A d \in Caller : Creating(d) => call'[d] = call[d]
      BY <2>1, <2>2 DEF Take, LInv, TypeOK, Creating, CreateStep
    <3> QED
      BY <2>1, <2>2, <3>1 DEF RInv, RunsOrOnItsWay, OnItsWay, Registered,
         NeverInitialized, Creating, At, registry
  <2>3. ASSUME NEW q \in Queue, NEW cfg \in Config, CreateQueue(c, q, cfg)
        PROVE  RunsOrOnItsWay'
    <3>1. \A k \in Key \ {q} : config'[k] = config[k] /\ state'[k] = state[k]
      BY <2>3 DEF CreateQueue, Add, LInv, TypeOK
    <3>2. Creating(c)' /\ call'[c].key = q
      BY <2>3 DEF CreateQueue, LInv, TypeOK, Creating, CreateStep
    <3>3. \A d \in Caller : ~Creating(d)
      BY <2>3, LockFacts DEF CreateQueue, LockFree, Creating, LockedStep
    <3> QED
      BY <2>1, <3>1, <3>2, <3>3 DEF RInv, RunsOrOnItsWay, OnItsWay, Registered,
         NeverInitialized
  <2> QED
    BY <1>1, <1>2, <2>1, <2>2, <2>3 DEF RInv, Calls, CreateExisting,
       CreateFailsToOpen, DeleteQueue, DeleteOnStoppingServer
<1>3. ASSUME NEW c \in Caller, CreateSteps(c) PROVE RInv'
  <2>1. c \in Process
    BY LockFacts
  <2>2. \/ UNCHANGED <<tempFile, queuesFile>>
        \/ \E next : Checkpointed(c, next) \/ CheckpointThrows(c)
    BY <1>3 DEF CreateSteps, CreateCompanion, CompanionCheckpointEnds,
       CreateCheckpointEnds
  <2> QED
    BY <1>1, <1>3, <2>1, <2>2, CreatingRuns, FilesHold DEF RInv
<1>4. ASSUME NEW c \in Caller, DeleteSteps(c) PROVE RInv'
  <2>1. c \in Process /\ isRunning' = isRunning
    BY <1>4, LockFacts DEF DeleteSteps, DeleteMissing, DeleteTimesOut,
       DeleteRegistered, DeleteCheckpointEnds, DeleteCloses, DeleteDirectory, server
  <2>2. \/ UNCHANGED <<tempFile, queuesFile>>
        \/ \E next : Checkpointed(c, next) \/ CheckpointThrows(c)
    BY <1>4 DEF DeleteSteps, DeleteMissing, DeleteTimesOut, DeleteRegistered,
       DeleteCheckpointEnds, DeleteCloses, DeleteDirectory, disk
  <2>3. /\ ~Creating(c)
        /\ \E new : call' = [call EXCEPT ![c] = new]
        /\ \A k \in Key : config'[k] # NoConfig =>
              config'[k] = config[k] /\ state'[k] = state[k]
    BY <1>4 DEF DeleteSteps, DeleteMissing, DeleteTimesOut, DeleteRegistered,
       DeleteCheckpointEnds, DeleteCloses, DeleteDirectory, Return, Goto, At,
       Creating, CreateStep, Remove, Add, LInv, TypeOK, registry
  <2>4. \A d \in Caller : Creating(d) => call'[d] = call[d]
    BY <2>3 DEF LInv, TypeOK
  <2>5. RunsOrOnItsWay'
    BY <2>1, <2>3, <2>4 DEF RInv, RunsOrOnItsWay, OnItsWay, Registered,
       NeverInitialized, Creating, At
  <2> QED
    BY <1>1, <2>1, <2>2, <2>5, FilesHold DEF RInv
<1>5. ASSUME NEW p \in Process, Writes(p) PROVE RInv'
  BY <1>5, WritesStep, FilesHold, SameRuns DEF LInv, RInv, server
<1>6. CASE HeartbeatCheckpoint \/ StopServer \/ StopSignals \/ StopCloses
  <2>1. UNCHANGED <<tempFile, queuesFile, call>> /\ (isRunning' => isRunning)
        /\ (isRunning' => UNCHANGED registry)
    BY <1>6 DEF HeartbeatCheckpoint, StopServer, StopSignals, StopCloses, server,
       disk, LInv, NothingInMemory
  <2> QED
    BY <1>1, <2>1, SameRuns DEF RInv
<1>7. CASE HeartbeatCheckpointEnds \/ StopCheckpointEnds
  <2>1. UNCHANGED <<isRunning, call, registry>>
    BY <1>7 DEF HeartbeatCheckpointEnds, StopCheckpointEnds, server
  <2>2. \E p \in Process : Checkpointed(p, "none") \/ CheckpointThrows(p)
    BY <1>7, LockFacts DEF HeartbeatCheckpointEnds, StopCheckpointEnds
  <2> QED
    BY <2>1, <2>2, SameRuns, FilesHold DEF RInv
<1>8. CASE Exit
  BY <1>1, <1>8 DEF RInv, Exit, RunsOrOnItsWay, disk
<1>9. CASE Start
  <2>1. /\ UNCHANGED <<tempFile, queuesFile>>
        /\ \A k \in Queue : config'[k] = Saved[k]
    BY <1>9, KeyFacts DEF Start, Kept
  <2>2. ASSUME NEW k \in Key, config'[k] # NoConfig,
               ~(state'[k] \in {"running", "failed"})
        PROVE  ~Persists(config'[k])
    BY <1>9, <2>2 DEF Start
  <2>3. \A k \in Queue : config'[k] # NoConfig => Persists(config'[k])
    BY <1>1, <2>1, KeyFacts DEF RInv, HoldsPersistent, Saved, NoFile
  <2>4. RunsOrOnItsWay'
    BY <2>2, <2>3 DEF RunsOrOnItsWay, Registered, NeverInitialized
  <2> QED
    BY <1>1, <2>1, <2>4 DEF RInv
<1> QED
  BY <1>2, <1>3, <1>4, <1>5, <1>6, <1>7, <1>8, <1>9, StepCases DEF Process

\* Every queue in the registry of a running server is started, unless its
\* database failed to open or it is an ephemeral companion that Start left
\* uninitialized: no roll-back, failed deletion or restart leaves another.
THEOREM QueuesRun == Spec => []EveryQueueRuns
<1>1. Init => RInv
  BY DEF Init, RInv, RunsOrOnItsWay, Registered, HoldsPersistent, NoFile
<1>2. LInv /\ RInv /\ [Next]_vars => RInv'
  <2>1. LInv /\ RInv /\ UNCHANGED vars => RInv'
    BY SameRuns DEF vars, RInv, HoldsPersistent, server, registry, disk
  <2> QED
    BY <2>1, RunsStep
<1>3. LInv /\ RInv => EveryQueueRuns
  BY LockFacts DEF RInv, RunsOrOnItsWay, OnItsWay, EveryQueueRuns, LockFree,
     Creating, LockedStep
<1> QED
  BY <1>1, <1>2, <1>3, LockInvariance, PTL DEF Spec

-----------------------------------------------------------------------------
(* What was reported is in the file, as long as CheckpointsAreSafe.  Two    *)
(* checkpoints meet only when Stop's overtakes the heartbeat's; then nothing *)
(* may leave a half-written file behind that the other would move.          *)

StopCheckpoints ==
    /\ "stop" \notin Environment => stopping = "no"
    /\ checkpoint["stop"] # "none" => stopping = "checkpoint"

OneWriter ==
    /\ \A p \in Process : checkpoint[p] # "writeMoved"
    /\ \A p, o \in Process :
          checkpoint[p] = "write" /\ checkpoint[o] = "write" => p = o
    /\ tempFile.shared = FALSE

\* What somebody is about to move is whole, and is what the registry holds:
\* the one who wrote it may be another, but has the lock in common with it.
TempIsReady ==
    /\ \E p \in Process : checkpoint[p] = "move"
    /\ \A p \in Process : checkpoint[p] # "write"
    /\ tempFile.exists
    => tempFile.whole /\ tempFile.entries = Persisted

CreatingQueue(q) == \E c \in Caller : Creating(c) /\ call[c].key = q

\* What a caller was told of a queue, what the registry has and what the file.
Remembers(q) ==
    /\ fate[q] = "created" =>
          /\ Persists(queuesFile.entries[q])
          /\ isUp => Persists(config[q])
    /\ fate[q] = "deleted" =>
          config[q] = NoConfig /\ queuesFile.entries[q] = NoConfig
    /\ isUp /\ Persists(config[q]) /\ ~CreatingQueue(q) =>
          queuesFile.entries[q] = config[q]

DeletedIsGone ==
    \A c \in Caller : At(c, "deleteCheckpoint") => config[call[c].key] = NoConfig

FInv == /\ StopCheckpoints /\ OneWriter /\ TempIsReady /\ queuesFile.whole
        /\ DeletedIsGone /\ \A q \in Queue : Remembers(q)

\* But for heartbeat and Stop nobody checkpoints while another does.
LEMMA Alone ==
    ASSUME LInv, NoOverlap, NEW p \in Process, checkpoint[p] # "none"
    PROVE  \A o \in Process \ {p} : checkpoint[o] = "none"
BY LockFacts DEF LInv, TypeOK, NoOverlap, Process

LEMMA AFileIsWrittenByOne ==
    ASSUME CheckpointsAreSafe, LInv, NEW p \in Process, checkpoint[p] # "none",
           TempIsOpen(p) => ~OpenFilesLocked
    PROVE  ~TempIsOpen(p)
BY Alone DEF CheckpointsAreSafe, TempIsOpen, Others

LEMMA MovesPersisted ==
    ASSUME CheckpointsAreSafe, LInv, FInv, NEW p \in Process,
           NEW next \in {"none", "open"}, Checkpointed(p, next)
    PROVE  /\ queuesFile'.whole /\ queuesFile'.entries = Persisted
           /\ OneWriter' /\ (config' = config => TempIsReady')
<1>1. /\ checkpoint[p] = "move" /\ tempFile.exists /\ queuesFile' = tempFile
      /\ tempFile' = [tempFile EXCEPT !.exists = FALSE]
      /\ tempFile \in File /\ checkpoint \in [Process -> Phase]
      /\ TempIsOpen(p) => ~OpenFilesLocked
  BY DEF Checkpointed, LInv, TypeOK
<1>2. \A o \in Process : checkpoint[o] # "write"
  BY <1>1, AFileIsWrittenByOne DEF TempIsOpen, Others
<1>3. tempFile.whole /\ tempFile.entries = Persisted
  BY <1>1, <1>2 DEF FInv, TempIsReady
<1>4. tempFile'.exists = FALSE /\ tempFile'.shared = FALSE
  BY <1>1 DEF File, FInv, OneWriter
<1>5. OneWriter'
  BY <1>1, <1>2, <1>4 DEF FInv, OneWriter, Checkpointed
<1> QED
  BY <1>1, <1>3, <1>4, <1>5 DEF TempIsReady

LEMMA ThrowsHarmlessly ==
    ASSUME CheckpointsAreSafe, LInv, FInv, NEW p \in Process, CheckpointThrows(p)
    PROVE  /\ UNCHANGED <<tempFile, queuesFile>>
           /\ OneWriter' /\ (config' = config => TempIsReady')
<1>1. /\ UNCHANGED <<tempFile, queuesFile>> /\ checkpoint[p] # "none"
      /\ checkpoint' = [checkpoint EXCEPT ![p] = "none"]
      /\ checkpoint \in [Process -> Phase]
      /\ checkpoint[p] = "write" => "writeFailure" \in Environment
  BY DEF CheckpointThrows, LInv, TypeOK, FailsAt, FInv, OneWriter
<1>2. OneWriter'
  BY <1>1 DEF FInv, OneWriter
<1>3. ASSUME config' = config PROVE TempIsReady'
  <2>1. CASE checkpoint[p] = "write"
    <3>1. \A o \in Process \ {p} : checkpoint[o] = "none"
      BY <1>1, <2>1, Alone DEF CheckpointsAreSafe, FInv
    <3> QED
      BY <1>1, <3>1 DEF TempIsReady
  <2>2. CASE checkpoint[p] # "write"
    BY <1>1, <1>3, <2>2 DEF FInv, TempIsReady, Persisted
  <2> QED
    BY <2>1, <2>2
<1> QED
  BY <1>1, <1>2, <1>3

LEMMA WritesPersisted ==
    ASSUME CheckpointsAreSafe, LInv, FInv, NEW p \in Process, Writes(p)
    PROVE  queuesFile' = queuesFile /\ OneWriter' /\ TempIsReady'
<1>1. checkpoint \in [Process -> Phase] /\ tempFile \in File /\ config' = config
  BY WritesStep DEF LInv, TypeOK, registry
<1>2. CASE BeginWrite(p)
  <2>1. /\ ~TempIsOpen(p)
        /\ checkpoint' = [checkpoint EXCEPT ![p] = "write"]
        /\ queuesFile' = queuesFile /\ tempFile' = Truncated(p)
    BY <1>2, AFileIsWrittenByOne DEF BeginWrite, OpenTemp
  <2>2. \A o \in Process \ {p} : checkpoint[o] # "write"
    BY <2>1 DEF TempIsOpen, Others
  <2>3. tempFile'.shared = FALSE
    BY <1>1, <2>1 DEF Truncated, File
  <2> QED
    BY <1>1, <2>1, <2>2, <2>3 DEF FInv, OneWriter, TempIsReady
<1>3. CASE EndWrite(p)
  <2>1. /\ checkpoint[p] = "write" /\ tempFile' \in Written(tempFile)
        /\ checkpoint' = [checkpoint EXCEPT ![p] = "move"]
        /\ queuesFile' = queuesFile
    BY <1>3 DEF EndWrite, FInv, OneWriter
  <2>2. tempFile'.whole /\ tempFile'.entries = Persisted
        /\ tempFile'.shared = FALSE
    BY <1>1, <2>1 DEF Written, File, FInv, OneWriter
  <2>3. Persisted' = Persisted
    BY <1>1 DEF Persisted
  <2> QED
    BY <1>1, <2>1, <2>2, <2>3 DEF FInv, OneWriter, TempIsReady
<1> QED
  BY <1>2, <1>3 DEF Writes

\* Once the file holds what the registry does, every caller is told the truth.
LEMMA FileAgrees ==
    ASSUME LInv, FInv, queuesFile'.entries = Persisted, UNCHANGED <<config, isUp>>,
           isUp, NEW q \in Queue,
           \/ fate'[q] = fate[q] \/ fate'[q] \notin {"created", "deleted"}
           \/ fate'[q] = "created" /\ Persists(config[q])
           \/ fate'[q] = "deleted" /\ config[q] = NoConfig
    PROVE  Remembers(q)'
BY KeyFacts, PersistedHolds DEF FInv, Remembers

\* A step that leaves registry and file alone.
LEMMA StillRemembers ==
    ASSUME LInv, FInv, NEW q \in Queue, config'[q] = config[q],
           isUp' => isUp, UNCHANGED queuesFile,
           fate'[q] = fate[q] \/ fate'[q] \notin {"created", "deleted"},
           CreatingQueue(q) => CreatingQueue(q)' \/ ~Persists(config[q])
    PROVE  Remembers(q)'
BY DEF FInv, Remembers

\* While nobody checkpoints, or nobody moves a file, the files are as they were.
LEMMA NobodyMoves ==
    ASSUME FInv, UNCHANGED <<tempFile, queuesFile>>,
           \A p \in Process : checkpoint'[p] \in {"none", "open"}
    PROVE  OneWriter' /\ TempIsReady' /\ queuesFile'.whole
BY DEF FInv, OneWriter, TempIsReady

LEMMA CallsRemember ==
    ASSUME LInv, FInv, NEW c \in Caller, Calls(c)
    PROVE  FInv'
<1>1. /\ call[c].step = "idle" /\ ~Creating(c) /\ isUp /\ c \in Process
      /\ UNCHANGED <<isUp, stopping, tempFile, queuesFile>>
  BY LockFacts DEF Calls, CreateExisting, CreateQueue, CreateFailsToOpen,
     DeleteQueue, DeleteOnStoppingServer, server, disk, Call, At, Creating,
     CreateStep
<1>2. ASSUME NEW q \in Queue, NEW cfg \in Config, CreateQueue(c, q, cfg)
      PROVE  FInv'
  <2>1. /\ LockFree /\ config' = [config EXCEPT ![q] = cfg]
        /\ fate' = [fate EXCEPT ![q] = "unknown"]
        /\ checkpoint' \in {checkpoint, [checkpoint EXCEPT ![c] = "open"]}
        /\ \E step \in CreateStep :
              call' = [call EXCEPT ![c] = [step |-> step, key |-> q]]
    BY <1>2 DEF CreateQueue, Add, Told, CreateStep
  <2>2. \A p \in Process : checkpoint[p] = "none"
    BY <2>1, LockFacts
  <2>3. StopCheckpoints'
    BY <1>1, <2>1, LockFacts DEF FInv, StopCheckpoints, LInv, TypeOK
  <2>4. OneWriter' /\ TempIsReady' /\ queuesFile'.whole
    BY <1>1, <2>1, <2>2, NobodyMoves DEF LInv, TypeOK
  <2>5. Creating(c)' /\ call'[c].key = q /\ call'[c].step # "deleteCheckpoint"
        /\ \A d \in Caller \ {c} : call'[d] = call[d]
    BY <2>1 DEF LInv, TypeOK, Creating, CreateStep
  <2>6. \A d \in Caller : call[d].step \notin LockedStep
    BY <2>1, LockFacts DEF LockFree
  <2>7. DeletedIsGone'
    BY <2>5, <2>6 DEF DeletedIsGone, At, LockedStep
  <2>8. ASSUME NEW r \in Queue PROVE Remembers(r)'
    <3>1. CASE r = q
      BY <1>1, <2>1, <2>5, <3>1 DEF Remembers, CreatingQueue, LInv, TypeOK
    <3>2. CASE r # q
      <4>1. config'[r] = config[r] /\ fate'[r] = fate[r]
        BY <2>1, <3>2, KeyFacts DEF LInv, TypeOK
      <4>2. ~CreatingQueue(r)
        BY <2>6 DEF CreatingQueue, Creating, LockedStep
      <4> QED
        BY <1>1, <4>1, <4>2, StillRemembers
    <3> QED
      BY <3>1, <3>2
  <2> QED
    BY <2>3, <2>4, <2>7, <2>8 DEF FInv
<1>3. ASSUME UNCHANGED <<config, checkpoint>>,
             UNCHANGED call \/ \E k : Take(c, "deleteWant", k),
             \A q \in Queue :
                \/ fate'[q] = fate[q] \/ fate'[q] \notin {"created", "deleted"}
                \/ /\ fate'[q] = "created" /\ Persists(config[q])
                   /\ ~CreatingQueue(q)
      PROVE  FInv'
  <2>1. /\ \A d \in Caller : Creating(d) => call'[d] = call[d]
        /\ \A d \in Caller : At(d, "deleteCheckpoint")' => call'[d] = call[d]
    BY <1>1, <1>3 DEF Take, LInv, TypeOK, Creating, At, CreateStep
  <2>2. StopCheckpoints' /\ OneWriter' /\ TempIsReady' /\ queuesFile'.whole
    BY <1>1, <1>3 DEF FInv, StopCheckpoints, OneWriter, TempIsReady, Persisted
  <2>3. DeletedIsGone'
    BY <1>3, <2>1 DEF FInv, DeletedIsGone, At
  <2>4. ASSUME NEW q \in Queue PROVE Remembers(q)'
    <3>1. CreatingQueue(q) => CreatingQueue(q)'
      BY <2>1 DEF CreatingQueue, Creating
    <3>2. CASE fate'[q] = fate[q] \/ fate'[q] \notin {"created", "deleted"}
      BY <1>1, <1>3, <3>1, <3>2, StillRemembers
    <3>3. CASE fate'[q] = "created" /\ Persists(config[q]) /\ ~CreatingQueue(q)
      BY <1>1, <1>3, <3>3 DEF FInv, Remembers
    <3> QED
      BY <1>3, <3>2, <3>3
  <2> QED
    BY <2>2, <2>3, <2>4 DEF FInv
<1>4. ASSUME NEW q \in Queue, CreateExisting(c, q)
      PROVE  FInv'
  <2>1. ~CreatingQueue(q)
    BY <1>4, LockFacts DEF CreateExisting, LockFree, CreatingQueue, Creating,
       LockedStep
  <2> QED
    BY <1>3, <1>4, <2>1 DEF CreateExisting, ToldCreated, Told, LInv, TypeOK, registry
<1>5. ASSUME NEW q \in Queue, NEW cfg \in Config, CreateFailsToOpen(c, q, cfg)
      PROVE  FInv'
  BY <1>3, <1>5 DEF CreateFailsToOpen, Told, LInv, TypeOK, registry
<1>6. ASSUME NEW k \in Key, DeleteQueue(c, k) \/ DeleteOnStoppingServer(c, k)
      PROVE  FInv'
  BY <1>3, <1>6 DEF DeleteQueue, DeleteOnStoppingServer, ToldDeleted, Told, LInv,
     TypeOK, registry
<1> QED
  BY <1>2, <1>4, <1>5, <1>6 DEF Calls

LEMMA CreateStepsRemember ==
    ASSUME CheckpointsAreSafe, LInv, FInv, NEW c \in Caller, CreateSteps(c)
    PROVE  FInv'
<1> DEFINE q == call[c].key
           dlq == DeadLetterOf(q)
<1>1. /\ Creating(c) /\ isUp /\ UNCHANGED <<isUp, stopping>>
  BY DEF CreateSteps, CreateCompanion, CompanionCheckpointEnds,
     CreateCheckpointEnds, At, Creating, CreateStep, server, Checkpointed,
     CheckpointThrows
<1>2. /\ q \in Queue /\ dlq \notin Queue /\ c \in Process /\ c # "stop"
      /\ \A d \in Caller : call[d].step \in LockedStep => d = c
      /\ \A o \in Process \ {c} : checkpoint[o] = "none"
  BY <1>1, KeyFacts, LockFacts DEF LInv, CallsHoldLock, Creating, LockedStep
<1>3. ASSUME OneWriter', TempIsReady', queuesFile'.whole,
             checkpoint'["stop"] = checkpoint["stop"],
             \A d \in Caller \ {c} : call'[d] = call[d],
             call'[c].step # "deleteCheckpoint",
             \A r \in Queue : Remembers(r)'
      PROVE  FInv'
  <2>1. StopCheckpoints' /\ DeletedIsGone'
    BY <1>1, <1>2, <1>3 DEF FInv, StopCheckpoints, DeletedIsGone, At, LockedStep
  <2> QED
    BY <1>3, <2>1 DEF FInv
<1>4. ASSUME NEW S, RollBack(S), q \in S, S \cap Queue \subseteq {q},
             CreateEnds(c, "failed"), queuesFile' = queuesFile,
             CheckpointThrows(c) \/ UNCHANGED <<checkpoint, tempFile>>,
             CheckpointThrows(c) \/ checkpoint[c] = "none"
      PROVE  FInv'
  <2>1. /\ fate' = [fate EXCEPT ![q] = "failed"]
        /\ call' = [call EXCEPT ![c] = Idle]
        /\ config' = [k \in Key |-> IF k \in S THEN NoConfig ELSE config[k]]
    BY <1>4 DEF CreateEnds, Return, Told, RollBack
  <2>2. \A d \in Caller \ {c} : call'[d] = call[d]
    BY <2>1 DEF LInv, TypeOK
  <2>3. call'[c].step = "idle"
    BY <2>1 DEF LInv, TypeOK, Idle
  <2>4. UNCHANGED <<tempFile, queuesFile>>
        /\ \A p \in Process : checkpoint'[p] = "none"
    BY <1>2, <1>4 DEF CheckpointThrows, LInv, TypeOK
  <2>5. ASSUME NEW r \in Queue PROVE Remembers(r)'
    <3>1. CASE r = q
      BY <1>4, <2>1, <3>1, KeyFacts, ConfigFacts DEF Remembers, LInv, TypeOK
    <3>2. CASE r # q
      <4>1. config'[r] = config[r] /\ fate'[r] = fate[r]
        BY <1>4, <2>1, <3>2, KeyFacts DEF LInv, TypeOK
      <4>2. ~CreatingQueue(r)
        BY <1>2, <3>2 DEF CreatingQueue, Creating, LockedStep
      <4> QED
        BY <1>1, <1>4, <4>1, <4>2, StillRemembers
    <3> QED
      BY <3>1, <3>2
  <2> QED
    BY <1>2, <1>3, <2>2, <2>3, <2>4, <2>5, NobodyMoves, LockFacts
<1>5. ASSUME NEW next \in {"none", "open"}, Checkpointed(c, next),
             config' = config,
             \A d \in Caller \ {c} : call'[d] = call[d],
             call'[c].step # "deleteCheckpoint",
             \A r \in Queue : \/ fate'[r] = fate[r]
                              \/ fate'[r] \notin {"created", "deleted"}
                              \/ fate'[r] = "created" /\ Persists(config[r])
      PROVE  FInv'
  <2>1. queuesFile'.whole /\ queuesFile'.entries = Persisted
        /\ OneWriter' /\ TempIsReady'
    BY <1>2, <1>5, MovesPersisted
  <2>2. \A r \in Queue : Remembers(r)'
    BY <1>1, <1>5, <2>1, FileAgrees
  <2>3. checkpoint'["stop"] = checkpoint["stop"]
    BY <1>2, <1>5, LockFacts DEF Checkpointed
  <2> QED
    BY <1>3, <1>5, <2>1, <2>2, <2>3
<1>6. CASE CreateCompanion(c)
  <2>1. checkpoint[c] = "none" /\ UNCHANGED <<tempFile, queuesFile>>
    BY <1>6 DEF CreateCompanion, LInv, CallsHoldLock
  <2>2. CASE /\ checkpoint' = [checkpoint EXCEPT ![c] = "open"]
             /\ UNCHANGED fate
             /\ UNCHANGED config \/ \E cfg : Add(dlq, cfg, "created")
             /\ \E step \in {"checkpoint", "companionCheckpoint"} : Goto(c, step)
    <3>1. PICK step \in {"checkpoint", "companionCheckpoint"} :
             call' = [call EXCEPT ![c] = [step |-> step, key |-> q]]
      BY <2>2, GotoKeepsKey DEF LInv
    <3>2. /\ \A d \in Caller \ {c} : call'[d] = call[d]
          /\ Creating(c)' /\ call'[c].key = q
          /\ call'[c].step # "deleteCheckpoint"
      BY <3>1 DEF LInv, TypeOK, Creating, CreateStep
    <3>3. \A r \in Queue : config'[r] = config[r]
      BY <1>2, <2>2, KeyFacts DEF Add, LInv, TypeOK
    <3>4. \A r \in Queue : CreatingQueue(r) => CreatingQueue(r)'
      BY <1>2, <3>2 DEF CreatingQueue, Creating, LockedStep
    <3>5. \A r \in Queue : Remembers(r)'
      BY <1>1, <2>1, <2>2, <3>3, <3>4, StillRemembers
    <3>6. OneWriter' /\ TempIsReady' /\ queuesFile'.whole
      BY <1>2, <2>1, <2>2, NobodyMoves DEF LInv, TypeOK
    <3> QED
      BY <1>2, <1>3, <2>2, <3>2, <3>5, <3>6, LockFacts DEF LInv, TypeOK
  <2>3. CASE RollBack({q}) /\ CreateEnds(c, "failed") /\ UNCHANGED checkpoint
    BY <1>4, <2>1, <2>3
  <2> QED
    BY <1>6, <2>2, <2>3 DEF CreateCompanion, registry
<1>7. CASE CompanionCheckpointEnds(c)
  <2>1. CASE /\ Checkpointed(c, "open") /\ Goto(c, "checkpoint")
             /\ UNCHANGED <<config, fate>>
    <3>1. call' = [call EXCEPT ![c] = [step |-> "checkpoint", key |-> q]]
      BY <2>1, GotoKeepsKey DEF LInv
    <3>2. /\ \A d \in Caller \ {c} : call'[d] = call[d]
          /\ call'[c].step # "deleteCheckpoint"
      BY <3>1 DEF LInv, TypeOK
    <3> QED
      BY <1>5, <2>1, <3>2
  <2>2. CASE /\ CheckpointThrows(c)
             /\ RollBack({q, dlq}) /\ CreateEnds(c, "failed")
    BY <1>2, <1>4, <2>2 DEF CheckpointThrows
  <2> QED
    BY <1>7, <2>1, <2>2 DEF CompanionCheckpointEnds
<1>8. CASE CreateCheckpointEnds(c)
  <2>1. CASE Checkpointed(c, "none") /\ CreateEnds(c, "created") /\ UNCHANGED config
    <3>1. call' = [call EXCEPT ![c] = Idle]
      BY <2>1 DEF CreateEnds, Return
    <3>2. /\ \A d \in Caller \ {c} : call'[d] = call[d]
          /\ call'[c].step # "deleteCheckpoint"
      BY <3>1 DEF LInv, TypeOK, Idle
    <3>3. \A r \in Queue : \/ fate'[r] = fate[r]
                           \/ fate'[r] \notin {"created", "deleted"}
                           \/ fate'[r] = "created" /\ Persists(config[r])
      BY <1>2, <2>1 DEF CreateEnds, ToldCreated, Told, LInv, TypeOK
    <3> QED
      BY <1>5, <2>1, <3>2, <3>3
  <2>2. CASE CheckpointThrows(c) /\ RollBack({q}) /\ CreateEnds(c, "failed")
    BY <1>4, <2>2 DEF CheckpointThrows
  <2> QED
    BY <1>8, <2>1, <2>2 DEF CreateCheckpointEnds
<1> QED
  BY <1>6, <1>7, <1>8 DEF CreateSteps

LEMMA DeleteStepsRemember ==
    ASSUME CheckpointsAreSafe, LInv, FInv, NEW c \in Caller, DeleteSteps(c)
    PROVE  FInv'
<1> DEFINE k == call[c].key
<1>1. /\ isUp /\ UNCHANGED <<isUp, stopping>> /\ ~Creating(c)
      /\ call[c].step # "idle" /\ k \in Key /\ c \in Process /\ c # "stop"
  BY LockFacts DEF DeleteSteps, DeleteMissing, DeleteTimesOut, DeleteRegistered,
     DeleteCheckpointEnds, DeleteCloses, DeleteDirectory, At, Creating, CreateStep,
     server, Checkpointed, CheckpointThrows, LInv, CallsHoldLock
<1>2. ASSUME NEW new, call' = [call EXCEPT ![c] = new],
             new.step \in Step \ CreateStep
      PROVE  /\ call'[c] = new /\ \A d \in Caller \ {c} : call'[d] = call[d]
             /\ \A q \in Queue : CreatingQueue(q) => CreatingQueue(q)'
  BY <1>1, <1>2 DEF CreatingQueue, Creating, LInv, TypeOK
<1>3. ASSUME \/ DeleteMissing(c) \/ DeleteTimesOut(c) \/ DeleteCloses(c)
             \/ DeleteDirectory(c)
      PROVE  FInv'
  <2>1. UNCHANGED <<config, tempFile, queuesFile, checkpoint>>
    BY <1>3 DEF DeleteMissing, DeleteTimesOut, DeleteCloses, DeleteDirectory,
       registry, disk
  <2>2. PICK new \in {Idle, [step |-> "directory", key |-> k]} :
           call' = [call EXCEPT ![c] = new]
    BY <1>3, GotoKeepsKey DEF DeleteMissing, DeleteTimesOut, DeleteCloses,
       DeleteDirectory, Return, LInv
  <2>3. new.step \in Step \ CreateStep /\ new.step # "deleteCheckpoint"
    BY DEF Idle, Step, CreateStep
  <2>4. \A q \in Queue : fate'[q] = fate[q] \/ fate'[q] = "reported"
    BY <1>3 DEF DeleteMissing, DeleteTimesOut, DeleteCloses, DeleteDirectory,
       ToldDeleted, Told, LInv, TypeOK
  <2>5. \A q \in Queue : Remembers(q)'
    BY <1>1, <1>2, <2>1, <2>2, <2>3, <2>4, StillRemembers
  <2>6. DeletedIsGone'
    BY <1>2, <2>1, <2>2, <2>3 DEF FInv, DeletedIsGone, At
  <2> QED
    BY <1>1, <2>1, <2>5, <2>6
    DEF FInv, StopCheckpoints, OneWriter, TempIsReady, Persisted
<1>4. CASE DeleteRegistered(c)
  <2>1. /\ LockFree /\ config' = [config EXCEPT ![k] = NoConfig]
        /\ ToldNothing(k) /\ UNCHANGED <<tempFile, queuesFile>>
        /\ checkpoint' = [checkpoint EXCEPT ![c] = "open"]
        /\ call' = [call EXCEPT ![c] = [step |-> "deleteCheckpoint", key |-> k]]
    BY <1>4, GotoKeepsKey DEF DeleteRegistered, Remove, Add, disk, LInv
  <2>2. /\ \A p \in Process : checkpoint[p] = "none"
        /\ \A d \in Caller : call[d].step \notin LockedStep
    BY <2>1, LockFacts DEF LockFree
  <2>3. StopCheckpoints' /\ OneWriter' /\ TempIsReady' /\ queuesFile'.whole
    BY <1>1, <2>1, <2>2, NobodyMoves, LockFacts DEF FInv, StopCheckpoints, LInv, TypeOK
  <2>4. call'[c].key = k /\ \A d \in Caller \ {c} : call'[d] = call[d]
    BY <2>1 DEF LInv, TypeOK
  <2>5. DeletedIsGone'
    BY <1>1, <2>1, <2>2, <2>4 DEF DeletedIsGone, At, LockedStep, LInv, TypeOK
  <2>6. ASSUME NEW q \in Queue PROVE Remembers(q)'
    <3>1. CASE q = k
      BY <1>1, <2>1, <3>1, ConfigFacts DEF Remembers, ToldNothing, Told, LInv, TypeOK
    <3>2. CASE q # k
      <4>1. config'[q] = config[q]
            /\ (fate'[q] = fate[q] \/ fate'[q] \notin {"created", "deleted"})
        BY <2>1, <3>2, KeyFacts DEF ToldNothing, Told, LInv, TypeOK
      <4>2. ~CreatingQueue(q)
        BY <2>2 DEF CreatingQueue, Creating, LockedStep
      <4> QED
        BY <1>1, <2>1, <4>1, <4>2, StillRemembers
    <3> QED
      BY <3>1, <3>2
  <2> QED
    BY <2>3, <2>5, <2>6 DEF FInv
<1>5. CASE DeleteCheckpointEnds(c)
  <2>1. config' = config /\ config[k] = NoConfig /\ At(c, "deleteCheckpoint")
    BY <1>5 DEF DeleteCheckpointEnds, registry, FInv, DeletedIsGone
  <2>2. PICK new \in {Idle, [step |-> "close", key |-> k]} :
           call' = [call EXCEPT ![c] = new]
    BY <1>5, GotoKeepsKey DEF DeleteCheckpointEnds, Return, LInv
  <2>3. new.step \in Step \ CreateStep /\ new.step # "deleteCheckpoint"
    BY DEF Idle, Step, CreateStep
  <2>4. DeletedIsGone'
    BY <1>2, <2>1, <2>2, <2>3 DEF FInv, DeletedIsGone, At
  <2>5. checkpoint'["stop"] = checkpoint["stop"]
    BY <1>1, <1>5, LockFacts DEF DeleteCheckpointEnds, Checkpointed,
       CheckpointThrows, LInv, TypeOK, FInv, OneWriter, TempIsOpen, Others
  <2>6. CASE /\ Checkpointed(c, "none")
             /\ IF k \in Queue THEN Told(k, "deleted") ELSE UNCHANGED fate
    <3>1. queuesFile'.whole /\ queuesFile'.entries = Persisted
          /\ OneWriter' /\ TempIsReady'
      BY <1>1, <2>1, <2>6, MovesPersisted
    <3>2. \A q \in Queue : \/ fate'[q] = fate[q]
                           \/ fate'[q] = "deleted" /\ config[q] = NoConfig
      BY <2>1, <2>6 DEF Told, LInv, TypeOK
    <3>3. \A q \in Queue : Remembers(q)'
      BY <1>1, <2>1, <3>1, <3>2, FileAgrees
    <3> QED
      BY <1>1, <2>4, <2>5, <3>1, <3>3 DEF FInv, StopCheckpoints
  <2>7. CASE CheckpointThrows(c) /\ UNCHANGED fate
    <3>1. queuesFile' = queuesFile /\ OneWriter' /\ TempIsReady'
      BY <1>1, <2>1, <2>7, ThrowsHarmlessly
    <3>2. \A q \in Queue : Remembers(q)'
      BY <1>1, <1>2, <2>1, <2>2, <2>3, <2>7, <3>1, StillRemembers
    <3> QED
      BY <1>1, <2>4, <2>5, <3>1, <3>2 DEF FInv, StopCheckpoints
  <2> QED
    BY <1>5, <2>6, <2>7 DEF DeleteCheckpointEnds
<1> QED
  BY <1>3, <1>4, <1>5 DEF DeleteSteps

\* A step that neither changes the registry nor what a caller does.
LEMMA OthersRemember ==
    ASSUME LInv, FInv, UNCHANGED <<config, call, fate>>, isUp' => isUp,
           queuesFile' = queuesFile
    PROVE  DeletedIsGone' /\ \A q \in Queue : Remembers(q)'
<1>1. \A q \in Queue : CreatingQueue(q)' = CreatingQueue(q)
  BY DEF CreatingQueue, Creating
<1> QED
  BY <1>1, StillRemembers DEF FInv, DeletedIsGone, At

LEMMA ReadersRemember ==
    ASSUME CheckpointsAreSafe, LInv, FInv,
           \/ HeartbeatCheckpoint \/ HeartbeatCheckpointEnds
           \/ StopServer \/ StopSignals \/ StopCheckpointEnds \/ StopCloses
    PROVE  FInv'
<1>1. /\ isUp /\ UNCHANGED <<isUp, config, call, fate>>
      /\ "heartbeat" \in Process /\ "stop" \in Process
      /\ checkpoint \in [Process -> Phase]
  BY LockFacts DEF HeartbeatCheckpoint, HeartbeatCheckpointEnds, StopServer,
     StopSignals, StopCheckpointEnds, StopCloses, Checkpointed, CheckpointThrows,
     server, registry, LInv, TypeOK
<1>2. StopCheckpoints'
  <2>1. CASE HeartbeatCheckpoint
    BY <1>1, <2>1 DEF HeartbeatCheckpoint, FInv, StopCheckpoints, server
  <2>2. CASE HeartbeatCheckpointEnds
    <3>1. CheckpointStep("heartbeat") /\ UNCHANGED stopping
      BY <1>1, <2>2, CheckpointedStep, ThrowsStep
      DEF LInv, HeartbeatCheckpointEnds, server, Phase
    <3> QED
      BY <1>1, <3>1 DEF CheckpointStep, FInv, StopCheckpoints
  <2>3. CASE StopServer
    BY <2>3 DEF StopServer, FInv, StopCheckpoints, LInv, NothingInMemory
  <2>4. CASE StopSignals
    BY <2>4 DEF StopSignals, FInv, StopCheckpoints
  <2>5. CASE StopCheckpointEnds
    <3>1. checkpoint'["stop"] = "none" /\ stopping = "checkpoint"
      BY <1>1, <2>5, CheckpointedStep, ThrowsStep
      DEF LInv, StopCheckpointEnds, Phase
    <3> QED
      BY <3>1 DEF FInv, StopCheckpoints
  <2>6. CASE StopCloses
    BY <2>6 DEF StopCloses, FInv, StopCheckpoints
  <2> QED
    BY <2>1, <2>2, <2>3, <2>4, <2>5, <2>6
<1>3. CASE HeartbeatCheckpoint \/ StopServer \/ StopSignals \/ StopCloses
  <2>1. UNCHANGED <<tempFile, queuesFile>>
        /\ \E p \in Process : checkpoint[p] # "write" /\ checkpoint' \in
              {checkpoint, [checkpoint EXCEPT ![p] = "open"]}
    <3>1. checkpoint["stop"] # "none" => stopping = "checkpoint"
      BY DEF FInv, StopCheckpoints
    <3>2. checkpoint' = checkpoint => \E p \in Process : checkpoint[p] # "write"
      BY <1>1 DEF FInv, OneWriter
    <3> QED
      BY <1>1, <1>3, <3>1, <3>2
      DEF HeartbeatCheckpoint, StopServer, StopSignals, StopCloses, disk
  <2>2. OneWriter' /\ TempIsReady'
    <3>1. PICK p \in Process : checkpoint[p] # "write" /\ checkpoint' \in
              {checkpoint, [checkpoint EXCEPT ![p] = "open"]}
      BY <2>1
    <3> QED
      BY <1>1, <2>1, <3>1 DEF FInv, OneWriter, TempIsReady, Persisted
  <2> QED
    BY <1>1, <1>2, <2>1, <2>2, OthersRemember DEF FInv
<1>4. CASE HeartbeatCheckpointEnds \/ StopCheckpointEnds
  <2>1. PICK p \in Process : Checkpointed(p, "none") \/ CheckpointThrows(p)
    BY <1>1, <1>4 DEF HeartbeatCheckpointEnds, StopCheckpointEnds
  <2>2. CASE Checkpointed(p, "none")
    <3>1. queuesFile'.whole /\ queuesFile'.entries = Persisted
          /\ OneWriter' /\ TempIsReady'
      BY <1>1, <2>2, MovesPersisted
    <3>2. \A q \in Queue : Remembers(q)'
      BY <1>1, <3>1, FileAgrees
    <3> QED
      BY <1>1, <1>2, <3>1, <3>2 DEF FInv, DeletedIsGone, At
  <2>3. CASE CheckpointThrows(p)
    BY <1>1, <1>2, <2>3, ThrowsHarmlessly, OthersRemember DEF FInv
  <2> QED
    BY <2>1, <2>2, <2>3
<1> QED
  BY <1>3, <1>4

LEMMA ExitRemembers ==
    ASSUME LInv, FInv, Exit
    PROVE  FInv'
<1>1. /\ UNCHANGED <<tempFile, queuesFile, fate>> /\ ~isUp' /\ stopping' = "no"
      /\ \A p \in Process : checkpoint'[p] = "none"
      /\ \A k \in Key : config'[k] = NoConfig
      /\ \A c \in Caller : call'[c] = Idle
  BY DEF Exit, disk
<1>2. StopCheckpoints' /\ OneWriter' /\ TempIsReady' /\ queuesFile'.whole
  BY <1>1, NobodyMoves, LockFacts DEF StopCheckpoints
<1>3. DeletedIsGone'
  BY <1>1 DEF DeletedIsGone, At, Idle
<1>4. \A q \in Queue : Remembers(q)'
  BY <1>1, KeyFacts DEF FInv, Remembers
<1> QED
  BY <1>2, <1>3, <1>4 DEF FInv

LEMMA StartRemembers ==
    ASSUME LInv, FInv, Start
    PROVE  FInv'
<1>1. /\ UNCHANGED <<stopping, checkpoint, tempFile, queuesFile, call, fate>>
      /\ ~isUp
      /\ \A q \in Queue : config'[q] = queuesFile.entries[q]
  BY KeyFacts DEF Start, Kept, Saved, FInv
<1>2. /\ \A p \in Process : checkpoint[p] = "none"
      /\ \A c \in Caller : call[c].step \notin LockedStep
  BY <1>1, LockFacts DEF LInv, NothingInMemory
<1>3. StopCheckpoints' /\ OneWriter' /\ TempIsReady' /\ queuesFile'.whole
  BY <1>1, <1>2, NobodyMoves DEF FInv, StopCheckpoints
<1>4. DeletedIsGone'
  BY <1>1, <1>2 DEF DeletedIsGone, At, LockedStep
<1>5. \A q \in Queue : Remembers(q)'
  BY <1>1 DEF FInv, Remembers
<1> QED
  BY <1>3, <1>4, <1>5 DEF FInv

LEMMA InitFiles == Init => FInv
BY ConfigFacts, KeyFacts, LockFacts DEF Init, FInv, StopCheckpoints, OneWriter,
   TempIsReady, DeletedIsGone, At, Idle, Remembers, NoFile, Process

LEMMA FileStep == LInv /\ FInv /\ CheckpointsAreSafe /\ [Next]_vars => FInv'
<1>1. ASSUME LInv, FInv, UNCHANGED vars PROVE FInv'
  <2>1. UNCHANGED <<stopping, checkpoint, tempFile, queuesFile, config, call,
                    fate, isUp>>
    BY <1>1 DEF vars, server, registry, disk
  <2> QED
    BY <1>1, <2>1, OthersRemember
    DEF FInv, StopCheckpoints, OneWriter, TempIsReady, Persisted
<1>2. ASSUME LInv, FInv, CheckpointsAreSafe, NEW p \in Process, Writes(p)
      PROVE  FInv'
  <2>1. /\ UNCHANGED <<server, registry, call, fate>> /\ checkpoint[p] # "none"
        /\ queuesFile' = queuesFile /\ OneWriter' /\ TempIsReady'
        /\ CheckpointStep(p)
    BY <1>2, WritesStep, WritesPersisted DEF LInv
  <2> QED
    BY <1>2, <2>1, OthersRemember, LockFacts
    DEF FInv, StopCheckpoints, server, registry, CheckpointStep
<1> QED
  BY <1>1, <1>2, StepCases, CallsRemember, CreateStepsRemember,
     DeleteStepsRemember, ReadersRemember, ExitRemembers, StartRemembers
  DEF Process

LEMMA FileInvariance == Spec /\ []CheckpointsAreSafe => []FInv
BY InitFiles, FileStep, LockInvariance, PTL DEF Spec

\* A persistent queue whose creation was reported stays in a whole queues.json,
\* and in the registry, until somebody deletes it: through every failing call,
\* write, stop and crash, on every platform, in every behaviour in which Stop's
\* checkpoint and the heartbeat's do not meet, or meet where the system keeps
\* them off each other's file.
THEOREM CreatedSurvives ==
    Spec /\ []CheckpointsAreSafe => []CreatedStaysCreated
<1>1. FInv => CreatedStaysCreated
  BY ConfigFacts DEF FInv, Remembers, CreatedStaysCreated, Registered
<1> QED
  BY <1>1, FileInvariance, PTL

\* In the same behaviours a queue whose deletion was carried out is in neither,
\* until it is created again.
THEOREM DeletionSurvives ==
    Spec /\ []CheckpointsAreSafe => []DeletionIsDurable
<1>1. FInv => DeletionIsDurable
  BY DEF FInv, Remembers, DeletionIsDurable, Registered, Listed, Saved
<1> QED
  BY <1>1, FileInvariance, PTL

-----------------------------------------------------------------------------
(* What was reported deleted.                                              *)

\* No server is stopped and no checkpoint is made to fail by the disk; the
\* process may crash, and databases and directories may fail.
FilesAreReliable ==
    Environment \cap {"stop", "fileFailure", "writeFailure"} = {}

TempExists ==
    (\E p \in Process : checkpoint[p] \in {"write", "move"}) => tempFile.exists

Deleting(q) == \E c \in Caller : At(c, "deleteCheckpoint") /\ call[c].key = q

\* What is listed is registered or on its way out of the file.
GoneFor(q) ==
    /\ fate[q] = "reported" =>
          config[q] = NoConfig /\ queuesFile.entries[q] = NoConfig
    /\ isUp /\ queuesFile.entries[q] # NoConfig =>
          config[q] # NoConfig \/ Deleting(q)
    /\ \A c \in Caller : At(c, "companion") /\ call[c].key = q =>
          queuesFile.entries[q] = NoConfig

GInv == (isUp => isRunning) /\ TempExists /\ \A q \in Queue : GoneFor(q)

\* Without Stop no two checkpoints meet.
LEMMA NeverOverlap ==
    ASSUME FilesAreReliable, FInv
    PROVE  NoOverlap /\ CheckpointsAreSafe
BY DEF FilesAreReliable, FInv, StopCheckpoints, NoOverlap, CheckpointsAreSafe

\* Whoever checkpoints is alone, and then nothing makes it throw.
LEMMA NothingThrows ==
    ASSUME FilesAreReliable, LInv, FInv, GInv, NEW p \in Process
    PROVE  ~CheckpointThrows(p)
<1>1. SUFFICES ASSUME CheckpointThrows(p) PROVE FALSE
  OBVIOUS
<1>2. checkpoint[p] # "none" /\ \A o \in Process \ {p} : checkpoint[o] = "none"
  BY <1>1, NeverOverlap, Alone, ThrowsStep DEF LInv
<1>3. ~TempIsOpen(p)
  BY <1>2 DEF TempIsOpen, Others
<1>4. \A event \in Environment : FailsAt(event) = {}
  BY DEF FailsAt, FilesAreReliable
<1> QED
  BY <1>1, <1>3, <1>4 DEF CheckpointThrows, GInv, TempExists

\* A checkpoint makes the file agree with the registry.
LEMMA MovedAlone ==
    ASSUME FilesAreReliable, LInv, FInv, GInv, NEW p \in Process,
           NEW next \in {"none", "open"}, Checkpointed(p, next),
           config' = config,
           \A q \in Queue : fate'[q] = fate[q] \/ fate'[q] # "reported",
           \A c \in Caller : ~At(c, "companion")'
    PROVE  TempExists' /\ \A q \in Queue : GoneFor(q)'
<1>1. /\ queuesFile'.entries = Persisted
      /\ checkpoint[p] # "none" /\ \A o \in Process \ {p} : checkpoint[o] = "none"
  BY MovesPersisted, NeverOverlap, Alone, CheckpointedStep DEF LInv, Phase
<1>2. \A o \in Process : checkpoint'[o] \in {"none", "open"}
  BY <1>1 DEF Checkpointed
<1>3. TempExists'
  BY <1>2 DEF TempExists
<1> QED
  BY <1>1, <1>3, PersistedHolds, KeyFacts DEF GInv, GoneFor

\* A step that leaves the file, and queue q in the registry, alone.
LEMMA StillGone ==
    ASSUME GInv, NEW q \in Queue, queuesFile' = queuesFile,
           config'[q] = config[q], isUp' => isUp,
           fate'[q] = fate[q] \/ fate'[q] # "reported",
           Deleting(q) => Deleting(q)',
           \A c \in Caller : (At(c, "companion") /\ call[c].key = q)'
                                => At(c, "companion") /\ call[c].key = q
    PROVE  GoneFor(q)'
BY DEF GInv, GoneFor

\* With the lock free the file lists what is registered, and no more.
LEMMA UnregisteredIsUnlisted ==
    ASSUME LInv, GInv, LockFree, isUp, NEW q \in Queue, ~Registered(q)
    PROVE  queuesFile.entries[q] = NoConfig
<1>1. ~Deleting(q)
  BY LockFacts DEF LockFree, Deleting, At, LockedStep
<1> QED
  BY <1>1 DEF GInv, GoneFor, Registered

LEMMA CallsKeepGone ==
    ASSUME FilesAreReliable, LInv, GInv, NEW c \in Caller, Calls(c)
    PROVE  GInv'
<1>1. /\ call[c].step = "idle" /\ isUp /\ isRunning
      /\ UNCHANGED <<isUp, isRunning, tempFile, queuesFile>>
      /\ \A k \in Key : ~DeleteOnStoppingServer(c, k)
  BY DEF Calls, CreateExisting, CreateQueue, CreateFailsToOpen,
     DeleteQueue, DeleteOnStoppingServer, server, disk, Call, At, GInv
<1>2. ASSUME NEW q \in Queue, NEW cfg \in Config, CreateQueue(c, q, cfg)
      PROVE  GInv'
  <2>1. /\ LockFree /\ config' = [config EXCEPT ![q] = cfg] /\ ~Registered(q)
        /\ fate' = [fate EXCEPT ![q] = "unknown"]
        /\ checkpoint' \in {checkpoint, [checkpoint EXCEPT ![c] = "open"]}
        /\ \E step \in CreateStep :
              call' = [call EXCEPT ![c] = [step |-> step, key |-> q]]
    BY <1>2 DEF CreateQueue, Add, Told, CreateStep
  <2>2. /\ \A p \in Process : checkpoint[p] = "none"
        /\ \A d \in Caller : call[d].step \notin LockedStep
    BY <2>1, LockFacts DEF LockFree
  <2>3. /\ call'[c].key = q /\ call'[c].step \in CreateStep
        /\ \A d \in Caller \ {c} : call'[d] = call[d]
    BY <2>1 DEF LInv, TypeOK
  <2>4. TempExists'
    BY <2>1, <2>2 DEF TempExists, LInv, TypeOK
  <2>5. ASSUME NEW r \in Queue PROVE GoneFor(r)'
    <3>1. CASE r = q
      <4>1. config'[q] = cfg /\ cfg # NoConfig /\ fate'[q] = "unknown"
        BY <2>1, KeyFacts, ConfigFacts, RegistryAssumption DEF LInv, TypeOK
      <4>2. queuesFile.entries[q] = NoConfig
        BY <1>1, <2>1, UnregisteredIsUnlisted
      <4> QED
        BY <1>1, <3>1, <4>1, <4>2 DEF GoneFor
    <3>2. CASE r # q
      <4>1. config'[r] = config[r] /\ fate'[r] = fate[r]
        BY <2>1, <3>2, KeyFacts DEF LInv, TypeOK
      <4>2. ~Deleting(r)
        BY <2>2 DEF Deleting, At, LockedStep
      <4> QED
        BY <1>1, <2>3, <3>2, <4>1, <4>2, StillGone DEF At
    <3> QED
      BY <3>1, <3>2
  <2> QED
    BY <1>1, <2>4, <2>5 DEF GInv
<1>3. ASSUME UNCHANGED <<config, checkpoint>>,
             UNCHANGED call \/ \E k : Take(c, "deleteWant", k),
             \A q \in Queue : fate'[q] = fate[q] \/ fate'[q] # "reported"
      PROVE  GInv'
  <2>1. \A d \in Caller :
           /\ At(d, "deleteCheckpoint") => call'[d] = call[d]
           /\ At(d, "companion")' => call'[d] = call[d]
    BY <1>1, <1>3 DEF Take, LInv, TypeOK, At
  <2>2. ASSUME NEW q \in Queue PROVE GoneFor(q)'
    BY <1>1, <1>3, <2>1, StillGone DEF Deleting, At
  <2> QED
    BY <1>1, <1>3, <2>2 DEF GInv, TempExists
<1>4. ASSUME NEW q \in Queue, CreateExisting(c, q)
      PROVE  GInv'
  BY <1>3, <1>4 DEF CreateExisting, ToldCreated, Told, LInv, TypeOK, registry
<1>5. ASSUME NEW q \in Queue, NEW cfg \in Config, CreateFailsToOpen(c, q, cfg)
      PROVE  GInv'
  BY <1>3, <1>5 DEF CreateFailsToOpen, Told, LInv, TypeOK, registry
<1>6. ASSUME NEW k \in Key, DeleteQueue(c, k)
      PROVE  GInv'
  BY <1>3, <1>6 DEF DeleteQueue, registry
<1> QED
  BY <1>1, <1>2, <1>4, <1>5, <1>6 DEF Calls

LEMMA CreateStepsKeepGone ==
    ASSUME FilesAreReliable, LInv, FInv, GInv, NEW c \in Caller, CreateSteps(c)
    PROVE  GInv'
<1> DEFINE q == call[c].key
<1>1. /\ isUp /\ isRunning /\ UNCHANGED <<isUp, isRunning>> /\ Creating(c)
      /\ q \in Queue /\ c \in Process /\ writer = c
      /\ \A d \in Caller \ {c} : call[d].step \notin LockedStep
  BY LockFacts DEF CreateSteps, CreateCompanion, CompanionCheckpointEnds,
     CreateCheckpointEnds, server, At, Creating, CreateStep, LockedStep, LInv,
     CallsHoldLock, GInv, Checkpointed, CheckpointThrows
<1>2. ASSUME NEW new, call' = [call EXCEPT ![c] = new],
             new.step \notin LockedStep \/ new.step \in CreateStep \ {"companion"}
      PROVE  /\ \A d \in Caller : ~At(d, "companion")'
             /\ \A r \in Queue : ~Deleting(r)
  BY <1>1, <1>2
  DEF Deleting, At, Creating, LockedStep, CreateStep, LInv, TypeOK
<1>3. CASE CreateCompanion(c)
  <2>1. PICK new \in {Idle, [step |-> "checkpoint", key |-> q],
                      [step |-> "companionCheckpoint", key |-> q]} :
           call' = [call EXCEPT ![c] = new]
    BY <1>3, GotoKeepsKey
    DEF CreateCompanion, CreateEnds, Return, LInv
  <2>2. new.step \notin LockedStep \/ new.step \in CreateStep \ {"companion"}
    BY DEF Idle, LockedStep, CreateStep
  <2>3. /\ \A d \in Caller : ~At(d, "companion")'
        /\ \A r \in Queue : ~Deleting(r)
    BY <1>2, <2>1, <2>2
  <2>4. /\ UNCHANGED <<tempFile, queuesFile>> /\ queuesFile.entries[q] = NoConfig
        /\ checkpoint[c] = "none"
        /\ checkpoint' \in {checkpoint, [checkpoint EXCEPT ![c] = "open"]}
    BY <1>1, <1>3 DEF CreateCompanion, GInv, GoneFor, LInv, CallsHoldLock
  <2>5. ASSUME NEW r \in Queue
        PROVE  /\ r # q => config'[r] = config[r] /\ fate'[r] = fate[r]
               /\ fate'[q] = fate[q] \/ fate'[q] # "reported"
               /\ config'[q] = config[q] \/ fate'[q] = "failed"
    BY <1>1, <1>3, KeyFacts DEF CreateCompanion, Add, RollBack, CreateEnds, Told,
       LInv, TypeOK, registry
  <2>6. TempExists'
    BY <1>1, <2>4 DEF GInv, TempExists, LInv, TypeOK
  <2>7. ASSUME NEW r \in Queue PROVE GoneFor(r)'
    <3>1. CASE r # q
      BY <1>1, <2>3, <2>4, <2>5, <3>1, StillGone
    <3>2. CASE r = q /\ config'[q] = config[q]
      BY <1>1, <2>3, <2>4, <2>5, <3>2, StillGone
    <3>3. CASE r = q /\ fate'[q] = "failed"
      BY <2>3, <2>4, <3>3 DEF GoneFor
    <3> QED
      BY <2>5, <3>1, <3>2, <3>3
  <2> QED
    BY <1>1, <2>6, <2>7 DEF GInv
<1>4. CASE CompanionCheckpointEnds(c)
  <2>1. /\ Checkpointed(c, "open") /\ UNCHANGED <<config, fate>>
        /\ Goto(c, "checkpoint")
    BY <1>1, <1>4, NothingThrows DEF CompanionCheckpointEnds
  <2> DEFINE new == [step |-> "checkpoint", key |-> q]
  <2>2. call' = [call EXCEPT ![c] = new]
    BY <2>1, GotoKeepsKey DEF LInv
  <2>3. new.step \in CreateStep \ {"companion"}
    BY DEF CreateStep
  <2> HIDE DEF new
  <2>4. \A d \in Caller : ~At(d, "companion")'
    BY <1>2, <2>2, <2>3
  <2> QED
    BY <1>1, <2>1, <2>4, MovedAlone DEF GInv
<1>5. CASE CreateCheckpointEnds(c)
  <2>1. /\ Checkpointed(c, "none") /\ UNCHANGED config
        /\ CreateEnds(c, "created")
    BY <1>1, <1>5, NothingThrows DEF CreateCheckpointEnds
  <2>2. \A d \in Caller : ~At(d, "companion")'
    BY <1>2, <2>1 DEF CreateEnds, Return, Idle, LockedStep, CreateStep
  <2>3. \A r \in Queue : fate'[r] = fate[r] \/ fate'[r] # "reported"
    BY <2>1 DEF CreateEnds, ToldCreated, Told, LInv, TypeOK
  <2> QED
    BY <1>1, <2>1, <2>2, <2>3, MovedAlone DEF GInv
<1> QED
  BY <1>3, <1>4, <1>5 DEF CreateSteps

LEMMA DeleteStepsKeepGone ==
    ASSUME FilesAreReliable, LInv, FInv, GInv, NEW c \in Caller, DeleteSteps(c)
    PROVE  GInv'
<1> DEFINE k == call[c].key
<1>1. /\ isUp /\ isRunning /\ UNCHANGED <<isUp, isRunning>> /\ ~Creating(c)
      /\ call[c].step # "idle" /\ k \in Key /\ c \in Process
  BY LockFacts DEF DeleteSteps, DeleteMissing, DeleteTimesOut, DeleteRegistered,
     DeleteCheckpointEnds, DeleteCloses, DeleteDirectory, At, Creating, CreateStep,
     server, Checkpointed, CheckpointThrows, LInv, CallsHoldLock, GInv
<1>2. ASSUME NEW new, call' = [call EXCEPT ![c] = new], new.step # "companion"
      PROVE  /\ \A d \in Caller : At(d, "companion")' => call'[d] = call[d]
             /\ At(c, "deleteCheckpoint") \/ new.step = "deleteCheckpoint"
                   \/ \A q \in Queue : Deleting(q) => Deleting(q)'
  BY <1>2 DEF Deleting, At, LInv, TypeOK
<1>3. ASSUME \/ DeleteMissing(c) \/ DeleteTimesOut(c) \/ DeleteCloses(c)
             \/ DeleteDirectory(c)
      PROVE  GInv'
  <2>1. UNCHANGED <<config, tempFile, queuesFile, checkpoint>>
        /\ ~At(c, "deleteCheckpoint")
    BY <1>3 DEF DeleteMissing, DeleteTimesOut, DeleteCloses, DeleteDirectory,
       registry, disk, At
  <2>2. PICK new \in {Idle, [step |-> "directory", key |-> k]} :
           call' = [call EXCEPT ![c] = new]
    BY <1>3, GotoKeepsKey DEF DeleteMissing, DeleteTimesOut, DeleteCloses,
       DeleteDirectory, Return, LInv
  <2>3. new.step # "companion" /\ new.step # "deleteCheckpoint"
    BY DEF Idle
  <2>4. ASSUME NEW q \in Queue
        PROVE  \/ fate'[q] = fate[q]
               \/ config[q] = NoConfig /\ queuesFile.entries[q] = NoConfig
    <3>1. CASE DeleteMissing(c) /\ q = k
      BY <1>1, <3>1, UnregisteredIsUnlisted DEF DeleteMissing, Registered
    <3>2. CASE ~DeleteMissing(c) \/ q # k
      BY <1>3, <3>2 DEF DeleteMissing, DeleteTimesOut, DeleteCloses,
         DeleteDirectory, ToldDeleted, Told, LInv, TypeOK
    <3> QED
      BY <3>1, <3>2
  <2>5. ASSUME NEW q \in Queue PROVE GoneFor(q)'
    <3>1. /\ Deleting(q) => Deleting(q)'
          /\ \A d \in Caller : At(d, "companion")' => call'[d] = call[d]
      BY <1>2, <2>1, <2>2, <2>3
    <3>2. CASE fate'[q] = fate[q]
      BY <1>1, <2>1, <3>1, <3>2, StillGone DEF At
    <3>3. CASE config[q] = NoConfig /\ queuesFile.entries[q] = NoConfig
      BY <2>1, <3>3 DEF GoneFor
    <3> QED
      BY <2>4, <3>2, <3>3
  <2> QED
    BY <1>1, <2>1, <2>5 DEF GInv, TempExists
<1>4. CASE DeleteRegistered(c)
  <2>1. /\ LockFree /\ config' = [config EXCEPT ![k] = NoConfig]
        /\ ToldNothing(k) /\ UNCHANGED <<tempFile, queuesFile>>
        /\ checkpoint' = [checkpoint EXCEPT ![c] = "open"]
        /\ call' = [call EXCEPT ![c] = [step |-> "deleteCheckpoint", key |-> k]]
    BY <1>4, GotoKeepsKey DEF DeleteRegistered, Remove, Add, disk, LInv
  <2>2. /\ \A p \in Process : checkpoint[p] = "none"
        /\ \A d \in Caller : call[d].step \notin LockedStep
    BY <2>1, LockFacts DEF LockFree
  <2>3. /\ call'[c].key = k /\ call'[c].step = "deleteCheckpoint"
        /\ \A d \in Caller \ {c} : call'[d] = call[d]
    BY <2>1 DEF LInv, TypeOK
  <2>4. TempExists'
    BY <2>1, <2>2 DEF TempExists, LInv, TypeOK
  <2>5. ASSUME NEW q \in Queue PROVE GoneFor(q)'
    <3>1. \A d \in Caller : ~At(d, "companion")'
      BY <2>2, <2>3 DEF At, LockedStep, CreateStep
    <3>2. CASE q = k
      <4>1. fate'[q] = "unknown" /\ Deleting(q)'
        BY <2>1, <2>3, <3>2 DEF ToldNothing, Told, Deleting, At, LInv, TypeOK
      <4> QED
        BY <3>1, <4>1 DEF GoneFor
    <3>3. CASE q # k
      <4>1. /\ config'[q] = config[q] /\ fate'[q] = fate[q]
            /\ ~Deleting(q)
        BY <2>1, <2>2, <3>3, KeyFacts
        DEF ToldNothing, Told, Deleting, At, LockedStep, LInv, TypeOK
      <4> QED
        BY <1>1, <2>1, <3>1, <4>1, StillGone
    <3> QED
      BY <3>2, <3>3
  <2> QED
    BY <1>1, <2>4, <2>5 DEF GInv
<1>5. CASE DeleteCheckpointEnds(c)
  <2>1. /\ Checkpointed(c, "none") /\ UNCHANGED config /\ Goto(c, "close")
        /\ IF k \in Queue THEN Told(k, "deleted") ELSE UNCHANGED fate
    BY <1>1, <1>5, NothingThrows DEF DeleteCheckpointEnds, registry
  <2>2. \A q \in Queue : fate'[q] = fate[q] \/ fate'[q] # "reported"
    BY <2>1 DEF Told, LInv, TypeOK
  <2>3. \A d \in Caller \ {c} : call[d].step \notin LockedStep
    BY <1>5, LockFacts
    DEF DeleteCheckpointEnds, At, LInv, CallsHoldLock, LockedStep
  <2>4. \A d \in Caller : ~At(d, "companion")'
    BY <2>1, <2>3 DEF Goto, At, LInv, TypeOK, LockedStep, CreateStep
  <2> QED
    BY <1>1, <2>1, <2>2, <2>4, MovedAlone DEF GInv
<1> QED
  BY <1>3, <1>4, <1>5 DEF DeleteSteps

\* The heartbeat's checkpoint, and a write by whoever makes one.
LEMMA CheckpointsKeepGone ==
    ASSUME FilesAreReliable, LInv, FInv, GInv, NEW p \in Process,
           \/ Writes(p) \/ HeartbeatCheckpoint \/ HeartbeatCheckpointEnds
    PROVE  GInv'
<1>1. /\ isUp /\ UNCHANGED <<isUp, isRunning, config, call, fate>>
      /\ "heartbeat" \in Process /\ checkpoint \in [Process -> Phase]
  BY WritesStep, LockFacts DEF LInv, TypeOK, HeartbeatCheckpoint,
     HeartbeatCheckpointEnds, Checkpointed, CheckpointThrows, server, registry
<1>2. ASSUME queuesFile' = queuesFile, TempExists' PROVE GInv'
  <2>1. \A q \in Queue : Deleting(q)' = Deleting(q)
    BY <1>1 DEF Deleting, At
  <2> QED
    BY <1>1, <1>2, <2>1, StillGone DEF GInv, At
<1>3. CASE Writes(p)
  <2>1. queuesFile' = queuesFile
    BY <1>3, NeverOverlap, WritesPersisted
  <2>2. tempFile'.exists
    <3>1. CASE BeginWrite(p)
      BY <3>1 DEF BeginWrite, OpenTemp, Truncated, LInv, TypeOK, File
    <3>2. CASE EndWrite(p)
      <4>1. tempFile.exists /\ tempFile \in File /\ tempFile' \in Written(tempFile)
        BY <3>2 DEF EndWrite, LInv, TypeOK, FInv, OneWriter, GInv, TempExists
      <4> QED
        BY <4>1 DEF Written, File
    <3> QED
      BY <1>3, <3>1, <3>2 DEF Writes
  <2> QED
    BY <1>2, <2>1, <2>2 DEF TempExists
<1>4. CASE HeartbeatCheckpoint
  BY <1>1, <1>2, <1>4 DEF HeartbeatCheckpoint, disk, GInv, TempExists
<1>5. CASE HeartbeatCheckpointEnds
  <2>1. Checkpointed("heartbeat", "none")
    BY <1>1, <1>5, NothingThrows DEF HeartbeatCheckpointEnds
  <2>2. \A c \in Caller : call[c].step \notin LockedStep
    BY <2>1, LockFacts DEF Checkpointed, LInv, TypeOK
  <2>3. \A c \in Caller : ~At(c, "companion")'
    BY <1>1, <2>2 DEF At, LockedStep, CreateStep
  <2> QED
    BY <1>1, <2>1, <2>3, MovedAlone DEF GInv
<1> QED
  BY <1>3, <1>4, <1>5

LEMMA RestartsKeepGone ==
    ASSUME LInv, FInv, GInv, Exit \/ Start
    PROVE  GInv'
<1>1. CASE Exit
  BY <1>1, KeyFacts DEF Exit, disk, GInv, TempExists, GoneFor, At, Idle
<1>2. CASE Start
  <2>1. /\ UNCHANGED <<checkpoint, tempFile, queuesFile, call, fate>>
        /\ ~isUp /\ isRunning'
        /\ \A q \in Queue : config'[q] = queuesFile.entries[q]
    BY <1>2, KeyFacts DEF Start, Kept, Saved, FInv
  <2> QED
    BY <2>1 DEF GInv, TempExists, GoneFor, At
<1> QED
  BY <1>1, <1>2

\* A queue that a caller was told is deleted, by its own call or by finding it
\* gone, is not in the registry of this process or a later one, through crashes
\* at any step, where no server is stopped and the disk lets every checkpoint
\* be written.
THEOREM DeletedForGood ==
    ASSUME FilesAreReliable
    PROVE  Spec => []DeletedStaysDeleted
<1>1. LInv /\ FInv /\ [Next]_vars => FInv'
  BY FileStep, NeverOverlap
<1>2. Init => GInv
  BY KeyFacts DEF Init, GInv, TempExists, GoneFor, At, Idle, NoFile, Process
<1>3. LInv /\ FInv /\ GInv /\ [Next]_vars => GInv'
  <2>1. ASSUME LInv, FInv, GInv, UNCHANGED vars PROVE GInv'
    BY <2>1 DEF vars, server, registry, disk, GInv, TempExists, GoneFor,
       Deleting, At
  <2>2. ASSUME LInv, FInv
        PROVE  ~StopServer /\ ~StopSignals /\ ~StopCheckpointEnds /\ ~StopCloses
    BY <2>2 DEF FilesAreReliable, StopServer, StopSignals, StopCheckpointEnds,
       StopCloses, FInv, StopCheckpoints
  <2>3. "heartbeat" \in Process
    BY DEF Process
  <2> QED
    BY <2>1, <2>2, <2>3, StepCases, CallsKeepGone, CreateStepsKeepGone,
       DeleteStepsKeepGone, CheckpointsKeepGone, RestartsKeepGone DEF Process
<1>4. FInv /\ GInv => DeletedStaysDeleted
  BY DEF FInv, Remembers, GInv, GoneFor, DeletedStaysDeleted, Registered
<1> QED
  BY <1>1, <1>2, <1>3, <1>4, LockInvariance, InitFiles, PTL DEF Spec
=============================================================================
