---------------------- MODULE QueueRegistryRefinement ----------------------
(***************************************************************************)
(* Proof that QueueRegistry implements module QueueCatalogue, for any      *)
(* queues, callers, configurations, environments and either rule for open  *)
(* files, in every behaviour in which CheckpointsAreSafe.                  *)
(*                                                                         *)
(* Under the mapping of QueueRegistry!Catalogue the move of queues.json is *)
(* Copy, or with the end of a call Settle, Created or Deleted; a roll-back *)
(* is Withdraw, a failed checkpoint of a deletion GiveUp.  Opening and     *)
(* writing the temporary file, databases, directories and the states of    *)
(* the queues are stutters.                                                *)
(*                                                                         *)
(* The last section proves what follows from the contract alone.           *)
(***************************************************************************)
EXTENDS QueueRegistryProofs

\* A queue is in the registry while it is being created.
CreatedIsThere ==
    \A c \in Caller : Creating(c) => config[call[c].key] # NoConfig

KInv == LInv /\ FInv /\ CreatedIsThere

CatalogueStep == [Catalogue!Next]_(Catalogue!vars)

-----------------------------------------------------------------------------
(* What the catalogue sees.                                                *)

LEMMA PersistentConfigs ==
    ASSUME KInv
    PROVE  /\ \A k \in Key : config[k] \in PersistentConfig <=> Persists(config[k])
           /\ \A k \in Key : config[k] \in AnyConfig \cup {NoConfig}
           /\ PersistentConfig \subseteq AnyConfig /\ NoConfig \notin AnyConfig
  BY ConfigFacts DEF KInv, LInv, TypeOK, PersistentConfig

\* The copy of the catalogue is what a checkpoint writes.
LEMMA PersistedIsSaved ==
    ASSUME KInv, queuesFile'.whole, queuesFile'.entries = Persisted
    PROVE  Catalogue!Save
<1>1. Saved' = Persisted
  BY DEF Saved
<1>2. Persisted = [k \in Key |-> IF config[k] \in PersistentConfig
                                 THEN config[k] ELSE NoConfig]
  BY PersistentConfigs DEF Persisted
<1> QED
  BY <1>1, <1>2 DEF Catalogue!Save

LEMMA SameFile == ASSUME queuesFile' = queuesFile PROVE Saved' = Saved
  BY DEF Saved, NoFile

\* The one that holds the lock and its keys.
LEMMA HolderIsBusy ==
    ASSUME KInv, NEW c \in Caller, call[c].step \in LockedStep
    PROVE  /\ writer = c /\ writer # Nobody
           /\ InProgress = {call[c].key} \cup
                  (IF At(c, "companionCheckpoint")
                   THEN {DeadLetterOf(call[c].key)} ELSE {})
  BY RegistryAssumption DEF KInv, LInv, CallsHoldLock, InProgress

\* Whoever does not hold the lock changes nothing that is in progress.
LEMMA SameInProgress ==
    ASSUME KInv, NEW c \in Caller, NEW new, call' = [call EXCEPT ![c] = new],
           call[c].step \notin LockedStep, writer' = writer
    PROVE  InProgress' = InProgress
<1>1. writer # c
  BY DEF KInv, LInv, CallsHoldLock
<1>2. CASE writer = Nobody
  BY <1>2 DEF InProgress
<1>3. CASE writer # Nobody
  <2>1. writer \in Caller /\ call'[writer] = call[writer]
    BY <1>1, <1>3 DEF KInv, LInv, TypeOK
  <2> QED
    BY <2>1 DEF InProgress, At
<1> QED
  BY <1>2, <1>3

LEMMA NothingInProgress == ASSUME LockFree PROVE InProgress = {}
  BY DEF LockFree, InProgress

LEMMA SameCatalogue ==
    ASSUME UNCHANGED <<isUp, config, fate>>, queuesFile' = queuesFile,
           InProgress' = InProgress
    PROVE  CatalogueStep
  BY SameFile DEF CatalogueStep, Catalogue!vars

\* The deletion that found nothing to do.
LEMMA ToldDeletedMaps ==
    ASSUME KInv, NEW k \in Key, ToldDeleted(k), isUp, UNCHANGED <<isUp, config>>,
           queuesFile' = queuesFile, InProgress' = InProgress
    PROVE  CatalogueStep
<1>1. CASE fate' = fate
  BY <1>1, SameCatalogue
<1>2. CASE k \in Queue /\ fate[k] # "deleted" /\ Told(k, "reported")
  <2>1. Catalogue!Report(k)
    BY <1>2, SameFile DEF Catalogue!Report, Catalogue!Tell, Told
  <2> QED
    BY <1>2, <2>1 DEF CatalogueStep, Catalogue!Next
<1> QED
  BY <1>1, <1>2 DEF ToldDeleted

-----------------------------------------------------------------------------
(* The steps.                                                              *)

LEMMA CallsMap ==
    ASSUME KInv, NEW c \in Caller, Calls(c)
    PROVE  CatalogueStep /\ CreatedIsThere'
<1>1. /\ isUp /\ call[c].step = "idle" /\ UNCHANGED isUp
      /\ queuesFile' = queuesFile
      /\ call[c].step \notin LockedStep /\ ~Creating(c)
  BY DEF Calls, CreateExisting, CreateQueue, CreateFailsToOpen, DeleteQueue,
         DeleteOnStoppingServer, Call, At, server, disk, LockedStep, CreateStep,
         Creating
<1>2. Saved' = Saved
  BY <1>1, SameFile
<1>3. ASSUME NEW q \in Queue, NEW cfg \in Config, CreateQueue(c, q, cfg)
      PROVE  CatalogueStep /\ CreatedIsThere'
  <2>1. /\ LockFree /\ config[q] = NoConfig /\ writer' = c
        /\ config' = [config EXCEPT ![q] = cfg]
        /\ fate' = [fate EXCEPT ![q] = "unknown"]
    BY <1>3 DEF CreateQueue, Registered, Add, Told
  <2>2. PICK step \in {"checkpoint", "companion"} :
            call' = [call EXCEPT ![c] = [step |-> step, key |-> q]]
    BY <1>3 DEF CreateQueue
  <2>3. /\ call'[c] = [step |-> step, key |-> q]
        /\ \A d \in Caller \ {c} : call'[d] = call[d]
    BY <2>2 DEF KInv, LInv, TypeOK
  <2>4. InProgress = {} /\ InProgress' = {q}
    BY <2>1, <2>3, NothingInProgress, LockFacts DEF InProgress, At, KInv
  <2>5. Catalogue!Create(q, cfg)
    BY <1>1, <1>2, <2>1, <2>4
       DEF Catalogue!Create, Catalogue!Change, Catalogue!Tell
  <2>6. cfg \in AnyConfig /\ cfg # NoConfig /\ q \in Key
    BY RegistryAssumption, ConfigFacts, KeyFacts
  <2>7. \A d \in Caller : call[d].step \notin LockedStep
    BY <2>1, LockFacts DEF KInv, LockFree
  <2>8. CreatedIsThere'
    BY <2>1, <2>3, <2>6, <2>7
       DEF CreatedIsThere, Creating, LockedStep, KInv, LInv, TypeOK
  <2> QED
    BY <2>5, <2>6, <2>8 DEF CatalogueStep, Catalogue!Next
<1>4. ASSUME NEW q \in Queue, CreateExisting(c, q)
      PROVE  CatalogueStep /\ CreatedIsThere'
  <2>1. /\ LockFree /\ config[q] # NoConfig /\ ToldCreated(q, config[q])
        /\ UNCHANGED <<config, call, writer>>
    BY <1>4 DEF CreateExisting, Registered, registry
  <2>2. q \in Key /\ ~CreatingQueue(q)
    BY <2>1, KeyFacts, LockFacts DEF CreatingQueue, Creating, LockedStep, LockFree, KInv
  <2>3. config[q] \in PersistentConfig <=> Persists(config[q])
    BY <2>2, PersistentConfigs
  <2>4. Persists(config[q]) => Saved[q] = config[q]
    BY <1>1, <2>2 DEF KInv, FInv, Remembers, Saved
  <2>5. InProgress = {} /\ InProgress' = {}
    BY <2>1, NothingInProgress DEF InProgress, LockFree
  <2>6. Catalogue!Exists(q)
    BY <1>1, <1>2, <2>1, <2>3, <2>4, <2>5
       DEF Catalogue!Exists, Catalogue!Confirm, Catalogue!Tell, ToldCreated, Told
  <2>7. CreatedIsThere'
    BY <2>1 DEF CreatedIsThere, Creating, KInv
  <2> QED
    BY <2>6, <2>7 DEF CatalogueStep, Catalogue!Next
<1>5. ASSUME NEW q \in Queue, NEW cfg \in Config, CreateFailsToOpen(c, q, cfg)
      PROVE  CatalogueStep /\ CreatedIsThere'
  <2>1. /\ LockFree /\ config[q] = NoConfig /\ Told(q, "failed")
        /\ UNCHANGED <<config, call, writer>>
    BY <1>5 DEF CreateFailsToOpen, Registered, registry
  <2>2. InProgress = {} /\ InProgress' = {}
    BY <2>1, NothingInProgress DEF InProgress, LockFree
  <2>3. Catalogue!Refuse(q)
    BY <1>1, <1>2, <2>1, <2>2 DEF Catalogue!Refuse, Catalogue!Tell, Told
  <2>4. CreatedIsThere'
    BY <2>1 DEF CreatedIsThere, Creating, KInv
  <2> QED
    BY <2>3, <2>4 DEF CatalogueStep, Catalogue!Next
<1>6. ASSUME NEW k \in Key, DeleteQueue(c, k) \/ DeleteOnStoppingServer(c, k)
      PROVE  CatalogueStep /\ CreatedIsThere'
  <2>1. /\ UNCHANGED <<config, writer>>
        /\ \/ DeleteQueue(c, k) /\ UNCHANGED fate
              /\ call' = [call EXCEPT ![c] = [step |-> "deleteWant", key |-> k]]
           \/ ToldDeleted(k) /\ UNCHANGED call
    BY <1>6 DEF DeleteQueue, DeleteOnStoppingServer, Take, registry
  <2>2. InProgress' = InProgress
    BY <1>1, <2>1, SameInProgress DEF InProgress, At
  <2>3. CatalogueStep
    BY <1>1, <2>1, <2>2, SameCatalogue, ToldDeletedMaps
  <2>4. CreatedIsThere'
    BY <2>1 DEF CreatedIsThere, Creating, CreateStep, KInv, LInv, TypeOK
  <2> QED
    BY <2>3, <2>4
<1> QED
  BY <1>3, <1>4, <1>5, <1>6 DEF Calls

\* A roll-back of the caller that creates a queue, with what it added.
LEMMA RollBackMaps ==
    ASSUME KInv, NEW c \in Caller, Creating(c), isUp, UNCHANGED isUp,
           RollBack(InProgress), CreateEnds(c, "failed"), queuesFile' = queuesFile
    PROVE  CatalogueStep
<1> DEFINE q == call[c].key
<1>1. call[c].step \in LockedStep /\ q \in Queue
  BY DEF Creating, LockedStep, KInv, LInv, CallsHoldLock
<1>2. q \in InProgress /\ config[q] # NoConfig
  BY <1>1, HolderIsBusy DEF KInv, CreatedIsThere
<1>3. InProgress' = {}
  BY DEF CreateEnds, InProgress
<1>4. Catalogue!Withdraw(q)
  BY <1>2, <1>3, SameFile
     DEF Catalogue!Withdraw, Catalogue!Tell, RollBack, CreateEnds, Told
<1> QED
  BY <1>1, <1>4 DEF CatalogueStep, Catalogue!Next

LEMMA CreateStepsMap ==
    ASSUME CheckpointsAreSafe, KInv, NEW c \in Caller, CreateSteps(c)
    PROVE  CatalogueStep /\ CreatedIsThere'
<1> DEFINE q == call[c].key
           dlq == DeadLetterOf(q)
<1>1. /\ Creating(c) /\ isUp /\ UNCHANGED isUp /\ c \in Process
      /\ call[c].step \in LockedStep
  BY LockFacts DEF CreateSteps, CreateCompanion, CompanionCheckpointEnds,
     CreateCheckpointEnds, At, Creating, CreateStep, LockedStep, server,
     Checkpointed, CheckpointThrows, KInv
<1>2. /\ q \in Queue /\ q \in Key /\ dlq \in Key \ Queue /\ q # dlq
      /\ config[q] # NoConfig /\ writer = c /\ c # Nobody
  BY <1>1, KeyFacts, HolderIsBusy
     DEF KInv, LInv, CallsHoldLock, CreatedIsThere
<1>3. InProgress = {q} \cup (IF At(c, "companionCheckpoint") THEN {dlq} ELSE {})
  BY <1>1, HolderIsBusy
<1>4. \A d \in Caller : Creating(d) => d = c
  BY <1>2 DEF KInv, LInv, CallsHoldLock, Creating, LockedStep
<1>5. ASSUME call' = [call EXCEPT ![c] = Idle]
      PROVE  CreatedIsThere'
  BY <1>4, <1>5 DEF CreatedIsThere, Creating, CreateStep, Idle, KInv, LInv, TypeOK
<1>6. ASSUME NEW step \in CreateStep, Goto(c, step), config'[q] = config[q],
             writer' = writer
      PROVE  /\ CreatedIsThere'
             /\ InProgress' = {q} \cup
                    (IF step = "companionCheckpoint" THEN {dlq} ELSE {})
  <2>1. call' = [call EXCEPT ![c] = [step |-> step, key |-> q]]
    BY <1>6, GotoKeepsKey DEF KInv, LInv
  <2>2. /\ call'[c] = [step |-> step, key |-> q]
        /\ \A d \in Caller \ {c} : call'[d] = call[d]
    BY <2>1 DEF KInv, LInv, TypeOK
  <2> QED
    BY <1>2, <1>4, <1>6, <2>2 DEF CreatedIsThere, Creating, InProgress, At
<1>7. CASE CreateCompanion(c)
  <2>1. /\ queuesFile' = queuesFile /\ InProgress = {q}
        /\ config[q] \in AnyConfig /\ config[q].deadLetter # "None"
    BY <1>3, <1>7 DEF CreateCompanion, At, KInv, LInv, CallsHoldLock
  <2>2. CASE UNCHANGED <<config, fate, writer>> /\ Goto(c, "checkpoint")
    <3>1. CreatedIsThere' /\ InProgress' = InProgress
      BY <1>6, <2>1, <2>2 DEF CreateStep
    <3> QED
      BY <1>1, <2>1, <2>2, <3>1, SameCatalogue
  <2>3. CASE /\ config[dlq] = NoConfig
             /\ Add(dlq, ToConfiguration(config[q]), "created")
             /\ Goto(c, "companionCheckpoint") /\ UNCHANGED <<fate, writer>>
    <3> DEFINE cfg == ToConfiguration(config[q])
    <3>1. config' = [config EXCEPT ![dlq] = cfg] /\ config'[q] = config[q]
      BY <1>2, <2>3 DEF Add, KInv, LInv, TypeOK
    <3>2. CreatedIsThere' /\ InProgress' = {q, dlq}
      BY <1>6, <2>3, <3>1 DEF CreateStep
    <3>3. cfg \in AnyConfig
      BY <2>1, ConfigFacts
    <3> HIDE DEF cfg
    <3>4. Catalogue!Join(q, dlq, cfg)
      BY <1>1, <1>2, <2>1, <2>3, <3>1, <3>2, SameFile
         DEF Catalogue!Join, Catalogue!Change
    <3> QED
      BY <1>2, <3>2, <3>3, <3>4 DEF CatalogueStep, Catalogue!Next
  <2>4. CASE RollBack({q}) /\ CreateEnds(c, "failed")
    BY <1>1, <1>5, <2>1, <2>4, RollBackMaps DEF CreateEnds, Return
  <2> QED
    BY <1>7, <2>2, <2>3, <2>4 DEF CreateCompanion, registry, Registered
<1>8. CASE CompanionCheckpointEnds(c)
  <2>1. InProgress = {q, dlq}
    BY <1>3, <1>8 DEF CompanionCheckpointEnds
  <2>2. CASE /\ Checkpointed(c, "open") /\ Goto(c, "checkpoint")
             /\ UNCHANGED <<config, fate, writer>>
    <3>1. CreatedIsThere' /\ InProgress' = {q}
      BY <1>6, <2>2 DEF CreateStep
    <3>2. Catalogue!Save
      BY <1>1, <2>2, MovesPersisted, PersistedIsSaved DEF KInv
    <3>3. Catalogue!Settle(q)
      BY <1>1, <1>2, <2>1, <2>2, <3>1, <3>2 DEF Catalogue!Settle
    <3> QED
      BY <1>2, <3>1, <3>3 DEF CatalogueStep, Catalogue!Next
  <2>3. CASE CheckpointThrows(c) /\ RollBack({q, dlq}) /\ CreateEnds(c, "failed")
    BY <1>1, <1>5, <2>1, <2>3, RollBackMaps DEF CreateEnds, Return, CheckpointThrows
  <2> QED
    BY <1>8, <2>2, <2>3 DEF CompanionCheckpointEnds
<1>9. CASE CreateCheckpointEnds(c)
  <2>1. InProgress = {q}
    BY <1>3, <1>9 DEF CreateCheckpointEnds, At
  <2>2. CASE /\ Checkpointed(c, "none") /\ CreateEnds(c, "created")
             /\ UNCHANGED config
    <3>1. CreatedIsThere' /\ InProgress' = {}
      BY <1>5, <2>2 DEF CreateEnds, Return, InProgress
    <3>2. Catalogue!Save
      BY <1>1, <2>2, MovesPersisted, PersistedIsSaved DEF KInv
    <3>3. config[q] \in PersistentConfig <=> Persists(config[q])
      BY <1>2, PersistentConfigs
    <3>4. Catalogue!Confirm(q)
      BY <2>2, <3>3
         DEF Catalogue!Confirm, Catalogue!Tell, CreateEnds, ToldCreated, Told
    <3>5. Catalogue!Created(q)
      BY <1>1, <1>2, <2>1, <2>2, <3>1, <3>2, <3>4 DEF Catalogue!Created
    <3> QED
      BY <1>2, <3>1, <3>5 DEF CatalogueStep, Catalogue!Next
  <2>3. CASE CheckpointThrows(c) /\ RollBack({q}) /\ CreateEnds(c, "failed")
    BY <1>1, <1>5, <2>1, <2>3, RollBackMaps DEF CreateEnds, Return, CheckpointThrows
  <2> QED
    BY <1>9, <2>2, <2>3 DEF CreateCheckpointEnds
<1> QED
  BY <1>7, <1>8, <1>9 DEF CreateSteps

LEMMA DeleteStepsMap ==
    ASSUME CheckpointsAreSafe, KInv, NEW c \in Caller, DeleteSteps(c)
    PROVE  CatalogueStep /\ CreatedIsThere'
<1> DEFINE k == call[c].key
<1>1. /\ isUp /\ UNCHANGED isUp /\ ~Creating(c) /\ c \in Process
      /\ call[c].step # "idle" /\ k \in Key
  BY LockFacts DEF DeleteSteps, DeleteMissing, DeleteTimesOut, DeleteRegistered,
     DeleteCheckpointEnds, DeleteCloses, DeleteDirectory, At, Creating, CreateStep,
     server, Checkpointed, CheckpointThrows, KInv, LInv, CallsHoldLock
<1>2. ASSUME NEW new, call' = [call EXCEPT ![c] = new], new.step \notin CreateStep,
             \A d \in Caller \ {c} : Creating(d) =>
                 config'[call[d].key] = config[call[d].key]
      PROVE  CreatedIsThere'
  BY <1>1, <1>2 DEF CreatedIsThere, Creating, KInv, LInv, TypeOK
<1>3. CASE \/ DeleteMissing(c) \/ DeleteTimesOut(c) \/ DeleteCloses(c)
           \/ DeleteDirectory(c)
  <2>1. /\ UNCHANGED <<config, writer>> /\ queuesFile' = queuesFile
        /\ call[c].step \notin LockedStep
        /\ ToldDeleted(k) \/ UNCHANGED fate
    BY <1>3 DEF DeleteMissing, DeleteTimesOut, DeleteCloses, DeleteDirectory,
       registry, disk, At, LockedStep, CreateStep
  <2>2. PICK new \in {Idle, [step |-> "directory", key |-> k]} :
           call' = [call EXCEPT ![c] = new]
    BY <1>3, GotoKeepsKey DEF DeleteMissing, DeleteTimesOut, DeleteCloses,
       DeleteDirectory, Return, KInv, LInv
  <2>3. InProgress' = InProgress
    BY <2>1, <2>2, SameInProgress
  <2>4. new.step \notin CreateStep
    BY DEF Idle, CreateStep
  <2>5. CreatedIsThere'
    BY <1>2, <2>1, <2>2, <2>4
  <2>6. CatalogueStep
    BY <1>1, <2>1, <2>3, SameCatalogue, ToldDeletedMaps
  <2> QED
    BY <2>5, <2>6
<1>4. CASE DeleteRegistered(c)
  <2>1. /\ LockFree /\ config[k] # NoConfig /\ writer' = c
        /\ config' = [config EXCEPT ![k] = NoConfig]
        /\ ToldNothing(k) /\ queuesFile' = queuesFile
        /\ call' = [call EXCEPT ![c] = [step |-> "deleteCheckpoint", key |-> k]]
    BY <1>4, GotoKeepsKey DEF DeleteRegistered, Remove, Add, Registered, disk,
       KInv, LInv
  <2>2. call'[c] = [step |-> "deleteCheckpoint", key |-> k]
    BY <2>1 DEF KInv, LInv, TypeOK
  <2>3. InProgress = {} /\ InProgress' = {k}
    BY <2>1, <2>2, NothingInProgress, LockFacts DEF InProgress, At, KInv
  <2>4. \A d \in Caller : ~Creating(d)
    BY <2>1, LockFacts DEF KInv, LockFree, LockedStep, Creating
  <2>5. CreatedIsThere'
    BY <1>2, <2>1, <2>4 DEF CreateStep
  <2>6. Catalogue!Delete(k)
    BY <1>1, <2>1, <2>3, SameFile
       DEF Catalogue!Delete, Catalogue!Change, Catalogue!Tell, ToldNothing, Told
  <2> QED
    BY <1>1, <2>5, <2>6 DEF CatalogueStep, Catalogue!Next
<1>5. CASE DeleteCheckpointEnds(c)
  <2>1. /\ config' = config /\ config[k] = NoConfig /\ At(c, "deleteCheckpoint")
        /\ writer' = Nobody
    BY <1>5 DEF DeleteCheckpointEnds, registry, KInv, FInv, DeletedIsGone
  <2>2. PICK new \in {Idle, [step |-> "close", key |-> k]} :
           call' = [call EXCEPT ![c] = new]
    BY <1>5, GotoKeepsKey DEF DeleteCheckpointEnds, Return, KInv, LInv
  <2>3. new.step \notin CreateStep
    BY DEF Idle, CreateStep
  <2>4. CreatedIsThere'
    BY <1>2, <2>1, <2>2, <2>3
  <2>5. InProgress = {k} /\ InProgress' = {}
    BY <2>1, HolderIsBusy DEF At, LockedStep, InProgress
  <2>6. CASE /\ Checkpointed(c, "none")
             /\ IF k \in Queue THEN Told(k, "deleted") ELSE UNCHANGED fate
    <3>1. Catalogue!Save
      BY <1>1, <2>6, MovesPersisted, PersistedIsSaved DEF KInv
    <3>2. Catalogue!Deleted(k)
      BY <1>1, <2>1, <2>5, <2>6, <3>1 DEF Catalogue!Deleted, Catalogue!Tell, Told
    <3> QED
      BY <1>1, <2>4, <3>2 DEF CatalogueStep, Catalogue!Next
  <2>7. CASE CheckpointThrows(c) /\ UNCHANGED fate
    <3>1. Catalogue!GiveUp(k)
      BY <1>1, <2>1, <2>5, <2>7, SameFile DEF Catalogue!GiveUp, CheckpointThrows
    <3> QED
      BY <1>1, <2>4, <3>1 DEF CatalogueStep, Catalogue!Next
  <2> QED
    BY <1>5, <2>6, <2>7 DEF DeleteCheckpointEnds
<1> QED
  BY <1>3, <1>4, <1>5 DEF DeleteSteps

\* What heartbeat and Stop do, and the writing of the temporary file.
LEMMA ReadersMap ==
    ASSUME CheckpointsAreSafe, KInv,
           \/ \E p \in Process : Writes(p)
           \/ HeartbeatCheckpoint \/ HeartbeatCheckpointEnds
           \/ StopServer \/ StopSignals \/ StopCheckpointEnds \/ StopCloses
    PROVE  CatalogueStep /\ CreatedIsThere'
<1>1. UNCHANGED <<isUp, config, call, fate, writer>>
  BY WritesStep DEF HeartbeatCheckpoint, HeartbeatCheckpointEnds, StopServer,
     StopSignals, StopCheckpointEnds, StopCloses, server, registry, KInv, LInv
<1>2. CreatedIsThere' /\ InProgress' = InProgress
  BY <1>1 DEF KInv, CreatedIsThere, Creating, InProgress, At
<1>3. CASE queuesFile' = queuesFile
  BY <1>1, <1>2, <1>3, SameCatalogue
<1>4. CASE queuesFile' # queuesFile
  <2>1. PICK p \in Process : Checkpointed(p, "none")
    <3>1. \A p \in Process : Writes(p) => queuesFile' = queuesFile
      BY WritesPersisted DEF KInv
    <3>2. "heartbeat" \in Process /\ "stop" \in Process
      BY DEF Process
    <3> QED
      BY <1>4, <3>1, <3>2 DEF HeartbeatCheckpoint, HeartbeatCheckpointEnds,
         StopServer, StopSignals, StopCheckpointEnds, StopCloses,
         CheckpointThrows, disk
  <2>2. Catalogue!Save /\ isUp
    BY <2>1, MovesPersisted, PersistedIsSaved DEF KInv, Checkpointed
  <2>3. Catalogue!Copy
    BY <1>1, <1>2, <2>2 DEF Catalogue!Copy
  <2> QED
    BY <1>2, <2>3 DEF CatalogueStep, Catalogue!Next
<1> QED
  BY <1>3, <1>4

LEMMA ExitMaps ==
    ASSUME KInv, Exit, isUp
    PROVE  CatalogueStep /\ CreatedIsThere'
<1>1. /\ ~isUp' /\ config' = [k \in Key |-> NoConfig] /\ InProgress' = {}
      /\ UNCHANGED <<fate, queuesFile>> /\ isUp' = FALSE
  BY DEF Exit, InProgress, disk
<1>2. Catalogue!Exit
  BY <1>1, SameFile DEF Catalogue!Exit, Catalogue!None
<1>3. CreatedIsThere'
  BY DEF Exit, CreatedIsThere, Creating, Idle, CreateStep
<1> QED
  BY <1>2, <1>3 DEF CatalogueStep, Catalogue!Next

LEMMA StartMaps ==
    ASSUME KInv, Start
    PROVE  CatalogueStep /\ CreatedIsThere'
<1>1. /\ ~isUp /\ isUp' = TRUE
      /\ UNCHANGED <<writer, call, fate, queuesFile>>
      /\ config' \in [Key -> AnyConfig \cup {NoConfig}]
      /\ \A k \in Key : config'[k] \in Kept(k)
  BY DEF Start
<1>2. writer = Nobody /\ InProgress = {} /\ InProgress' = {}
  BY <1>1 DEF KInv, LInv, NothingInMemory, InProgress
<1>3. Saved' = Saved
  BY <1>1, SameFile
<1>4. ASSUME NEW k \in Key
      PROVE  \/ config'[k] = Saved[k]
             \/ k \notin Queue /\ config'[k] \in AnyConfig \ PersistentConfig
  <2>1. CASE k \in Queue
    BY <1>1, <1>3, <2>1 DEF Kept
  <2>2. CASE k \notin Queue
    <3> DEFINE q == k[1]
               own == ToConfiguration(Saved[q])
    <3>1. q \in Queue /\ k = DeadLetterOf(q)
      BY <2>2, KeyFacts
    <3>2. \/ config'[k] = Saved[k]
          \/ WantsCompanion(q) /\ config'[k] = own
      BY <1>1, <2>2, <3>1 DEF Kept, KeptCompanions
    <3>3. WantsCompanion(q) =>
              own = [scheme |-> "Ephemeral", deadLetter |-> "None"]
      BY DEF WantsCompanion, ToConfiguration
    <3>4. [scheme |-> "Ephemeral", deadLetter |-> "None"] \in
              AnyConfig \ PersistentConfig
      BY DEF AnyConfig, Scheme, PersistentConfig, Persists
    <3> QED
      BY <1>3, <2>2, <3>2, <3>3, <3>4
  <2> QED
    BY <2>1, <2>2
<1>5. Catalogue!Start
  BY <1>1, <1>2, <1>3, <1>4 DEF Catalogue!Start
<1>6. CreatedIsThere'
  BY <1>1, <1>2, LockFacts DEF CreatedIsThere, Creating, LockedStep, KInv
<1> QED
  BY <1>5, <1>6 DEF CatalogueStep, Catalogue!Next

LEMMA StepMaps ==
    KInv /\ CheckpointsAreSafe /\ [Next]_vars => CatalogueStep /\ CreatedIsThere'
<1> SUFFICES ASSUME KInv, CheckpointsAreSafe, [Next]_vars
             PROVE  CatalogueStep /\ CreatedIsThere'
  OBVIOUS
<1>1. CASE UNCHANGED vars
  <2>1. UNCHANGED <<isUp, config, call, fate, writer, queuesFile>>
    BY <1>1 DEF vars, server, registry, disk
  <2>2. CreatedIsThere' /\ InProgress' = InProgress
    BY <2>1 DEF KInv, CreatedIsThere, Creating, InProgress, At
  <2> QED
    BY <2>1, <2>2, SameCatalogue
<1>2. CASE Next
  <2>1. Caller \subseteq Process /\ "heartbeat" \in Process /\ "stop" \in Process
    BY DEF Process
  <2>2. StopEnds \/ Crash => Exit /\ isUp
    BY DEF StopEnds, Crash
  <2> QED
    BY <1>2, <2>1, <2>2, CallsMap, CreateStepsMap, DeleteStepsMap, ReadersMap,
       ExitMaps, StartMaps
       DEF Next, CallerSteps, HeartbeatSteps, StopSteps
<1> QED
  BY <1>1, <1>2

\* The registry with its file is the catalogue of the contract: the initial
\* state and every step are the contract's, through failing files, writes and
\* databases, graceful stops, crashes and restarts, on every platform, in every
\* behaviour in which Stop's checkpoint and the heartbeat's do not meet, or meet
\* where the system keeps them off each other's file.
THEOREM CatalogueKept ==
    Spec /\ []CheckpointsAreSafe => KeepsCatalogue
<1>1. Init => Catalogue!Init /\ CreatedIsThere
  BY DEF Init, Catalogue!Init, Catalogue!None, InProgress, Saved, NoFile,
         CreatedIsThere, Creating, Idle, CreateStep
<1>2. LInv /\ FInv /\ CreatedIsThere /\ CheckpointsAreSafe /\ [Next]_vars
          => CreatedIsThere' /\ [Catalogue!Next]_(Catalogue!vars)
  BY StepMaps DEF KInv, CatalogueStep
<1> QED
  BY <1>1, <1>2, LockInvariance, FileInvariance, PTL
     DEF Spec, KeepsCatalogue, Catalogue!Spec

-----------------------------------------------------------------------------
(* What follows from the contract alone.                                   *)

\* What the last caller was told of a queue is so, now and in the copy, and
\* nobody works on a queue of which something was confirmed.
Promise(q) ==
    /\ fate[q] = "created" =>
           /\ Saved[q] \in PersistentConfig
           /\ isUp => config[q] \in PersistentConfig
    /\ fate[q] = "deleted" => config[q] = NoConfig /\ Saved[q] = NoConfig
    /\ q \in InProgress => fate[q] \notin {"created", "deleted"}

PromiseInv ==
    /\ isUp \in BOOLEAN /\ fate \in [Queue -> Fate] /\ config \in [Key -> Cfg]
    /\ ~isUp => config = [k \in Key |-> NoConfig]
    /\ \A q \in Queue : Promise(q)

\* A queue keeps its promise when it is left alone, and when it is copied; of
\* which nothing is confirmed it has none to keep.
LEMMA UntouchedKeepsPromise ==
    ASSUME PromiseInv, isUp' = isUp,
           Saved' = Saved \/ (isUp /\ Catalogue!Save),
           NEW q \in Queue,
           \/ fate'[q] \notin {"created", "deleted"}
           \/ /\ fate'[q] = fate[q] /\ config'[q] = config[q]
              /\ q \in InProgress' => q \in InProgress
    PROVE  Promise(q)'
<1>1. Promise(q)
  BY DEF PromiseInv
<1>2. NoConfig \notin PersistentConfig /\ q \in Key
  BY ConfigFacts, KeyFacts DEF PersistentConfig
<1>3. \/ Saved'[q] = Saved[q]
      \/ isUp /\ Saved'[q] = IF config[q] \in PersistentConfig
                             THEN config[q] ELSE NoConfig
  BY <1>2 DEF Catalogue!Save
<1> QED
  BY <1>1, <1>2, <1>3 DEF Promise

\* The steps of a call for queue q.
LEMMA CallKeepsPromise ==
    ASSUME PromiseInv, NEW q \in Queue,
           \/ Catalogue!Created(q) \/ Catalogue!Withdraw(q)
           \/ Catalogue!Refuse(q) \/ Catalogue!Exists(q)
           \/ Catalogue!Settle(q) \/ Catalogue!Report(q)
           \/ \E cfg \in AnyConfig :
                 \/ Catalogue!Create(q, cfg)
                 \/ \E k \in Key \ Queue : Catalogue!Join(q, k, cfg)
    PROVE  PromiseInv'
<1>1. fate \in [Queue -> Fate] /\ config \in [Key -> Cfg] /\ isUp \in BOOLEAN
  BY DEF PromiseInv
<1>2. q \in Key /\ NoConfig \in Cfg /\ AnyConfig \subseteq Cfg
  BY KeyFacts DEF Cfg
<1>3. {"unknown", "created", "failed", "reported"} \subseteq Fate
  BY DEF Fate
<1>4. isUp' = isUp /\ isUp /\ (Saved' = Saved \/ Catalogue!Save)
  BY DEF Catalogue!Created, Catalogue!Withdraw, Catalogue!Refuse,
         Catalogue!Exists, Catalogue!Settle, Catalogue!Report,
         Catalogue!Create, Catalogue!Join
<1>5. /\ fate' \in [Queue -> Fate]
      /\ \A p \in Queue : p # q => fate'[p] = fate[p]
  BY <1>1, <1>3 DEF Catalogue!Created, Catalogue!Withdraw, Catalogue!Refuse,
         Catalogue!Exists, Catalogue!Settle, Catalogue!Report,
         Catalogue!Create, Catalogue!Join, Catalogue!Tell, Catalogue!Confirm
<1>6. config' \in [Key -> Cfg]
  BY <1>1, <1>2 DEF Catalogue!Created, Catalogue!Withdraw, Catalogue!Refuse,
         Catalogue!Exists, Catalogue!Settle, Catalogue!Report,
         Catalogue!Create, Catalogue!Join, Catalogue!Change
<1>7. CASE Catalogue!Withdraw(q)
  <2>1. InProgress' = {} /\ Saved' = Saved /\ fate'[q] = "failed"
    BY <1>1, <1>7 DEF Catalogue!Withdraw, Catalogue!Tell
  <2>2. ASSUME NEW p \in Queue, fate'[p] \in {"created", "deleted"}
        PROVE  config'[p] = config[p]
    <3>1. p # q /\ p \notin InProgress /\ p \in Key
      BY <1>5, <2>1, <2>2, KeyFacts DEF PromiseInv, Promise
    <3> QED
      BY <1>7, <3>1 DEF Catalogue!Withdraw
  <2>3. \A p \in Queue : Promise(p)'
    BY <1>4, <1>5, <2>1, <2>2, UntouchedKeepsPromise
  <2> QED
    BY <1>4, <1>5, <1>6, <2>3 DEF PromiseInv
<1>8. CASE Catalogue!Created(q) \/ Catalogue!Exists(q)
  <2>1. /\ config' = config /\ InProgress' = {}
        /\ fate'[q] = IF config[q] \in PersistentConfig THEN "created" ELSE "unknown"
    BY <1>1, <1>8 DEF Catalogue!Created, Catalogue!Exists, Catalogue!Confirm,
                      Catalogue!Tell
  <2>2. config[q] \in PersistentConfig => Saved'[q] = config[q]
    BY <1>2, <1>8 DEF Catalogue!Created, Catalogue!Exists, Catalogue!Save
  <2>3. Promise(q)'
    BY <2>1, <2>2 DEF Promise
  <2>4. \A p \in Queue : p # q => Promise(p)'
    BY <1>4, <1>5, <2>1, UntouchedKeepsPromise
  <2> QED
    BY <1>4, <1>5, <1>6, <2>3, <2>4 DEF PromiseInv
<1>9. CASE Catalogue!Refuse(q) \/ Catalogue!Report(q) \/ Catalogue!Settle(q)
  <2>1. /\ config' = config /\ InProgress' \subseteq InProgress
        /\ fate'[q] = fate[q] \/ fate'[q] \in {"failed", "reported"}
    BY <1>1, <1>9 DEF Catalogue!Refuse, Catalogue!Report, Catalogue!Settle,
                      Catalogue!Tell
  <2>2. \A p \in Queue : Promise(p)'
    BY <1>4, <1>5, <2>1, UntouchedKeepsPromise
  <2> QED
    BY <1>4, <1>5, <1>6, <2>2 DEF PromiseInv
<1>10. CASE \E cfg \in AnyConfig : Catalogue!Create(q, cfg)
  <2>1. /\ \A p \in Queue : p # q => config'[p] = config[p]
        /\ InProgress' = {q} /\ fate'[q] = "unknown"
    BY <1>1, <1>10, KeyFacts DEF Catalogue!Create, Catalogue!Change,
                                 Catalogue!Tell
  <2>2. \A p \in Queue : Promise(p)'
    BY <1>4, <1>5, <2>1, UntouchedKeepsPromise
  <2> QED
    BY <1>4, <1>5, <1>6, <2>2 DEF PromiseInv
<1>11. CASE \E cfg \in AnyConfig, k \in Key \ Queue : Catalogue!Join(q, k, cfg)
  <2>1. PICK k \in Key \ Queue : \E cfg \in AnyConfig : Catalogue!Join(q, k, cfg)
    BY <1>11
  <2>2. /\ \A p \in Queue : config'[p] = config[p]
        /\ InProgress = {q} /\ InProgress' = {q, k} /\ fate' = fate
    BY <1>1, <2>1, KeyFacts DEF Catalogue!Join, Catalogue!Change
  <2>3. \A p \in Queue : Promise(p)'
    BY <1>4, <2>2, UntouchedKeepsPromise
  <2> QED
    BY <1>4, <1>5, <1>6, <2>3 DEF PromiseInv
<1> QED
  BY <1>7, <1>8, <1>9, <1>10, <1>11

LEMMA DeletionKeepsPromise ==
    ASSUME PromiseInv, NEW k \in Key,
           Catalogue!Delete(k) \/ Catalogue!Deleted(k) \/ Catalogue!GiveUp(k)
    PROVE  PromiseInv'
<1>1. fate \in [Queue -> Fate] /\ config \in [Key -> Cfg] /\ isUp \in BOOLEAN
  BY DEF PromiseInv
<1>2. isUp' = isUp /\ isUp /\ (Saved' = Saved \/ Catalogue!Save)
  BY DEF Catalogue!Delete, Catalogue!Deleted, Catalogue!GiveUp
<1>3. /\ fate' \in [Queue -> Fate] /\ config' \in [Key -> Cfg]
      /\ \A p \in Queue : p # k => fate'[p] = fate[p] /\ config'[p] = config[p]
      /\ InProgress' \subseteq {k}
  BY <1>1, KeyFacts DEF Catalogue!Delete, Catalogue!Deleted, Catalogue!GiveUp,
         Catalogue!Tell, Catalogue!Change, Fate, Cfg
<1>4. ASSUME NEW p \in Queue, p # k PROVE Promise(p)'
  BY <1>2, <1>3, <1>4, UntouchedKeepsPromise
<1>5. ASSUME k \in Queue PROVE Promise(k)'
  <2>1. CASE Catalogue!Delete(k)
    BY <1>1, <1>5, <2>1 DEF Catalogue!Delete, Catalogue!Tell, Promise
  <2>2. CASE Catalogue!Deleted(k)
    <3>1. config'[k] = NoConfig /\ Saved'[k] = NoConfig /\ InProgress' = {}
      BY <2>2 DEF Catalogue!Deleted, Catalogue!Save
    <3>2. fate'[k] = "deleted"
      BY <1>1, <1>5, <2>2 DEF Catalogue!Deleted, Catalogue!Tell
    <3> QED
      BY <3>1, <3>2 DEF Promise
  <2>3. CASE Catalogue!GiveUp(k)
    <3>1. k \in InProgress /\ UNCHANGED <<config, fate, isUp>> /\ Saved' = Saved
      BY <2>3 DEF Catalogue!GiveUp
    <3> QED
      BY <1>2, <1>5, <3>1, UntouchedKeepsPromise
  <2> QED
    BY <2>1, <2>2, <2>3
<1> QED
  BY <1>2, <1>3, <1>4, <1>5 DEF PromiseInv

LEMMA ProcessKeepsPromise ==
    ASSUME PromiseInv, Catalogue!Copy \/ Catalogue!Exit \/ Catalogue!Start
    PROVE  PromiseInv'
<1>1. fate' = fate /\ fate \in [Queue -> Fate] /\ config \in [Key -> Cfg]
  BY DEF PromiseInv, Catalogue!Copy, Catalogue!Exit, Catalogue!Start
<1>2. CASE Catalogue!Copy
  <2>1. /\ isUp' = isUp /\ config' = config /\ InProgress' = InProgress
        /\ isUp /\ Catalogue!Save
    BY <1>2 DEF Catalogue!Copy
  <2>2. \A p \in Queue : Promise(p)'
    BY <1>1, <2>1, UntouchedKeepsPromise
  <2> QED
    BY <1>1, <2>1, <2>2 DEF PromiseInv
<1>3. CASE Catalogue!Exit
  <2>1. /\ isUp' = FALSE /\ config' = [k \in Key |-> NoConfig]
        /\ InProgress' = {} /\ Saved' = Saved
    BY <1>3 DEF Catalogue!Exit, Catalogue!None
  <2>2. ASSUME NEW p \in Queue PROVE Promise(p)'
    BY <1>1, <2>1, KeyFacts DEF PromiseInv, Promise
  <2> QED
    BY <1>1, <2>1, <2>2 DEF PromiseInv, Cfg
<1>4. CASE Catalogue!Start
  <2>1. /\ isUp' = TRUE /\ config' \in [Key -> Cfg]
        /\ \A p \in Queue : config'[p] = Saved[p]
        /\ InProgress' = InProgress /\ Saved' = Saved
    BY <1>4, KeyFacts DEF Catalogue!Start, Cfg
  <2>2. ASSUME NEW p \in Queue PROVE Promise(p)'
    BY <1>1, <2>1 DEF PromiseInv, Promise
  <2> QED
    BY <1>1, <2>1, <2>2 DEF PromiseInv
<1> QED
  BY <1>2, <1>3, <1>4

\* The contract alone makes the registry keep its word: whatever implements
\* it, a persistent queue that was reported as created is in queues.json and
\* in the registry of every process, and one whose deletion was carried out is
\* in neither.
THEOREM CatalogueKeepsItsWord ==
    KeepsCatalogue => [](CreatedStaysCreated /\ DeletionIsDurable)
<1>1. Catalogue!Init => PromiseInv
  BY KeyFacts DEF Catalogue!Init, Catalogue!None, PromiseInv, Promise, Fate, Cfg
<1>2. PromiseInv /\ [Catalogue!Next]_(Catalogue!vars) => PromiseInv'
  <2>1. PromiseInv /\ UNCHANGED Catalogue!vars => PromiseInv'
    BY DEF Catalogue!vars, PromiseInv, Promise
  <2>2. PromiseInv /\ Catalogue!Next => PromiseInv'
    BY CallKeepsPromise, DeletionKeepsPromise, ProcessKeepsPromise
       DEF Catalogue!Next
  <2> QED
    BY <2>1, <2>2
<1>3. PromiseInv => CreatedStaysCreated /\ DeletionIsDurable
  <2>1. \A q \in Queue : /\ NoFile.entries[q] \notin PersistentConfig
                         /\ NoConfig \notin PersistentConfig
    BY ConfigFacts, KeyFacts DEF NoFile, PersistentConfig
  <2> QED
    BY <2>1 DEF PromiseInv, Promise, CreatedStaysCreated, DeletionIsDurable,
                Listed, Saved, Registered, PersistentConfig
<1> QED
  BY <1>1, <1>2, <1>3, PTL DEF KeepsCatalogue, Catalogue!Spec
=============================================================================
