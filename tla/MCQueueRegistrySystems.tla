----------------------- MODULE MCQueueRegistrySystems -----------------------
(***************************************************************************)
(* The two systems the service is built for, in one run: Windows, which    *)
(* protects a file that is being written, and Linux, which does not.  On   *)
(* the latter a write may stop half-way too, and the checkpoint of Stop    *)
(* does not meet one of the heartbeat; QRTornFile.cfg is the case in which *)
(* they meet.                                                              *)
(***************************************************************************)
EXTENDS MCQueueRegistry

VARIABLE system \* which of the two the process runs on

\* Whether a database or a file opens does not depend on the system.
Linux == INSTANCE QueueRegistry WITH
    OpenFilesLocked <- FALSE, Environment <- {"crash", "stop", "writeFailure"}

\* A step of the one system or of the other.
On(windows, linux) ==
    /\ UNCHANGED system
    /\ \/ system = "Windows" /\ windows
       \/ system = "Linux" /\ linux /\ NoOverlap'

SystemsInit == Init /\ system \in {"Windows", "Linux"}

SystemsNext == On(Next, Linux!Next)

SystemsFairness ==
    /\ \A c \in Caller : SF_vars(On(CallerSteps(c), Linux!CallerSteps(c)))
    /\ SF_vars(On(StopSteps, Linux!StopSteps))
    /\ WF_vars(On(HeartbeatSteps, Linux!HeartbeatSteps))

SystemsSpec ==
    SystemsInit /\ [][SystemsNext]_<<vars, system>> /\ SystemsFairness
=============================================================================
