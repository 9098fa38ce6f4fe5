--------------------------- MODULE QueueCatalogue ---------------------------
(***************************************************************************)
(* What the registry of queues promises, told without files, checkpoints,  *)
(* locks or threads: a catalogue that one call at a time changes, and a    *)
(* saved copy of it that is always the whole catalogue as it was at one    *)
(* moment.  A creation or a deletion is confirmed only together with a     *)
(* copy that has it.  The process may die at any moment: the calls then    *)
(* never return, and the next one starts from the copy.                    *)
(***************************************************************************)

CONSTANTS
    Queue,          \* the queues that are created and deleted by name
    Key,            \* these and their companions
    Configuration, Absent,
    Durable         \* the configurations of persistent queues

VARIABLES
    open,           \* the process exists
    catalogue,      \* by key: the configuration, or Absent
    busy,           \* the keys of the call in progress
    saved,          \* by key: the copy
    told            \* by queue: what the last caller was told of it

vars == <<open, catalogue, busy, saved, told>>

None == [k \in Key |-> Absent]

Init ==
    /\ open = TRUE /\ catalogue = None /\ busy = {} /\ saved = None
    /\ told = [q \in Queue |-> "unknown"]

Tell(q, what) == told' = [told EXCEPT ![q] = what]
Confirm(q) == Tell(q, IF catalogue[q] \in Durable THEN "created" ELSE "unknown")

\* What is copied: an ephemeral queue does not outlive the process.
Save == saved' = [k \in Key |->
            IF catalogue[k] \in Durable THEN catalogue[k] ELSE Absent]

Copy == open /\ Save /\ UNCHANGED <<open, catalogue, busy, told>>

Change(k, cfg) == catalogue' = [catalogue EXCEPT ![k] = cfg]

Create(q, cfg) ==
    /\ open /\ busy = {} /\ catalogue[q] = Absent
    /\ Change(q, cfg) /\ busy' = {q}
    /\ Tell(q, "unknown")
    /\ UNCHANGED <<open, saved>>

\* The companion of the queue that is being created; it is there to stay as
\* soon as a copy has it.
Join(q, k, cfg) ==
    /\ open /\ busy = {q} /\ catalogue[q] # Absent /\ catalogue[k] = Absent
    /\ Change(k, cfg) /\ busy' = {q, k}
    /\ UNCHANGED <<open, saved, told>>

Settle(q) ==
    /\ open /\ q \in busy /\ busy # {q}
    /\ Save /\ busy' = {q}
    /\ UNCHANGED <<open, catalogue, told>>

Created(q) ==
    /\ open /\ busy = {q} /\ catalogue[q] # Absent
    /\ Save /\ busy' = {} /\ Confirm(q)
    /\ UNCHANGED <<open, catalogue>>

\* A creation fails: of what it added nothing stays that is not settled.
Withdraw(q) ==
    /\ open /\ q \in busy /\ catalogue[q] # Absent
    /\ catalogue' = [k \in Key |-> IF k \in busy THEN Absent ELSE catalogue[k]]
    /\ busy' = {} /\ Tell(q, "failed")
    /\ UNCHANGED <<open, saved>>

Refuse(q) ==
    /\ open /\ busy = {} /\ catalogue[q] = Absent
    /\ Tell(q, "failed")
    /\ UNCHANGED <<open, catalogue, busy, saved>>

\* A queue that is there already is confirmed too: the copy has it as it is.
Exists(q) ==
    /\ open /\ busy = {} /\ catalogue[q] # Absent
    /\ catalogue[q] \in Durable => saved[q] = catalogue[q]
    /\ Confirm(q)
    /\ UNCHANGED <<open, catalogue, busy, saved>>

Delete(k) ==
    /\ open /\ busy = {} /\ catalogue[k] # Absent
    /\ Change(k, Absent) /\ busy' = {k}
    /\ IF k \in Queue THEN Tell(k, "unknown") ELSE UNCHANGED told
    /\ UNCHANGED <<open, saved>>

Deleted(k) ==
    /\ open /\ busy = {k} /\ catalogue[k] = Absent
    /\ Save /\ busy' = {}
    /\ IF k \in Queue THEN Tell(k, "deleted") ELSE UNCHANGED told
    /\ UNCHANGED <<open, catalogue>>

\* A deletion fails: nothing is said of the queue.
GiveUp(k) ==
    /\ open /\ busy = {k} /\ catalogue[k] = Absent /\ busy' = {}
    /\ UNCHANGED <<open, catalogue, saved, told>>

\* A deletion that did nothing returns all the same, which promises nothing.
Report(q) ==
    /\ open /\ told[q] # "deleted" /\ Tell(q, "reported")
    /\ UNCHANGED <<open, catalogue, busy, saved>>

Exit ==
    /\ open /\ open' = FALSE /\ catalogue' = None /\ busy' = {}
    /\ UNCHANGED <<saved, told>>

\* An ephemeral companion may take the place of what was saved under its key.
Start ==
    /\ ~open /\ open' = TRUE
    /\ catalogue' \in [Key -> Configuration \cup {Absent}]
    /\ \A k \in Key :
           \/ catalogue'[k] = saved[k]
           \/ k \notin Queue /\ catalogue'[k] \in Configuration \ Durable
    /\ UNCHANGED <<busy, saved, told>>

Next ==
    \/ \E q \in Queue : \/ Created(q) \/ Withdraw(q) \/ Refuse(q) \/ Exists(q)
                        \/ Settle(q) \/ Report(q)
    \/ \E q \in Queue, cfg \in Configuration :
           Create(q, cfg) \/ \E k \in Key \ Queue : Join(q, k, cfg)
    \/ \E k \in Key : Delete(k) \/ Deleted(k) \/ GiveUp(k)
    \/ Copy \/ Exit \/ Start

Spec == Init /\ [][Next]_vars
=============================================================================
