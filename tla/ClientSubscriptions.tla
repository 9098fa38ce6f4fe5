------------------------ MODULE ClientSubscriptions ------------------------
(***************************************************************************)
(* The subscription of one CMqClient to one queue: Subscribe, Unsubscribe, *)
(* Connect and Disconnect called by the threads of the application, the    *)
(* reconnect and its RestoreSubscriptions, the receipt of messages, the    *)
(* buffers of a buffered subscription and the task that flushes them, with *)
(* the server's side of it: the subscribers of the queue and their removal *)
(* when a connection ends.                                                 *)
(*                                                                         *)
(* Abstractions.  The queue's own bookkeeping of a delivery is in module   *)
(* MessageQueue; here a delivery that fails puts the message back.  A      *)
(* connection is its number; the client has one at a time.                 *)
(* NTDLS.ReliableMessaging is external: a query is handled at most once    *)
(* and never after the disconnect event of its connection, and its answer  *)
(* is lost when the connection ends.                                       *)
(***************************************************************************)
EXTENDS Integers, FiniteSets

CONSTANTS
    App,              \* threads of the application
    Nobody,           \* no thread
    Environment,      \* the events of the environment that may happen
    Buffering,        \* are subscriptions buffered: the choices of the application
    AutoFlush,        \* the subscriptions have an AutoFlushInterval
    BatchSize,        \* batchSize of the buffered subscriptions
    MaxMessages,      \* BOUND on the messages of the queue
    MaxConnections,   \* BOUND on the connections made
    MaxSubscriptions  \* BOUND on the calls of Subscribe

Event == {"linkDrop", "queryTimeout", "refusal"}

Connection == 1..MaxConnections
Subscription == 1..MaxSubscriptions
Message == 1..MaxMessages

ASSUME ClientAssumption ==
    /\ Nobody \notin App \cup Connection /\ App \cap Connection = {}
    /\ Environment \subseteq Event /\ Buffering \subseteq BOOLEAN
    /\ AutoFlush \in BOOLEAN
    /\ BatchSize \in Nat \ {0} /\ MaxMessages \in Nat
    /\ MaxConnections \in Nat \ {0} /\ MaxSubscriptions \in Nat

\* The threads of the application, and the task that a reconnect starts.
Process == App \cup (2..MaxConnections)

Kind == {"subscribe", "unsubscribe"}

VARIABLES
    connection, linkUp,      \* of RmClient: its connection, and is it up
    explicitlyDisconnected,  \* RmClient.ExplicitlyDisconnected
    registered,              \* _subscriptions: the id under the name, or 0
    buffered,                \* by id: is it a buffered subscription
    lastSubscription,        \* the ids that were given
    messageBuffer,           \* _messageBuffer, by id
    bufferedDeliveryTask,    \* is the task running
    process,                 \* what each thread does
    subscribers, gone,       \* server: Subscribers; connections it has ended
    requests,                \* queries that the server has not handled
    delivery,                \* by message
    handedOver,              \* history: messages given to the application
    troubled                 \* history: some exception was reported

link == <<connection, linkUp, explicitlyDisconnected>>
client == <<registered, buffered, lastSubscription>>
buffers == <<messageBuffer, handedOver>>
server == <<subscribers, gone>>
vars == <<link, client, buffers, bufferedDeliveryTask, process, server,
          requests, delivery, troubled>>

Idle == [does |-> "idle", phase |-> "none", id |-> 0, connection |-> 0]
Queued == [step |-> "queued", connection |-> 0, id |-> 0]

\* The client after its first Connect.
Init ==
    /\ connection = 1 /\ linkUp = TRUE /\ explicitlyDisconnected = FALSE
    /\ registered = 0 /\ lastSubscription = 0
    /\ buffered = [s \in Subscription |-> FALSE]
    /\ messageBuffer = [s \in Subscription |-> {}]
    /\ bufferedDeliveryTask = FALSE
    /\ process = [p \in Process |-> Idle]
    /\ subscribers = {} /\ gone = {} /\ requests = {}
    /\ delivery = [m \in Message |-> Queued]
    /\ handedOver = {} /\ troubled = FALSE

Alive(c) == linkUp /\ c = connection
Ended(c) == c \in 1..connection /\ ~Alive(c)

At(p, does, phase) == process[p].does = does /\ process[p].phase = phase
IsIdle(p) == process[p] = Idle
Becomes(p, does, phase, id) ==
    process' = [process EXCEPT ![p] =
        [does |-> does, phase |-> phase, id |-> id, connection |-> 0]]
Return(p) == process' = [process EXCEPT ![p] = Idle]

-----------------------------------------------------------------------------
(* The queries of the client and the handlers of the server.               *)

\* RmClient.Query: without a connection it throws.
Send(p) ==
    /\ process[p].phase = "send" /\ process[p].does \in Kind
    /\ IF linkUp
       THEN /\ process' = [process EXCEPT ![p].phase = "wait",
                                          ![p].connection = connection]
            /\ requests' = requests \cup {[kind |-> process[p].does, by |-> p,
                                           connection |-> connection]}
       ELSE /\ process' = [process EXCEPT ![p].phase = "failed"]
            /\ UNCHANGED requests
    /\ UNCHANGED <<link, client, buffers, bufferedDeliveryTask, server,
                   delivery, troubled>>

\* Subscribe and Unsubscribe of CMqServer.
Handled(r) ==
    IF r.kind = "subscribe" THEN subscribers \cup {r.connection}
                            ELSE subscribers \ {r.connection}

AnsweredWith(r, phase) ==
    process' = IF r.by # Nobody /\ Alive(r.connection)
               THEN [process EXCEPT ![r.by].phase = phase] ELSE process

\* Refused: the queue does not exist, or its lock was not granted in time.
HandleRequest(r) ==
    /\ r \in requests /\ requests' = requests \ {r}
    /\ \/ subscribers' = Handled(r) /\ AnsweredWith(r, "ok")
       \/ /\ "refusal" \in Environment
          /\ AnsweredWith(r, "failed") /\ UNCHANGED subscribers
    /\ UNCHANGED <<link, client, buffers, bufferedDeliveryTask, gone, delivery,
                   troubled>>

\* The caller gives up; the server may still handle the query.
GivesUp(p) ==
    /\ process[p].phase = "wait" /\ process[p].does \in Kind
    /\ process' = [process EXCEPT ![p].phase = "failed"]
    /\ requests' = {IF r.by = p THEN [r EXCEPT !.by = Nobody] ELSE r :
                        r \in requests}
    /\ UNCHANGED <<link, client, buffers, bufferedDeliveryTask, server,
                   delivery, troubled>>

ConnectionTerminated(p) == ~Alive(process[p].connection) /\ GivesUp(p)
QueryTimesOut(p) == "queryTimeout" \in Environment /\ GivesUp(p)

\* Mutant of OnDisconnected: it returns when a lock is not granted.
OnDisconnectedOnce(c) ==
    /\ Ended(c) /\ c \notin gone
    /\ gone' = gone \cup {c}
    /\ subscribers' \in {subscribers, subscribers \ {c}}
    /\ requests' = {r \in requests : r.connection # c}
    /\ UNCHANGED <<link, client, buffers, bufferedDeliveryTask, process,
                   delivery, troubled>>

\* RmServer_OnDisconnected
OnDisconnected(c) ==
    /\ Ended(c) /\ c \notin gone
    /\ gone' = gone \cup {c}
    /\ subscribers' = subscribers \ {c}
    /\ requests' = {r \in requests : r.connection # c}
    /\ UNCHANGED <<link, client, buffers, bufferedDeliveryTask, process,
                   delivery, troubled>>

-----------------------------------------------------------------------------
(* Subscribe and SubscribeBuffered, Unsubscribe, and their Async forms.    *)

\* RegisterSubscription
Subscribe(a) ==
    /\ IsIdle(a) /\ registered = 0 /\ lastSubscription < MaxSubscriptions
    /\ lastSubscription' = lastSubscription + 1
    /\ registered' = lastSubscription'
    /\ \E b \in Buffering :
          buffered' = [buffered EXCEPT ![lastSubscription'] = b]
    /\ Becomes(a, "subscribe", "send", lastSubscription')
    /\ UNCHANGED <<link, buffers, bufferedDeliveryTask, server, requests,
                   delivery, troubled>>

\* StartBufferedDeliveryTask
StartTask(id) == bufferedDeliveryTask' = (bufferedDeliveryTask \/ buffered[id])

SubscribeEnds(a) ==
    \/ /\ At(a, "subscribe", "ok") /\ a \in App
       /\ StartTask(process[a].id)
       /\ Return(a)
       /\ UNCHANGED <<link, client, buffers, server, requests, delivery,
                      troubled>>
    \/ /\ At(a, "subscribe", "failed") /\ a \in App
       \* DiscardSubscription
       /\ registered' = (IF registered = process[a].id THEN 0 ELSE registered)
       /\ troubled' = TRUE
       /\ Return(a)
       /\ UNCHANGED <<link, buffered, lastSubscription, buffers,
                      bufferedDeliveryTask, server, requests, delivery>>

Unsubscribe(a) ==
    /\ IsIdle(a) /\ registered # 0
    /\ Becomes(a, "unsubscribe", "send", 0)
    /\ UNCHANGED <<link, client, buffers, bufferedDeliveryTask, server,
                   requests, delivery, troubled>>

\* What is registered under the name by now is removed.
UnsubscribeEnds(a) ==
    /\ \/ At(a, "unsubscribe", "ok") /\ registered' = 0 /\ UNCHANGED troubled
       \/ At(a, "unsubscribe", "failed") /\ troubled' = TRUE
          /\ UNCHANGED registered
    /\ Return(a)
    /\ UNCHANGED <<link, buffered, lastSubscription, buffers,
                   bufferedDeliveryTask, server, requests, delivery>>

-----------------------------------------------------------------------------
(* Connect, Disconnect, the loss of the connection and the reconnect.      *)

\* ResetBufferedMessagesAndSubscriptions.  The application does not connect
\* while another thread of it is still inside Disconnect or Connect.
Connect(a) ==
    /\ IsIdle(a) /\ connection < MaxConnections
    /\ explicitlyDisconnected
    /\ \A b \in App : process[b].does \notin {"connect", "disconnect"}
    /\ registered' = 0
    /\ messageBuffer' = [s \in Subscription |-> {}]
    /\ Becomes(a, "connect", "send", 0)
    /\ UNCHANGED <<link, buffered, lastSubscription, handedOver,
                   bufferedDeliveryTask, server, requests, delivery, troubled>>

Connected(explicitly) ==
    /\ connection' = connection + 1 /\ linkUp' = TRUE
    /\ explicitlyDisconnected' = explicitly

ConnectEnds(a) ==
    /\ At(a, "connect", "send")
    /\ Connected(FALSE)
    /\ Return(a)
    /\ UNCHANGED <<client, buffers, bufferedDeliveryTask, server, requests,
                   delivery, troubled>>

Disconnect(a) ==
    /\ IsIdle(a) /\ ~explicitlyDisconnected
    /\ linkUp' = FALSE /\ explicitlyDisconnected' = TRUE
    /\ Becomes(a, "disconnect", "wait", 0)
    /\ UNCHANGED <<connection, client, buffers, bufferedDeliveryTask, server,
                   requests, delivery, troubled>>

\* _bufferedDeliveryTask?.Wait()
DisconnectEnds(a) ==
    /\ At(a, "disconnect", "wait") /\ ~bufferedDeliveryTask
    /\ Return(a)
    /\ UNCHANGED <<link, client, buffers, bufferedDeliveryTask, server,
                   requests, delivery, troubled>>

LinkDrops ==
    /\ "linkDrop" \in Environment /\ linkUp
    /\ linkUp' = FALSE
    /\ UNCHANGED <<connection, explicitlyDisconnected, client, buffers,
                   bufferedDeliveryTask, process, server, requests, delivery,
                   troubled>>

\* Mutant of Reconnect: it restores nothing.
ReconnectWithout ==
    /\ ~linkUp /\ ~explicitlyDisconnected /\ connection < MaxConnections
    /\ Connected(FALSE)
    /\ UNCHANGED <<process, client, buffers, bufferedDeliveryTask, server,
                   requests, delivery, troubled>>

\* AutoReconnect; RmClient_OnConnected starts RestoreSubscriptions as a task.
Reconnect ==
    /\ ~linkUp /\ ~explicitlyDisconnected /\ connection < MaxConnections
    /\ Connected(FALSE)
    /\ Becomes(connection', "restore", "send", 0)
    /\ UNCHANGED <<client, buffers, bufferedDeliveryTask, server, requests,
                   delivery, troubled>>

\* RestoreSubscriptions reads the names, then queries.
Restore(t) ==
    /\ At(t, "restore", "send")
    /\ IF registered = 0 THEN Return(t)
       ELSE Becomes(t, "subscribe", "send", 0)
    /\ UNCHANGED <<link, client, buffers, bufferedDeliveryTask, server,
                   requests, delivery, troubled>>

\* OnException reports what failed.
RestoreEnds(t) ==
    /\ t \in Connection
    /\ \/ At(t, "subscribe", "ok") /\ UNCHANGED troubled
       \/ At(t, "subscribe", "failed") /\ troubled' = TRUE
    /\ Return(t)
    /\ UNCHANGED <<link, client, buffers, bufferedDeliveryTask, server,
                   requests, delivery>>

-----------------------------------------------------------------------------
(* Messages: DeliverMessageWithResultAsync and InvokeOnReceived.           *)

Moves(m, step, c, id) ==
    delivery' = [delivery EXCEPT ![m] =
        [step |-> step, connection |-> c, id |-> id]]

\* A delivery to a connection that has ended fails at once.
Deliver(m) ==
    /\ delivery[m].step = "queued" /\ linkUp /\ connection \in subscribers
    /\ Moves(m, "sent", connection, 0)
    /\ UNCHANGED <<link, client, buffers, bufferedDeliveryTask, process,
                   server, requests, troubled>>

\* The handler of the subscription is looked up by name ...
Receive(m) ==
    LET c == delivery[m].connection IN
    /\ delivery[m].step = "sent"
    /\ CASE ~Alive(c) -> delivery' = [delivery EXCEPT ![m] = Queued]
         [] Alive(c) /\ registered = 0 -> Moves(m, "declined", 0, 0)
         [] OTHER -> Moves(m, "held", c, registered)
    /\ UNCHANGED <<link, client, buffers, bufferedDeliveryTask, process,
                   server, requests, troubled>>

\* ... and then, with no lock held, invoked, or its buffer written to.  The
\* answer reaches the queue unless the connection has ended.
Handle(m) ==
    LET id == delivery[m].id IN
    /\ delivery[m].step = "held"
    /\ IF buffered[id]
       THEN /\ messageBuffer' = [messageBuffer EXCEPT ![id] = @ \cup {m}]
            /\ UNCHANGED handedOver
       ELSE handedOver' = handedOver \cup {m} /\ UNCHANGED messageBuffer
    /\ IF Alive(delivery[m].connection)
       THEN Moves(m, "consumed", 0, 0)
       ELSE delivery' = [delivery EXCEPT ![m] = Queued]
    /\ UNCHANGED <<link, client, bufferedDeliveryTask, process, server,
                   requests, troubled>>

-----------------------------------------------------------------------------
(* FlushBufferedMessages and the task that calls it.                       *)

\* Full batches are handed over, with "all" the rest too.
Flush(id, all) ==
    /\ \E rest \in SUBSET messageBuffer[id] :
          /\ Cardinality(rest) =
                 IF all THEN 0 ELSE Cardinality(messageBuffer[id]) % BatchSize
          /\ handedOver' = handedOver \cup (messageBuffer[id] \ rest)
          /\ messageBuffer' = [messageBuffer EXCEPT ![id] = rest]

\* Only a subscription that is registered is flushed.
TaskFlushes ==
    /\ bufferedDeliveryTask /\ ~explicitlyDisconnected /\ registered # 0
    /\ messageBuffer[registered] # {}
    /\ \E all \in {FALSE, AutoFlush} : Flush(registered, all)
    /\ UNCHANGED <<link, client, bufferedDeliveryTask, process, server,
                   requests, delivery, troubled>>

\* Mutant of TaskEnds: the last flush leaves partial batches.
TaskEndsUnforced ==
    /\ bufferedDeliveryTask /\ explicitlyDisconnected
    /\ IF registered # 0 THEN Flush(registered, FALSE) ELSE UNCHANGED buffers
    /\ bufferedDeliveryTask' = FALSE
    /\ UNCHANGED <<link, client, process, server, requests, delivery, troubled>>

\* The forced flush when the client was explicitly disconnected.
TaskEnds ==
    /\ bufferedDeliveryTask /\ explicitlyDisconnected
    /\ IF registered # 0 THEN Flush(registered, TRUE) ELSE UNCHANGED buffers
    /\ bufferedDeliveryTask' = FALSE
    /\ UNCHANGED <<link, client, process, server, requests, delivery, troubled>>

-----------------------------------------------------------------------------
Returns(p) ==
    \/ SubscribeEnds(p) \/ UnsubscribeEnds(p) \/ ConnectEnds(p)
    \/ DisconnectEnds(p) \/ Restore(p) \/ RestoreEnds(p)
    \/ Send(p) \/ ConnectionTerminated(p)

Arrives(m) == Deliver(m) \/ Receive(m) \/ Handle(m)

Task == TaskFlushes \/ TaskEnds

Next ==
    \/ \E a \in App : Subscribe(a) \/ Unsubscribe(a) \/ Connect(a) \/ Disconnect(a)
    \/ \E p \in Process : Returns(p) \/ QueryTimesOut(p)
    \/ \E r \in requests : HandleRequest(r)
    \/ \E c \in Connection : OnDisconnected(c)
    \/ \E m \in Message : Arrives(m)
    \/ LinkDrops \/ Reconnect \/ Task

Spec == Init /\ [][Next]_vars

\* Threads, tasks and the server run on; the flush interval elapses.  Calls of
\* the application, the network and the events of Environment are free.
Fairness ==
    /\ \A p \in Process : WF_vars(Returns(p))
    /\ WF_vars(\E r \in requests : HandleRequest(r))
    /\ \A m \in Message : WF_vars(Arrives(m))
    /\ WF_vars(Task)

FairSpec == Spec /\ Fairness

-----------------------------------------------------------------------------
(* Properties.                                                             *)

Request == [kind: Kind, by: Process \cup {Nobody}, connection: Connection]

\* Type correctness, and what the history of a connection implies: the server
\* ends only connections that have ended, and keeps no subscriber of those.
TypeOK ==
    /\ connection \in Connection
    /\ linkUp \in BOOLEAN /\ explicitlyDisconnected \in BOOLEAN
    /\ registered \in 0..lastSubscription
    /\ lastSubscription \in 0..MaxSubscriptions
    /\ buffered \in [Subscription -> BOOLEAN]
    /\ messageBuffer \in [Subscription -> SUBSET Message]
    /\ bufferedDeliveryTask \in BOOLEAN
    /\ process \in [Process ->
           [does: Kind \cup {"idle", "connect", "disconnect", "restore"},
            phase: {"none", "send", "wait", "ok", "failed"},
            id: 0..MaxSubscriptions, connection: 0..MaxConnections]]
    /\ subscribers \subseteq (1..connection) \ gone
    /\ gone \subseteq {c \in Connection : Ended(c)}
    /\ requests \subseteq Request
    /\ delivery \in [Message ->
           [step: {"queued", "sent", "held", "consumed", "declined"},
            connection: 0..MaxConnections, id: 0..MaxSubscriptions]]
    /\ handedOver \subseteq Message /\ troubled \in BOOLEAN

Quiet == requests = {} /\ \A p \in Process : IsIdle(p)

\* No subscription is lost without a word: at rest, a connected client that has
\* had no exception is a subscriber of the queue it has a subscription to,
\* whatever calls of other threads and reconnects went before.
NoSilentLoss ==
    Quiet /\ ~troubled /\ linkUp /\ registered # 0 => connection \in subscribers

InBuffer(m) == registered # 0 /\ m \in messageBuffer[registered]

\* A message that the server counts as consumed, and that is in the buffer of
\* the registered subscription, is handed over, disconnected or not.
BufferedIsHandedOver ==
    \A m \in Message :
        delivery[m].step = "consumed" /\ InBuffer(m)
            ~> m \in handedOver \/ ~InBuffer(m)

\* "Waits for a subscriber rather than being lost.": the server's NotInterested
\* ends the delivery, so no message may be declined by a client that has been
\* told of no failure.
NoMessageDeclined ==
    ~troubled => \A m \in Message : delivery[m].step # "declined"

\* "The messages are buffered at the client until the batch size is met or the
\* auto flush interval is reached.": what was consumed is handed over.
ConsumedIsHandedOver ==
    \A m \in Message : delivery[m].step = "consumed" ~> m \in handedOver
=============================================================================
