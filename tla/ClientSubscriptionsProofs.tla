--------------------- MODULE ClientSubscriptionsProofs ---------------------
(***************************************************************************)
(* Proofs about ClientSubscriptions, for every number of application       *)
(* threads, connections, subscriptions and messages: the server keeps no   *)
(* subscriber of a connection it has ended, no subscription is lost        *)
(* without an exception, a message is declined only after Unsubscribe or   *)
(* Connect has removed the handler of the subscription, and what was       *)
(* consumed is stranded only when a registered subscription is removed.    *)
(***************************************************************************)
EXTENDS ClientSubscriptions, TLAPS

\* What a call that failed or that was given up on will report.
Failing(p) == process[p].does \in Kind /\ process[p].phase = "failed"

\* A query that was not handled belongs to a connection that the server has
\* not ended, and to a caller that waits for it or is about to report.
RequestsAreOpen ==
    \A r \in requests :
        /\ r.connection \in (1..connection) \ gone
        /\ r.by # Nobody =>
               /\ process[r.by].phase = "wait" /\ process[r.by].does = r.kind
               /\ process[r.by].connection = r.connection
        /\ r.by = Nobody => troubled \/ \E p \in Process : Failing(p)

Connecting(p) == process[p].does = "connect"

\* One thread at a time connects, of the application's, and only after an
\* explicit disconnect, which ends the connection; nothing else connects then.
ConnectIsAlone ==
    /\ explicitlyDisconnected => ~linkUp
    /\ \A p \in Process : Connecting(p) =>
           /\ p \in App /\ explicitlyDisconnected /\ connection < MaxConnections
           /\ \A q \in Process : Connecting(q) => q = p

\* The task of a reconnect to come does nothing yet.
TasksAreFresh == \A t \in Process : t \in Connection /\ t > connection => IsIdle(t)

\* A call or a task that will subscribe the client, take its subscription away
\* or report an exception.
Settles(p) ==
    \/ process[p].does \in {"unsubscribe", "restore"}
    \/ process[p].does = "subscribe" /\ process[p].phase \in {"send", "wait", "failed"}

SubscribedOrOnItsWay ==
    ~troubled /\ registered # 0 /\ (linkUp \/ \E p \in Process : Connecting(p)) =>
        \/ linkUp /\ connection \in subscribers
        \/ \E p \in Process : Settles(p)

CInv ==
    /\ TypeOK /\ RequestsAreOpen /\ ConnectIsAlone /\ TasksAreFresh
    /\ SubscribedOrOnItsWay

-----------------------------------------------------------------------------
(* Steps that change one thread and steps that change none.                *)

Thread ==
    [does: Kind \cup {"idle", "connect", "disconnect", "restore"},
     phase: {"none", "send", "wait", "ok", "failed"},
     id: 0..MaxSubscriptions, connection: 0..MaxConnections]

LEMMA Processes ==
    /\ Nobody \notin Process
    /\ \A a \in App : a \in Process /\ a \notin Connection
    /\ \A c \in Connection : c > 1 => c \in Process
    /\ 0 \in 0..MaxSubscriptions /\ 0 \in 0..MaxConnections
    /\ Connection \subseteq Nat /\ Connection \subseteq 0..MaxConnections
    /\ MaxConnections \in Nat \ {0} /\ MaxSubscriptions \in Nat
<1>1. Connection = 1..MaxConnections /\ MaxConnections \in Nat \ {0}
  BY ClientAssumption DEF Connection
<1>2. 2..MaxConnections \subseteq Connection
  BY <1>1
<1>3. Nobody \notin Process
  BY <1>2, ClientAssumption DEF Process
<1>4. \A a \in App : a \in Process /\ a \notin Connection
  BY ClientAssumption DEF Process
<1>5. \A c \in Connection : c > 1 => c \in Process
  BY <1>1 DEF Process
<1> QED
  BY <1>1, <1>3, <1>4, <1>5, ClientAssumption

LEMMA IdleThread ==
    /\ Idle \in Thread /\ Idle.does = "idle" /\ Idle.phase = "none"
  BY Processes DEF Idle, Thread

\* A thread that does something is an application's or that of a reconnect.
LEMMA NotFresh ==
    ASSUME CInv, NEW p \in Process, process[p].does # "idle"
    PROVE  ~(p \in Connection /\ p > connection)
  BY IdleThread DEF CInv, TasksAreFresh, IsIdle

LEMMA OneThread ==
    ASSUME TypeOK, NEW p \in Process, NEW r \in Thread,
           process' = [process EXCEPT ![p] = r]
    PROVE  /\ process' \in [Process -> Thread] /\ process'[p] = r
           /\ \A q \in Process : q # p => process'[q] = process[q]
  BY DEF TypeOK, Thread

\* What Becomes writes.
LEMMA BecomesFacts ==
    ASSUME NEW does \in Kind \cup {"idle", "connect", "disconnect", "restore"},
           NEW phase \in {"none", "send", "wait", "ok", "failed"},
           NEW id \in 0..MaxSubscriptions
    PROVE  [does |-> does, phase |-> phase, id |-> id, connection |-> 0] \in Thread
  BY Processes DEF Thread

\* Messages and buffers are no concern of the calls.
LEMMA DataStepKeeps ==
    ASSUME CInv, TypeOK',
           UNCHANGED <<connection, linkUp, explicitlyDisconnected, registered,
                       process, subscribers, gone, requests, troubled>>
    PROVE  CInv'
<1>1. RequestsAreOpen' /\ ConnectIsAlone'
  BY DEF CInv, RequestsAreOpen, Failing, ConnectIsAlone, Connecting
<1>2. TasksAreFresh' /\ SubscribedOrOnItsWay'
  BY DEF CInv, TasksAreFresh, IsIdle, SubscribedOrOnItsWay, Connecting, Settles
<1> QED
  BY <1>1, <1>2 DEF CInv

\* A thread that waits for no answer goes on: it reports what failed, and the
\* subscription is gone, reported, on its way, or as before.
LEMMA ThreadStepKeeps ==
    ASSUME CInv, TypeOK', NEW p \in Process, NEW r \in Thread,
           process' = [process EXCEPT ![p] = r],
           UNCHANGED <<connection, linkUp, explicitlyDisconnected, subscribers,
                       gone, requests>>,
           troubled => troubled',
           ~(p \in Connection /\ p > connection),
           ~(process[p].does \in Kind /\ process[p].phase = "wait"),
           Failing(p) => troubled', r.does # "connect",
           \/ registered' = 0
           \/ troubled'
           \/ r.does \in {"unsubscribe", "restore"}
           \/ r.does = "subscribe" /\ r.phase \in {"send", "failed"}
           \/ registered' = registered /\ ~Settles(p)
    PROVE  CInv'
<1>1. /\ process'[p] = r
      /\ \A q \in Process : q # p => process'[q] = process[q]
  BY OneThread DEF CInv
<1>2. RequestsAreOpen'
  <2> SUFFICES ASSUME NEW q \in requests
               PROVE  /\ q.connection \in (1..connection) \ gone
                      /\ q.by # Nobody =>
                             /\ process'[q.by].phase = "wait"
                             /\ process'[q.by].does = q.kind
                             /\ process'[q.by].connection = q.connection
                      /\ q.by = Nobody => troubled' \/ \E s \in Process : Failing(s)'
    BY DEF RequestsAreOpen
  <2>1. q.kind \in Kind /\ q.by \in Process \cup {Nobody}
    BY DEF CInv, TypeOK, Request
  <2>2. q.connection \in (1..connection) \ gone
    BY DEF CInv, RequestsAreOpen
  <2>3. CASE q.by # Nobody
    <3>1. q.by # p
      BY <2>1, <2>3 DEF CInv, RequestsAreOpen
    <3> QED
      BY <1>1, <2>1, <2>2, <2>3, <3>1 DEF CInv, RequestsAreOpen
  <2>4. CASE q.by = Nobody
    <3>1. troubled \/ \E s \in Process : Failing(s)
      BY <2>4 DEF CInv, RequestsAreOpen
    <3>2. \A s \in Process : s # p /\ Failing(s) => Failing(s)'
      BY <1>1 DEF Failing
    <3> QED
      BY <2>2, <2>4, <3>1, <3>2
  <2> QED
    BY <2>3, <2>4
<1>3. \A q \in Process : Connecting(q)' => Connecting(q)
  BY <1>1 DEF Connecting
<1>4. ConnectIsAlone'
  BY <1>3 DEF CInv, ConnectIsAlone
<1>5. TasksAreFresh'
  BY <1>1 DEF CInv, TasksAreFresh, IsIdle
<1>6. SubscribedOrOnItsWay'
  <2> SUFFICES ASSUME ~troubled', registered' # 0,
                      linkUp \/ \E q \in Process : Connecting(q)
               PROVE  \/ linkUp /\ connection \in subscribers
                      \/ \E q \in Process : Settles(q)'
    BY <1>3 DEF SubscribedOrOnItsWay
  <2>1. CASE \/ r.does \in {"unsubscribe", "restore"}
             \/ r.does = "subscribe" /\ r.phase \in {"send", "failed"}
    <3>1. Settles(p)'
      BY <1>1, <2>1 DEF Settles
    <3> QED
      BY <3>1
  <2>2. CASE registered' = registered /\ ~Settles(p)
    <3>1. \/ linkUp /\ connection \in subscribers
          \/ \E q \in Process : Settles(q)
      BY <2>2 DEF CInv, SubscribedOrOnItsWay
    <3>2. \A q \in Process : Settles(q) => Settles(q)'
      BY <1>1, <2>2 DEF Settles
    <3> QED
      BY <3>1, <3>2
  <2> QED
    BY <2>1, <2>2
<1> QED
  BY <1>2, <1>4, <1>5, <1>6 DEF CInv

-----------------------------------------------------------------------------
(* Calls of the application, and their ends.                               *)

LEMMA SubscribeKeeps ==
    ASSUME CInv, NEW a \in App, Subscribe(a)
    PROVE  CInv'
<1> DEFINE id == lastSubscription + 1
           r == [does |-> "subscribe", phase |-> "send", id |-> id, connection |-> 0]
<1>1. /\ IsIdle(a) /\ registered = 0 /\ lastSubscription < MaxSubscriptions
      /\ lastSubscription' = id /\ registered' = id
      /\ process' = [process EXCEPT ![a] = r]
      /\ UNCHANGED <<connection, linkUp, explicitlyDisconnected, messageBuffer,
                     handedOver, bufferedDeliveryTask, subscribers, gone,
                     requests, delivery, troubled>>
  BY DEF Subscribe, Becomes, link, buffers, server
<1>2. PICK b \in Buffering : buffered' = [buffered EXCEPT ![id] = b]
  BY <1>1 DEF Subscribe
<1>3. /\ id \in 1..MaxSubscriptions /\ id \in 0..id /\ id \in 0..MaxSubscriptions
      /\ id # 0
  BY <1>1, Processes DEF CInv, TypeOK
<1> HIDE DEF id
<1>4. a \in Process /\ r \in Thread
  BY <1>3, BecomesFacts, Processes DEF Kind
<1>5. r.does = "subscribe" /\ r.phase = "send"
  OBVIOUS
<1> HIDE DEF r
<1>6. process' \in [Process -> Thread]
  BY <1>1, <1>4, OneThread DEF CInv
<1>7. buffered' \in [Subscription -> BOOLEAN]
  BY <1>2, <1>3, ClientAssumption DEF CInv, TypeOK
<1>8. TypeOK'
  BY <1>1, <1>3, <1>6, <1>7 DEF CInv, TypeOK, Thread, Ended, Alive
<1>9. /\ ~(a \in Connection /\ a > connection)
      /\ process[a].does = "idle" /\ process[a].phase = "none"
  BY <1>1, Processes, IdleThread DEF IsIdle
<1>10. ~(process[a].does \in Kind /\ process[a].phase = "wait") /\ ~Failing(a)
  BY <1>9 DEF Failing
<1> QED
  BY <1>1, <1>4, <1>5, <1>8, <1>9, <1>10, ThreadStepKeeps

LEMMA UnsubscribeKeeps ==
    ASSUME CInv, NEW a \in App, Unsubscribe(a)
    PROVE  CInv'
<1> DEFINE r == [does |-> "unsubscribe", phase |-> "send", id |-> 0, connection |-> 0]
<1>1. /\ IsIdle(a) /\ process' = [process EXCEPT ![a] = r]
      /\ UNCHANGED <<link, client, buffers, bufferedDeliveryTask, server,
                     requests, delivery, troubled>>
  BY DEF Unsubscribe, Becomes
<1>2. /\ a \in Process /\ r \in Thread
      /\ r.does = "unsubscribe" /\ r.phase = "send"
  BY BecomesFacts, Processes DEF Kind
<1> HIDE DEF r
<1>3. process' \in [Process -> Thread]
  BY <1>1, <1>2, OneThread DEF CInv
<1>4. TypeOK'
  BY <1>1, <1>3 DEF CInv, TypeOK, Thread, Ended, Alive, link, client, buffers, server
<1>5. /\ ~(a \in Connection /\ a > connection)
      /\ process[a].does = "idle" /\ process[a].phase = "none"
  BY <1>1, Processes, IdleThread DEF IsIdle
<1>6. ~(process[a].does \in Kind /\ process[a].phase = "wait") /\ ~Failing(a)
  BY <1>5 DEF Failing
<1> QED
  BY <1>1, <1>2, <1>4, <1>5, <1>6, ThreadStepKeeps DEF link, client, server

\* The end of a call: the thread is idle again.
LEMMA ReturnKeeps ==
    ASSUME CInv, NEW p \in Process, Return(p),
           process[p].does # "idle",
           ~(process[p].does \in Kind /\ process[p].phase = "wait"),
           UNCHANGED <<link, buffered, lastSubscription, buffers, server,
                       requests, delivery>>,
           bufferedDeliveryTask' \in BOOLEAN, troubled' \in {TRUE, troubled},
           Failing(p) => troubled' = TRUE, registered' \in {0, registered},
           \/ registered' = 0 \/ troubled' = TRUE
           \/ registered' = registered /\ ~Settles(p)
    PROVE  CInv'
<1>1. process' = [process EXCEPT ![p] = Idle]
  BY DEF Return
<1>2. process' \in [Process -> Thread]
  BY <1>1, OneThread, IdleThread DEF CInv
<1>3. registered' \in 0..lastSubscription
  BY DEF CInv, TypeOK
<1>4. troubled' \in BOOLEAN /\ (troubled => troubled')
  BY DEF CInv, TypeOK
<1>5. TypeOK'
  BY <1>2, <1>3, <1>4 DEF CInv, TypeOK, Thread, Ended, Alive, link, buffers, server
<1>6. ~(p \in Connection /\ p > connection)
  BY NotFresh
<1> QED
  BY <1>1, <1>5, <1>6, <1>4, IdleThread, ThreadStepKeeps DEF link, server

LEMMA EndsKeep ==
    ASSUME CInv, NEW p \in Process,
           \/ SubscribeEnds(p) \/ UnsubscribeEnds(p) \/ DisconnectEnds(p)
           \/ RestoreEnds(p)
    PROVE  CInv'
<1>1. troubled \in BOOLEAN /\ bufferedDeliveryTask \in BOOLEAN
      /\ buffered \in [Subscription -> BOOLEAN]
  BY DEF CInv, TypeOK
<1>2. CASE SubscribeEnds(p) /\ At(p, "subscribe", "ok")
  <2>1. /\ Return(p)
        /\ UNCHANGED <<link, client, buffers, server, requests, delivery, troubled>>
        /\ bufferedDeliveryTask' = (bufferedDeliveryTask \/ buffered[process[p].id])
        /\ process[p].does = "subscribe" /\ process[p].phase = "ok"
    BY <1>2 DEF SubscribeEnds, StartTask, At
  <2>2. bufferedDeliveryTask' \in BOOLEAN
    BY <2>1
  <2>3. ~Failing(p) /\ ~Settles(p) /\ process[p].does # "idle"
    BY <2>1 DEF Failing, Settles
  <2> QED
    BY <1>1, <2>1, <2>2, <2>3, ReturnKeeps DEF client
<1>3. CASE SubscribeEnds(p) /\ ~At(p, "subscribe", "ok")
  <2>1. /\ Return(p) /\ troubled' = TRUE
        /\ registered' \in {0, registered}
        /\ UNCHANGED <<link, buffered, lastSubscription, buffers,
                       bufferedDeliveryTask, server, requests, delivery>>
        /\ process[p].does = "subscribe" /\ process[p].phase = "failed"
    BY <1>3 DEF SubscribeEnds, At
  <2>2. bufferedDeliveryTask' \in BOOLEAN /\ troubled' \in {TRUE, troubled}
    BY <1>1, <2>1
  <2>3. /\ process[p].does # "idle"
        /\ ~(process[p].does \in Kind /\ process[p].phase = "wait")
    BY <2>1
  <2> QED
    BY <2>1, <2>2, <2>3, ReturnKeeps
<1>4. CASE UnsubscribeEnds(p)
  <2>1. /\ Return(p) /\ process[p].does = "unsubscribe"
        /\ UNCHANGED <<link, buffered, lastSubscription, buffers,
                       bufferedDeliveryTask, server, requests, delivery>>
        /\ \/ process[p].phase = "ok" /\ registered' = 0 /\ UNCHANGED troubled
           \/ process[p].phase = "failed" /\ troubled' = TRUE
              /\ UNCHANGED registered
    BY <1>4 DEF UnsubscribeEnds, At
  <2>2. bufferedDeliveryTask' \in BOOLEAN /\ troubled' \in {TRUE, troubled}
    BY <1>1, <2>1
  <2>3. /\ process[p].does # "idle"
        /\ ~(process[p].does \in Kind /\ process[p].phase = "wait")
        /\ Failing(p) => troubled' = TRUE
        /\ registered' = 0 \/ troubled' = TRUE
        /\ registered' \in {0, registered}
    BY <2>1 DEF Failing
  <2> QED
    BY <2>1, <2>2, <2>3, ReturnKeeps
<1>5. CASE DisconnectEnds(p)
  <2>1. /\ Return(p) /\ process[p].does = "disconnect"
        /\ UNCHANGED <<link, client, buffers, bufferedDeliveryTask, server,
                       requests, delivery, troubled>>
    BY <1>5 DEF DisconnectEnds, At
  <2>2. ~Failing(p) /\ ~Settles(p) /\ process[p].does \notin Kind
    BY <2>1 DEF Failing, Settles, Kind
  <2> QED
    BY <1>1, <2>1, <2>2, ReturnKeeps DEF client
<1>6. CASE RestoreEnds(p)
  <2>1. /\ Return(p) /\ process[p].does = "subscribe"
        /\ UNCHANGED <<link, client, buffers, bufferedDeliveryTask, server,
                       requests, delivery>>
        /\ \/ process[p].phase = "ok" /\ UNCHANGED troubled
           \/ process[p].phase = "failed" /\ troubled' = TRUE
    BY <1>6 DEF RestoreEnds, At
  <2>2. bufferedDeliveryTask' \in BOOLEAN /\ troubled' \in {TRUE, troubled}
    BY <1>1, <2>1
  <2>3. /\ process[p].does # "idle"
        /\ ~(process[p].does \in Kind /\ process[p].phase = "wait")
        /\ Failing(p) => troubled' = TRUE
        /\ troubled' = TRUE \/ ~Settles(p)
        /\ registered' = registered
    BY <2>1 DEF Failing, Settles, client
  <2> QED
    BY <2>1, <2>2, <2>3, ReturnKeeps DEF client
<1> QED
  BY <1>2, <1>3, <1>4, <1>5, <1>6

LEMMA RestoreKeeps ==
    ASSUME CInv, NEW t \in Process, Restore(t)
    PROVE  CInv'
<1>1. /\ process[t].does = "restore" /\ process[t].phase = "send"
      /\ UNCHANGED <<link, client, buffers, bufferedDeliveryTask, server,
                     requests, delivery, troubled>>
      /\ IF registered = 0 THEN Return(t) ELSE Becomes(t, "subscribe", "send", 0)
  BY DEF Restore, At
<1>2. ~Failing(t) /\ process[t].does \notin Kind
  BY <1>1 DEF Failing, Kind
<1>3. CASE registered = 0
  <2>1. bufferedDeliveryTask' \in BOOLEAN /\ troubled' \in {TRUE, troubled}
    BY <1>1 DEF CInv, TypeOK
  <2>2. /\ Return(t) /\ registered' = 0 /\ registered' = registered
        /\ UNCHANGED <<link, buffered, lastSubscription, buffers, server,
                       requests, delivery>>
        /\ process[t].does # "idle"
    BY <1>1, <1>3 DEF client
  <2> QED
    BY <1>2, <2>1, <2>2, ReturnKeeps
<1>4. CASE registered # 0
  <2> DEFINE r == [does |-> "subscribe", phase |-> "send", id |-> 0, connection |-> 0]
  <2>1. process' = [process EXCEPT ![t] = r]
    BY <1>1, <1>4 DEF Becomes
  <2>2. r \in Thread /\ r.does = "subscribe" /\ r.phase = "send"
    BY BecomesFacts, Processes DEF Kind
  <2> HIDE DEF r
  <2>3. process' \in [Process -> Thread]
    BY <2>1, <2>2, OneThread DEF CInv
  <2>4. TypeOK'
    BY <1>1, <2>3 DEF CInv, TypeOK, Thread, Ended, Alive, link, client, buffers, server
  <2>5. ~(t \in Connection /\ t > connection)
    BY <1>1, NotFresh
  <2> QED
    BY <1>1, <1>2, <2>1, <2>2, <2>4, <2>5, ThreadStepKeeps DEF link, client, server
<1> QED
  BY <1>3, <1>4

-----------------------------------------------------------------------------
(* Queries and their handlers.                                             *)

\* A query that is sent belongs to the connection that is up.
LEMMA SendKeeps ==
    ASSUME CInv, NEW p \in Process, Send(p)
    PROVE  CInv'
<1>1. /\ process[p].phase = "send" /\ process[p].does \in Kind
      /\ UNCHANGED <<connection, linkUp, explicitlyDisconnected, registered, buffered,
                     lastSubscription, messageBuffer, handedOver,
                     bufferedDeliveryTask, subscribers, gone, delivery, troubled>>
  BY DEF Send, link, client, buffers, server
<1>2. /\ process \in [Process -> Thread] /\ connection \in 0..MaxConnections
      /\ connection \in Connection /\ connection \in Nat \ {0}
  BY Processes DEF CInv, TypeOK, Thread, Connection
<1>3. /\ ~(p \in Connection /\ p > connection)
      /\ process[p].does \in {"subscribe", "unsubscribe"}
  BY <1>1, NotFresh DEF Kind
<1>4. CASE ~linkUp
  <2> DEFINE r == [process[p] EXCEPT !.phase = "failed"]
  <2>1. process' = [process EXCEPT ![p] = r] /\ requests' = requests
    BY <1>2, <1>4 DEF Send
  <2>2. r \in Thread /\ r.phase = "failed" /\ r.does = process[p].does
    BY <1>2 DEF Thread
  <2> HIDE DEF r
  <2>3. process' \in [Process -> Thread]
    BY <2>1, <2>2, OneThread DEF CInv
  <2>4. TypeOK'
    BY <1>1, <2>1, <2>3 DEF CInv, TypeOK, Thread, Ended, Alive
  <2>5. ~Failing(p) /\ process[p].phase # "wait" /\ r.does # "connect"
    BY <1>1, <1>3, <2>2 DEF Failing
  <2>6. \/ r.does \in {"unsubscribe", "restore"}
        \/ r.does = "subscribe" /\ r.phase \in {"send", "failed"}
    BY <1>3, <2>2
  <2> QED
    BY <1>1, <1>3, <2>1, <2>2, <2>4, <2>5, <2>6, ThreadStepKeeps
<1>5. CASE linkUp
  <2> DEFINE r == [process[p] EXCEPT !.phase = "wait", !.connection = connection]
             query == [kind |-> process[p].does, by |-> p, connection |-> connection]
  <2>1. process' = [process EXCEPT ![p] = r] /\ requests' = requests \cup {query}
    BY <1>2, <1>5 DEF Send
  <2>2. /\ r \in Thread /\ r.phase = "wait" /\ r.does = process[p].does
        /\ r.connection = connection
    BY <1>2 DEF Thread
  <2>3. /\ query \in Request /\ query.by = p /\ query.kind = process[p].does
        /\ query.connection = connection
    BY <1>1, <1>2 DEF Request
  <2> HIDE DEF r, query
  <2>4. /\ process' \in [Process -> Thread] /\ process'[p] = r
        /\ \A q \in Process : q # p => process'[q] = process[q]
    BY <2>1, <2>2, OneThread DEF CInv
  <2>5. TypeOK'
    BY <1>1, <2>1, <2>3, <2>4 DEF CInv, TypeOK, Thread, Ended, Alive
  <2>6. RequestsAreOpen'
    <3>1. connection \in (1..connection) \ gone
      BY <1>2, <1>5 DEF CInv, TypeOK, Ended, Alive
    <3>2. ASSUME NEW q \in requests
          PROVE  /\ q.connection \in (1..connection) \ gone
                 /\ q.by # Nobody =>
                        /\ process'[q.by].phase = "wait"
                        /\ process'[q.by].does = q.kind
                        /\ process'[q.by].connection = q.connection
                 /\ q.by = Nobody => troubled \/ \E s \in Process : Failing(s)'
      <4>1. q.by \in Process \cup {Nobody}
        BY DEF CInv, TypeOK, Request
      <4>2. q.by # Nobody => q.by # p
        BY <1>1 DEF CInv, RequestsAreOpen
      <4>3. \A t \in Process : Failing(t) => Failing(t)'
        BY <1>1, <2>4 DEF Failing
      <4> QED
        BY <2>4, <4>1, <4>2, <4>3 DEF CInv, RequestsAreOpen
    <3>3. p # Nobody
      BY Processes
    <3> QED
      BY <1>1, <2>1, <2>2, <2>3, <2>4, <3>1, <3>2, <3>3 DEF RequestsAreOpen
  <2>7. ConnectIsAlone'
    <3>1. \A q \in Process : Connecting(q)' => Connecting(q)
      BY <1>3, <2>2, <2>4 DEF Connecting
    <3> QED
      BY <1>1, <3>1 DEF CInv, ConnectIsAlone
  <2>8. TasksAreFresh'
    BY <1>1, <1>3, <2>4 DEF CInv, TasksAreFresh, IsIdle
  <2>9. SubscribedOrOnItsWay'
    <3>1. \A q \in Process : Settles(q) => Settles(q)'
      BY <1>1, <1>3, <2>2, <2>4 DEF Settles
    <3> QED
      BY <1>1, <1>5, <3>1 DEF CInv, SubscribedOrOnItsWay
  <2> QED
    BY <2>5, <2>6, <2>7, <2>8, <2>9 DEF CInv
<1> QED
  BY <1>4, <1>5

\* The caller that gives up reports it; the query is nobody's.
LEMMA GivesUpKeeps ==
    ASSUME CInv, NEW p \in Process, GivesUp(p)
    PROVE  CInv'
<1> DEFINE r == [process[p] EXCEPT !.phase = "failed"]
           disown(q) == IF q.by = p THEN [q EXCEPT !.by = Nobody] ELSE q
<1>1. /\ process[p].phase = "wait" /\ process[p].does \in Kind
      /\ process' = [process EXCEPT ![p].phase = "failed"]
      /\ requests' = {disown(q) : q \in requests}
      /\ UNCHANGED <<connection, linkUp, explicitlyDisconnected, registered, buffered,
                     lastSubscription, messageBuffer, handedOver,
                     bufferedDeliveryTask, subscribers, gone, delivery, troubled>>
  BY DEF GivesUp, link, client, buffers, server
<1>2. process \in [Process -> Thread]
  BY DEF CInv, TypeOK, Thread
<1>3. /\ process' = [process EXCEPT ![p] = r]
      /\ r \in Thread /\ r.phase = "failed" /\ r.does = process[p].does
  BY <1>1, <1>2 DEF Thread
<1>4. ASSUME NEW q \in requests
      PROVE  /\ disown(q) \in Request /\ disown(q).kind = q.kind
             /\ disown(q).connection = q.connection
             /\ disown(q).by = IF q.by = p THEN Nobody ELSE q.by
  BY DEF CInv, TypeOK, Request
<1> HIDE DEF r, disown
<1>5. /\ process' \in [Process -> Thread] /\ process'[p] = r
      /\ \A q \in Process : q # p => process'[q] = process[q]
  BY <1>3, OneThread DEF CInv
<1>6. /\ ~(p \in Connection /\ p > connection)
      /\ process[p].does \in {"subscribe", "unsubscribe"}
  BY <1>1, NotFresh DEF Kind
<1>7. TypeOK'
  BY <1>1, <1>4, <1>5 DEF CInv, TypeOK, Thread, Ended, Alive
<1>8. RequestsAreOpen'
  <2>1. Failing(p)'
    BY <1>1, <1>3, <1>5 DEF Failing
  <2>2. ASSUME NEW q \in requests, q.by # p, q.by # Nobody
        PROVE  /\ process'[q.by].phase = "wait" /\ process'[q.by].does = q.kind
               /\ process'[q.by].connection = q.connection
    <3>1. q.by \in Process
      BY <2>2 DEF CInv, TypeOK, Request
    <3> QED
      BY <1>5, <2>2, <3>1 DEF CInv, RequestsAreOpen
  <2>3. \A q \in requests : q.connection \in (1..connection) \ gone
    BY DEF CInv, RequestsAreOpen
  <2> QED
    BY <1>1, <1>4, <2>1, <2>2, <2>3 DEF RequestsAreOpen
<1>9. ConnectIsAlone'
  <2>1. \A q \in Process : Connecting(q)' => Connecting(q)
    BY <1>3, <1>5, <1>6 DEF Connecting
  <2> QED
    BY <1>1, <2>1 DEF CInv, ConnectIsAlone
<1>10. TasksAreFresh'
  BY <1>1, <1>5, <1>6 DEF CInv, TasksAreFresh, IsIdle
<1>11. SubscribedOrOnItsWay'
  <2>1. \A q \in Process : Settles(q) => Settles(q)'
    BY <1>3, <1>5, <1>6 DEF Settles
  <2>2. \A q \in Process : Connecting(q)' => Connecting(q)
    BY <1>3, <1>5, <1>6 DEF Connecting
  <2> QED
    BY <1>1, <2>1, <2>2 DEF CInv, SubscribedOrOnItsWay
<1> QED
  BY <1>7, <1>8, <1>9, <1>10, <1>11 DEF CInv

\* A query that is handled subscribes or unsubscribes its connection; whoever
\* waited for that has its answer, and if nobody did somebody reports it.
LEMMA HandleRequestKeeps ==
    ASSUME CInv, NEW r \in requests, HandleRequest(r)
    PROVE  CInv'
<1>1. /\ requests' = requests \ {r}
      /\ UNCHANGED <<connection, linkUp, explicitlyDisconnected, registered, buffered,
                     lastSubscription, messageBuffer, handedOver,
                     bufferedDeliveryTask, gone, delivery, troubled>>
      /\ \/ subscribers' = Handled(r) /\ AnsweredWith(r, "ok")
         \/ subscribers' = subscribers /\ AnsweredWith(r, "failed")
  BY DEF HandleRequest, link, client, buffers
<1>2. /\ r \in Request /\ r.kind \in Kind /\ r.by \in Process \cup {Nobody}
      /\ r.connection \in (1..connection) \ gone
  BY DEF CInv, TypeOK, Request, RequestsAreOpen
<1> DEFINE answered == r.by # Nobody /\ Alive(r.connection)
<1>3. PICK phase \in {"ok", "failed"} :
          /\ process' = IF answered THEN [process EXCEPT ![r.by].phase = phase]
                        ELSE process
          /\ phase = "ok" => subscribers' = Handled(r)
          /\ phase = "failed" => subscribers' = subscribers
  BY <1>1 DEF AnsweredWith
<1>4. process \in [Process -> Thread]
  BY DEF CInv, TypeOK, Thread
<1>5. ASSUME answered
      PROVE  /\ r.by \in Process /\ process[r.by].phase = "wait"
             /\ process[r.by].does = r.kind
             /\ process[r.by].connection = r.connection
  BY <1>2, <1>5 DEF CInv, RequestsAreOpen
<1>6. /\ process' \in [Process -> Thread]
      /\ \A q \in Process : (answered => q # r.by) => process'[q] = process[q]
      /\ answered => /\ process'[r.by].phase = phase
                     /\ process'[r.by].does = r.kind
  <2>1. CASE answered
    <3> DEFINE t == [process[r.by] EXCEPT !.phase = phase]
    <3>1. process' = [process EXCEPT ![r.by] = t]
      BY <1>3, <1>4, <1>5, <2>1
    <3>2. t \in Thread /\ t.phase = phase /\ t.does = r.kind
      BY <1>4, <1>5, <2>1 DEF Thread
    <3> HIDE DEF t
    <3> QED
      BY <1>5, <2>1, <3>1, <3>2, OneThread DEF CInv
  <2>2. CASE ~answered
    BY <1>3, <1>4, <2>2
  <2> QED
    BY <2>1, <2>2
<1> HIDE DEF answered
<1>7. /\ subscribers' \subseteq subscribers \cup {r.connection}
      /\ subscribers' = subscribers \/ subscribers' = Handled(r)
      /\ subscribers' = Handled(r) \/ phase = "failed"
  BY <1>3 DEF Handled
<1>8. TypeOK'
  BY <1>1, <1>2, <1>6, <1>7 DEF CInv, TypeOK, Thread, Ended, Alive
<1>9. RequestsAreOpen'
  <2> SUFFICES ASSUME NEW q \in requests, q # r
               PROVE  /\ q.connection \in (1..connection) \ gone
                      /\ q.by # Nobody =>
                             /\ process'[q.by].phase = "wait"
                             /\ process'[q.by].does = q.kind
                             /\ process'[q.by].connection = q.connection
                      /\ q.by = Nobody => troubled \/ \E s \in Process : Failing(s)'
    BY <1>1 DEF RequestsAreOpen
  <2>1. q \in Request /\ q.by \in Process \cup {Nobody}
    BY DEF CInv, TypeOK, Request
  <2>2. ASSUME answered, q.by = r.by PROVE FALSE
    <3>1. q.by # Nobody
      BY <2>2 DEF answered
    <3>2. q.kind = r.kind /\ q.connection = r.connection
      BY <1>5, <2>2, <3>1 DEF CInv, RequestsAreOpen
    <3> QED
      BY <1>2, <2>1, <2>2, <3>2 DEF Request
  <2>3. \A s \in Process : Failing(s) => Failing(s)'
    <3>1. answered => ~Failing(r.by)
      BY <1>5 DEF Failing
    <3> QED
      BY <1>6, <3>1 DEF Failing
  <2> QED
    BY <1>6, <2>1, <2>2, <2>3 DEF CInv, RequestsAreOpen
<1>10. \A q \in Process : Connecting(q)' => Connecting(q)
  BY <1>2, <1>5, <1>6 DEF Connecting, Kind
<1>11. ConnectIsAlone'
  BY <1>1, <1>10 DEF CInv, ConnectIsAlone
<1>12. TasksAreFresh'
  <2>1. answered => ~(r.by \in Connection /\ r.by > connection)
    BY <1>2, <1>5, NotFresh DEF Kind
  <2> QED
    BY <1>1, <1>6, <2>1 DEF CInv, TasksAreFresh, IsIdle
<1>13. SubscribedOrOnItsWay'
  <2> SUFFICES ASSUME ~troubled, registered # 0,
                      linkUp \/ \E q \in Process : Connecting(q)
               PROVE  \/ linkUp /\ connection \in subscribers'
                      \/ \E q \in Process : Settles(q)'
    BY <1>1, <1>10 DEF SubscribedOrOnItsWay
  <2>1. \A q \in Process : (answered => q # r.by) /\ Settles(q) => Settles(q)'
    BY <1>6 DEF Settles
  <2>2. CASE answered /\ r.kind = "unsubscribe"
    BY <1>5, <1>6, <2>2 DEF Settles
  <2>3. CASE answered /\ r.kind = "subscribe" /\ phase = "failed"
    BY <1>5, <1>6, <2>3 DEF Settles
  <2>4. CASE answered /\ r.kind = "subscribe" /\ phase = "ok"
    <3>1. linkUp /\ r.connection = connection
      BY <2>4 DEF answered, Alive
    <3> QED
      BY <1>3, <2>4, <3>1 DEF Handled
  <2>5. CASE ~answered /\ r.by = Nobody
    <3>1. PICK s \in Process : Failing(s)
      BY <2>5 DEF CInv, RequestsAreOpen
    <3>2. Settles(s)
      BY <3>1 DEF Failing, Settles, Kind
    <3> QED
      BY <2>1, <2>5, <3>2
  <2>6. CASE ~answered /\ r.by # Nobody
    <3>1. \/ linkUp /\ connection \in subscribers
          \/ \E q \in Process : Settles(q)
      BY DEF CInv, SubscribedOrOnItsWay
    <3>2. linkUp => r.connection # connection
      BY <2>6 DEF answered, Alive
    <3>3. linkUp /\ connection \in subscribers => connection \in subscribers'
      BY <1>7, <3>2 DEF Handled
    <3> QED
      BY <2>1, <2>6, <3>1, <3>3
  <2> QED
    BY <1>2, <2>2, <2>3, <2>4, <2>5, <2>6 DEF Kind
<1> QED
  BY <1>8, <1>9, <1>11, <1>12, <1>13 DEF CInv

\* The server lets go of a connection that has ended, and of its queries.
LEMMA OnDisconnectedKeeps ==
    ASSUME CInv, NEW c \in Connection, OnDisconnected(c)
    PROVE  CInv'
<1>1. /\ Ended(c) /\ gone' = gone \cup {c} /\ subscribers' = subscribers \ {c}
      /\ requests' = {r \in requests : r.connection # c}
      /\ UNCHANGED <<connection, linkUp, explicitlyDisconnected, registered, buffered,
                     lastSubscription, messageBuffer, handedOver,
                     bufferedDeliveryTask, process, delivery, troubled>>
  BY DEF OnDisconnected, link, client, buffers
<1>2. TypeOK'
  BY <1>1 DEF CInv, TypeOK, Ended, Alive
<1>3. RequestsAreOpen'
  BY <1>1 DEF CInv, RequestsAreOpen, Failing
<1>4. ConnectIsAlone' /\ TasksAreFresh'
  BY <1>1 DEF CInv, ConnectIsAlone, Connecting, TasksAreFresh, IsIdle
<1>5. SubscribedOrOnItsWay'
  <2>1. linkUp => c # connection
    BY <1>1 DEF Ended, Alive
  <2> QED
    BY <1>1, <2>1 DEF CInv, SubscribedOrOnItsWay, Connecting, Settles
<1> QED
  BY <1>2, <1>3, <1>4, <1>5 DEF CInv

-----------------------------------------------------------------------------
(* The link.                                                               *)

\* The old subscriptions are forgotten; the link is still down.
LEMMA ConnectKeeps ==
    ASSUME CInv, NEW a \in App, Connect(a)
    PROVE  CInv'
<1> DEFINE r == [does |-> "connect", phase |-> "send", id |-> 0, connection |-> 0]
<1>1. /\ IsIdle(a) /\ explicitlyDisconnected
      /\ connection < MaxConnections
      /\ \A b \in App : process[b].does \notin {"connect", "disconnect"}
      /\ registered' = 0 /\ messageBuffer' = [s \in Subscription |-> {}]
      /\ process' = [process EXCEPT ![a] = r]
      /\ UNCHANGED <<connection, linkUp, explicitlyDisconnected, buffered,
                     lastSubscription, handedOver, bufferedDeliveryTask,
                     subscribers, gone, requests, delivery, troubled>>
  BY DEF Connect, Becomes, link, server
<1>2. a \in Process /\ r \in Thread /\ r.does = "connect" /\ r.phase = "send"
  BY BecomesFacts, Processes
<1> HIDE DEF r
<1>3. /\ process' \in [Process -> Thread] /\ process'[a] = r
      /\ \A q \in Process : q # a => process'[q] = process[q]
  BY <1>1, <1>2, OneThread DEF CInv
<1>4. TypeOK'
  BY <1>1, <1>3 DEF CInv, TypeOK, Thread, Ended, Alive
<1>5. process[a].does = "idle" /\ process[a].phase = "none" /\ a \notin Connection
  BY <1>1, IdleThread, Processes DEF IsIdle
<1>6. RequestsAreOpen'
  <2>1. ASSUME NEW q \in requests
        PROVE  /\ q.by \in Process \cup {Nobody} /\ (q.by # Nobody => q.by # a)
    BY <1>5 DEF CInv, TypeOK, Request, RequestsAreOpen
  <2>2. \A s \in Process : Failing(s) => Failing(s)'
    BY <1>3, <1>5 DEF Failing
  <2> QED
    BY <1>1, <1>3, <2>1, <2>2 DEF CInv, RequestsAreOpen
<1>7. \A q \in Process : Connecting(q)' => q = a
  <2>1. \A q \in Process : ~Connecting(q)
    BY <1>1 DEF CInv, ConnectIsAlone, Connecting
  <2> QED
    BY <1>3, <2>1 DEF Connecting
<1>8. ConnectIsAlone'
  BY <1>1, <1>7 DEF CInv, ConnectIsAlone
<1>9. TasksAreFresh'
  BY <1>1, <1>3, <1>5 DEF CInv, TasksAreFresh, IsIdle
<1>10. SubscribedOrOnItsWay'
  BY <1>1 DEF SubscribedOrOnItsWay
<1> QED
  BY <1>4, <1>6, <1>8, <1>9, <1>10 DEF CInv

\* The connection that the client had ends.
LEMMA DisconnectKeeps ==
    ASSUME CInv, NEW a \in App, Disconnect(a)
    PROVE  CInv'
<1> DEFINE r == [does |-> "disconnect", phase |-> "wait", id |-> 0, connection |-> 0]
<1>1. /\ IsIdle(a) /\ ~explicitlyDisconnected
      /\ linkUp' = FALSE /\ explicitlyDisconnected' = TRUE
      /\ process' = [process EXCEPT ![a] = r]
      /\ UNCHANGED <<connection, registered, buffered, lastSubscription,
                     messageBuffer, handedOver, bufferedDeliveryTask,
                     subscribers, gone, requests, delivery, troubled>>
  BY DEF Disconnect, Becomes, client, buffers, server
<1>2. a \in Process /\ r \in Thread /\ r.does = "disconnect" /\ r.phase = "wait"
  BY BecomesFacts, Processes
<1> HIDE DEF r
<1>3. /\ process' \in [Process -> Thread] /\ process'[a] = r
      /\ \A q \in Process : q # a => process'[q] = process[q]
  BY <1>1, <1>2, OneThread DEF CInv
<1>4. TypeOK'
  BY <1>1, <1>3 DEF CInv, TypeOK, Thread, Ended, Alive
<1>5. process[a].does = "idle" /\ process[a].phase = "none" /\ a \notin Connection
  BY <1>1, IdleThread, Processes DEF IsIdle
<1>6. RequestsAreOpen'
  <2>1. ASSUME NEW q \in requests
        PROVE  /\ q.by \in Process \cup {Nobody} /\ (q.by # Nobody => q.by # a)
    BY <1>5 DEF CInv, TypeOK, Request, RequestsAreOpen
  <2>2. \A s \in Process : Failing(s) => Failing(s)'
    BY <1>3, <1>5 DEF Failing
  <2> QED
    BY <1>1, <1>3, <2>1, <2>2 DEF CInv, RequestsAreOpen
<1>7. \A q \in Process : ~Connecting(q)'
  <2>1. \A q \in Process : ~Connecting(q)
    BY <1>1 DEF CInv, ConnectIsAlone
  <2> QED
    BY <1>2, <1>3, <2>1 DEF Connecting
<1>8. ConnectIsAlone'
  BY <1>1, <1>7 DEF ConnectIsAlone
<1>9. TasksAreFresh'
  BY <1>1, <1>3, <1>5 DEF CInv, TasksAreFresh, IsIdle
<1>10. SubscribedOrOnItsWay'
  BY <1>1, <1>7 DEF SubscribedOrOnItsWay
<1> QED
  BY <1>4, <1>6, <1>8, <1>9, <1>10 DEF CInv

LEMMA LinkDropsKeeps ==
    ASSUME CInv, LinkDrops
    PROVE  CInv'
<1>1. /\ linkUp /\ linkUp' = FALSE
      /\ UNCHANGED <<connection, explicitlyDisconnected, registered, buffered,
                     lastSubscription, messageBuffer, handedOver,
                     bufferedDeliveryTask, process, subscribers, gone, requests,
                     delivery, troubled>>
  BY DEF LinkDrops, client, buffers, server
<1>2. \A p \in Process : ~Connecting(p) /\ ~Connecting(p)'
  BY <1>1 DEF CInv, ConnectIsAlone, Connecting
<1>3. TypeOK'
  BY <1>1 DEF CInv, TypeOK, Ended, Alive
<1>4. RequestsAreOpen' /\ TasksAreFresh'
  BY <1>1 DEF CInv, RequestsAreOpen, Failing, TasksAreFresh, IsIdle
<1>5. ConnectIsAlone' /\ SubscribedOrOnItsWay'
  BY <1>1, <1>2 DEF ConnectIsAlone, SubscribedOrOnItsWay
<1> QED
  BY <1>3, <1>4, <1>5 DEF CInv

\* A new connection: what the types say of the old ones remains true.
LEMMA NewConnection ==
    ASSUME TypeOK, connection < MaxConnections, connection' = connection + 1,
           linkUp' = TRUE, explicitlyDisconnected' = FALSE,
           process' \in [Process -> Thread],
           UNCHANGED <<registered, buffered, lastSubscription, messageBuffer,
                       handedOver, bufferedDeliveryTask, subscribers, gone,
                       requests, delivery, troubled>>
    PROVE  /\ TypeOK' /\ connection \in Nat /\ connection' \in Connection
           /\ connection' > 1 /\ 1..connection \subseteq 1..connection'
<1>1. /\ connection \in Nat \ {0} /\ connection' \in Connection
      /\ 1..connection \subseteq 1..connection' /\ connection' \notin 1..connection
      /\ connection' > 1
  BY Processes DEF TypeOK, Connection
<1>2. \A c \in Connection : Ended(c) => Ended(c)'
  BY <1>1 DEF Ended, Alive
<1>3. gone' \subseteq {c \in Connection : Ended(c)'}
  BY <1>2 DEF TypeOK
<1>4. subscribers' \subseteq (1..connection') \ gone'
  BY <1>1 DEF TypeOK
<1>5. TypeOK'
  BY <1>1, <1>3, <1>4 DEF TypeOK, Thread
<1> QED
  BY <1>1, <1>5

\* What was registered since Connect began has been refused a connection or
\* still has to ask for one.
LEMMA ConnectEndsKeeps ==
    ASSUME CInv, NEW a \in Process, ConnectEnds(a)
    PROVE  CInv'
<1>1. /\ process[a].does = "connect" /\ process[a].phase = "send"
      /\ connection' = connection + 1 /\ linkUp' = TRUE
      /\ explicitlyDisconnected' = FALSE
      /\ process' = [process EXCEPT ![a] = Idle]
      /\ UNCHANGED <<registered, buffered, lastSubscription, messageBuffer,
                     handedOver, bufferedDeliveryTask, subscribers, gone,
                     requests, delivery, troubled>>
  BY DEF ConnectEnds, At, Connected, Return, client, buffers, server
<1>2. connection < MaxConnections
  BY <1>1 DEF CInv, ConnectIsAlone, Connecting
<1>3. /\ process' \in [Process -> Thread] /\ process'[a] = Idle
      /\ \A q \in Process : q # a => process'[q] = process[q]
  BY <1>1, IdleThread, OneThread DEF CInv
<1>4. /\ TypeOK' /\ connection \in Nat /\ connection' \in Connection
      /\ connection' > 1 /\ 1..connection \subseteq 1..connection'
  BY <1>2, <1>1, <1>3, NewConnection DEF CInv
<1>5. RequestsAreOpen'
  <2>1. ASSUME NEW q \in requests
        PROVE  /\ q.by \in Process \cup {Nobody} /\ (q.by # Nobody => q.by # a)
               /\ q.connection \in (1..connection') \ gone
    BY <1>1, <1>4 DEF CInv, TypeOK, Request, RequestsAreOpen
  <2>2. \A s \in Process : Failing(s) => Failing(s)'
    BY <1>1, <1>3 DEF Failing
  <2> QED
    BY <1>1, <1>3, <2>1, <2>2 DEF CInv, RequestsAreOpen
<1>6. Connecting(a) /\ \A q \in Process : ~Connecting(q)'
  <2>1. Connecting(a) /\ \A q \in Process : Connecting(q) => q = a
    BY <1>1 DEF CInv, ConnectIsAlone, Connecting
  <2> QED
    BY <1>3, <2>1, IdleThread DEF Connecting
<1>7. ConnectIsAlone'
  BY <1>1, <1>6 DEF ConnectIsAlone
<1>8. TasksAreFresh'
  <2>1. \A t \in Process : t \in Connection /\ t > connection' => t > connection
    BY <1>1, <1>4, Processes
  <2> QED
    BY <1>3, <2>1 DEF CInv, TasksAreFresh, IsIdle
<1>9. SubscribedOrOnItsWay'
  <2> SUFFICES ASSUME ~troubled, registered # 0
               PROVE  \E p \in Process : Settles(p)'
    BY <1>1 DEF SubscribedOrOnItsWay
  <2>1. ~linkUp
    BY <1>6 DEF CInv, ConnectIsAlone
  <2>2. PICK p \in Process : Settles(p)
    BY <1>6, <2>1 DEF CInv, SubscribedOrOnItsWay
  <2>3. p # a
    BY <1>1, <2>2 DEF Settles
  <2> QED
    BY <1>3, <2>2, <2>3 DEF Settles
<1> QED
  BY <1>4, <1>5, <1>7, <1>8, <1>9 DEF CInv

\* The task of the reconnect restores what is registered.
LEMMA ReconnectKeeps ==
    ASSUME CInv, Reconnect
    PROVE  CInv'
<1> DEFINE t == connection + 1
           r == [does |-> "restore", phase |-> "send", id |-> 0, connection |-> 0]
<1>1. /\ ~linkUp /\ ~explicitlyDisconnected /\ connection < MaxConnections
      /\ connection' = t /\ linkUp' = TRUE /\ explicitlyDisconnected' = FALSE
      /\ process' = [process EXCEPT ![t] = r]
      /\ UNCHANGED <<registered, buffered, lastSubscription, messageBuffer,
                     handedOver, bufferedDeliveryTask, subscribers, gone,
                     requests, delivery, troubled>>
  BY DEF Reconnect, Connected, Becomes, client, buffers, server
<1>2. t \in Connection /\ t \in Process /\ t > connection /\ connection \in Nat
  <2>1. t \in Connection /\ t > 1 /\ t > connection /\ connection \in Nat
    BY <1>1, Processes DEF CInv, TypeOK, Connection
  <2> QED
    BY <2>1, Processes
<1>3. r \in Thread /\ r.does = "restore" /\ r.phase = "send"
  BY BecomesFacts, Processes
<1>4. process[t].does = "idle" /\ process[t].phase = "none"
  BY <1>2, IdleThread DEF CInv, TasksAreFresh, IsIdle
<1>5. connection' = connection + 1
  BY <1>1
<1> HIDE DEF t, r
<1>6. /\ process' \in [Process -> Thread] /\ process'[t] = r
      /\ \A q \in Process : q # t => process'[q] = process[q]
  BY <1>1, <1>2, <1>3, OneThread DEF CInv
<1>7. TypeOK' /\ 1..connection \subseteq 1..connection'
  BY <1>1, <1>5, <1>6, NewConnection DEF CInv
<1>8. RequestsAreOpen'
  <2>1. ASSUME NEW q \in requests
        PROVE  /\ q.by \in Process \cup {Nobody} /\ (q.by # Nobody => q.by # t)
               /\ q.connection \in (1..connection') \ gone
    BY <1>4, <1>7 DEF CInv, TypeOK, Request, RequestsAreOpen
  <2>2. \A s \in Process : Failing(s) => Failing(s)'
    BY <1>4, <1>6 DEF Failing
  <2> QED
    BY <1>1, <1>6, <2>1, <2>2 DEF CInv, RequestsAreOpen
<1>9. ConnectIsAlone'
  <2>1. \A q \in Process : ~Connecting(q)
    BY <1>1 DEF CInv, ConnectIsAlone
  <2>2. \A q \in Process : ~Connecting(q)'
    BY <1>3, <1>6, <2>1 DEF Connecting
  <2> QED
    BY <1>1, <2>2 DEF ConnectIsAlone
<1>10. TasksAreFresh'
  <2>1. \A s \in Process : s \in Connection /\ s > connection' =>
            s > connection /\ s # t
    BY <1>1, <1>2, <1>5, Processes
  <2> QED
    BY <1>6, <2>1 DEF CInv, TasksAreFresh, IsIdle
<1>11. SubscribedOrOnItsWay'
  <2>1. ASSUME NEW p \in Process, p = t PROVE Settles(p)'
    BY <1>3, <1>6, <2>1 DEF Settles
  <2> QED
    BY <1>2, <2>1 DEF SubscribedOrOnItsWay
<1> QED
  BY <1>7, <1>8, <1>9, <1>10, <1>11 DEF CInv

-----------------------------------------------------------------------------
(* Messages and the flush task.                                            *)

LEMMA FlushFacts ==
    ASSUME TypeOK, NEW id \in Subscription, NEW all, Flush(id, all)
    PROVE  /\ messageBuffer' \in [Subscription -> SUBSET Message]
           /\ handedOver' \subseteq Message
<1>1. PICK rest \in SUBSET messageBuffer[id] :
          /\ handedOver' = handedOver \cup (messageBuffer[id] \ rest)
          /\ messageBuffer' = [messageBuffer EXCEPT ![id] = rest]
  BY DEF Flush
<1> QED
  BY <1>1 DEF TypeOK

LEMMA TaskKeeps ==
    ASSUME CInv, Task
    PROVE  CInv'
<1>1. UNCHANGED <<connection, linkUp, explicitlyDisconnected, registered, buffered,
                  lastSubscription, process, subscribers, gone, requests, delivery,
                  troubled>>
  BY DEF Task, TaskFlushes, TaskEnds, link, client, server
<1>2. registered # 0 => registered \in Subscription
  BY ClientAssumption DEF CInv, TypeOK, Subscription
<1>3. bufferedDeliveryTask' \in BOOLEAN
  BY DEF Task, TaskFlushes, TaskEnds, CInv, TypeOK
<1>4. /\ messageBuffer' \in [Subscription -> SUBSET Message]
      /\ handedOver' \subseteq Message
  <2>1. CASE registered # 0
    <3>1. \E all : Flush(registered, all)
      BY <2>1 DEF Task, TaskFlushes, TaskEnds
    <3> QED
      BY <1>2, <2>1, <3>1, FlushFacts DEF CInv
  <2>2. CASE registered = 0
    <3>1. UNCHANGED buffers
      BY <2>2 DEF Task, TaskFlushes, TaskEnds
    <3> QED
      BY <3>1 DEF buffers, CInv, TypeOK
  <2> QED
    BY <2>1, <2>2
<1>5. TypeOK'
  BY <1>1, <1>3, <1>4 DEF CInv, TypeOK, Ended, Alive
<1> QED
  BY <1>1, <1>5, DataStepKeeps

Delivery ==
    [step: {"queued", "sent", "held", "consumed", "declined"},
     connection: 0..MaxConnections, id: 0..MaxSubscriptions]

LEMMA ArrivesKeeps ==
    ASSUME CInv, NEW m \in Message, Arrives(m)
    PROVE  CInv'
<1>1. UNCHANGED <<connection, linkUp, explicitlyDisconnected, registered, buffered,
                  lastSubscription, bufferedDeliveryTask, process, subscribers,
                  gone, requests, troubled>>
  BY DEF Arrives, Deliver, Receive, Handle, link, client, server
<1>2. /\ delivery \in [Message -> Delivery] /\ delivery[m] \in Delivery
      /\ connection \in 0..MaxConnections /\ registered \in 0..MaxSubscriptions
  <2>1. connection \in 0..MaxConnections /\ delivery \in [Message -> Delivery]
    BY Processes DEF CInv, TypeOK, Delivery
  <2>2. registered \in 0..MaxSubscriptions
    BY Processes DEF CInv, TypeOK
  <2> QED
    BY <2>1, <2>2
<1>3. Queued \in Delivery
  BY Processes DEF Queued, Delivery
<1>4. ASSUME NEW step \in {"queued", "sent", "held", "consumed", "declined"},
             NEW c \in 0..MaxConnections, NEW id \in 0..MaxSubscriptions,
             Moves(m, step, c, id)
      PROVE  delivery' \in [Message -> Delivery]
  <2>1. [step |-> step, connection |-> c, id |-> id] \in Delivery
    BY DEF Delivery
  <2> QED
    BY <1>2, <1>4, <2>1 DEF Moves
<1>5. ASSUME delivery' = [delivery EXCEPT ![m] = Queued]
      PROVE  delivery' \in [Message -> Delivery]
  BY <1>2, <1>3, <1>5
<1>6. delivery[m].connection \in 0..MaxConnections
  BY <1>2 DEF Delivery
<1>7. delivery' \in [Message -> Delivery]
  <2>1. CASE Deliver(m)
    BY <1>2, <1>4, <2>1, Processes DEF Deliver
  <2>2. CASE Receive(m)
    <3>1. \/ delivery' = [delivery EXCEPT ![m] = Queued]
          \/ Moves(m, "declined", 0, 0)
          \/ Moves(m, "held", delivery[m].connection, registered)
      BY <2>2 DEF Receive
    <3> QED
      BY <1>2, <1>4, <1>5, <1>6, <3>1, Processes
  <2>3. CASE Handle(m)
    <3>1. \/ delivery' = [delivery EXCEPT ![m] = Queued]
          \/ Moves(m, "consumed", 0, 0)
      BY <2>3 DEF Handle
    <3> QED
      BY <1>4, <1>5, <3>1, Processes
  <2> QED
    BY <2>1, <2>2, <2>3 DEF Arrives
<1>8. /\ messageBuffer' \in [Subscription -> SUBSET Message]
      /\ handedOver' \subseteq Message
  <2>1. CASE Deliver(m) \/ Receive(m)
    BY <2>1 DEF Deliver, Receive, buffers, CInv, TypeOK
  <2>2. CASE Handle(m)
    <3>1. \/ /\ messageBuffer' = [messageBuffer EXCEPT ![delivery[m].id] = @ \cup {m}]
             /\ UNCHANGED handedOver
          \/ handedOver' = handedOver \cup {m} /\ UNCHANGED messageBuffer
      BY <2>2 DEF Handle
    <3> QED
      BY <3>1 DEF CInv, TypeOK
  <2> QED
    BY <2>1, <2>2 DEF Arrives
<1>9. TypeOK'
  BY <1>1, <1>7, <1>8 DEF CInv, TypeOK, Ended, Alive, Delivery
<1> QED
  BY <1>1, <1>9, DataStepKeeps

-----------------------------------------------------------------------------
(* The theorems.                                                           *)

LEMMA InitHolds == Init => CInv
<1> SUFFICES ASSUME Init PROVE CInv
  OBVIOUS
<1>1. /\ connection = 1 /\ linkUp = TRUE /\ explicitlyDisconnected = FALSE
      /\ registered = 0 /\ lastSubscription = 0
      /\ buffered = [s \in Subscription |-> FALSE]
      /\ messageBuffer = [s \in Subscription |-> {}]
      /\ bufferedDeliveryTask = FALSE /\ process = [p \in Process |-> Idle]
      /\ subscribers = {} /\ gone = {} /\ requests = {}
      /\ delivery = [m \in Message |-> Queued]
      /\ handedOver = {} /\ troubled = FALSE
  BY DEF Init
<1>2. 1 \in Connection /\ 0 \in 0..MaxSubscriptions /\ 0 \in 0..MaxConnections
  BY Processes, ClientAssumption DEF Connection
<1>3. TypeOK
  <2>1. process \in [Process -> Thread]
    BY <1>1, IdleThread
  <2>2. delivery \in [Message -> Delivery]
    BY <1>1, <1>2 DEF Queued, Delivery
  <2>3. /\ buffered \in [Subscription -> BOOLEAN]
        /\ messageBuffer \in [Subscription -> SUBSET Message]
        /\ registered \in 0..lastSubscription
    BY <1>1
  <2> QED
    BY <1>1, <1>2, <2>1, <2>2, <2>3 DEF TypeOK, Thread, Delivery
<1>4. \A p \in Process : IsIdle(p) /\ ~Connecting(p)
  BY <1>1, IdleThread DEF IsIdle, Connecting
<1>5. RequestsAreOpen /\ ConnectIsAlone /\ TasksAreFresh /\ SubscribedOrOnItsWay
  BY <1>1, <1>4 DEF RequestsAreOpen, ConnectIsAlone, TasksAreFresh, SubscribedOrOnItsWay
<1> QED
  BY <1>3, <1>5 DEF CInv

LEMMA StepKeeps == CInv /\ [Next]_vars => CInv'
<1> SUFFICES ASSUME CInv, [Next]_vars PROVE CInv'
  OBVIOUS
<1>1. CASE UNCHANGED vars
  <2>1. UNCHANGED <<connection, linkUp, explicitlyDisconnected, registered, buffered,
                    lastSubscription, messageBuffer, handedOver,
                    bufferedDeliveryTask, process, subscribers, gone, requests,
                    delivery, troubled>>
    BY <1>1 DEF vars, link, client, buffers, server
  <2>2. TypeOK'
    BY <2>1 DEF CInv, TypeOK, Ended, Alive
  <2> QED
    BY <2>1, <2>2, DataStepKeeps
<1>2. ASSUME NEW a \in App,
             Subscribe(a) \/ Unsubscribe(a) \/ Connect(a) \/ Disconnect(a)
      PROVE  CInv'
  BY <1>2, SubscribeKeeps, UnsubscribeKeeps, ConnectKeeps, DisconnectKeeps
<1>3. ASSUME NEW p \in Process, Returns(p) \/ QueryTimesOut(p)
      PROVE  CInv'
  <2>1. CASE \/ SubscribeEnds(p) \/ UnsubscribeEnds(p) \/ DisconnectEnds(p)
             \/ RestoreEnds(p)
    BY <2>1, EndsKeep
  <2>2. CASE ConnectEnds(p)
    BY <2>2, ConnectEndsKeeps
  <2>3. CASE Restore(p)
    BY <2>3, RestoreKeeps
  <2>4. CASE Send(p)
    BY <2>4, SendKeeps
  <2>5. CASE ConnectionTerminated(p) \/ QueryTimesOut(p)
    BY <2>5, GivesUpKeeps DEF ConnectionTerminated, QueryTimesOut
  <2> QED
    BY <1>3, <2>1, <2>2, <2>3, <2>4, <2>5 DEF Returns
<1>4. ASSUME NEW r \in requests, HandleRequest(r) PROVE CInv'
  BY <1>4, HandleRequestKeeps
<1>5. ASSUME NEW c \in Connection, OnDisconnected(c) PROVE CInv'
  BY <1>5, OnDisconnectedKeeps
<1>6. ASSUME NEW m \in Message, Arrives(m) PROVE CInv'
  BY <1>6, ArrivesKeeps
<1>7. CASE LinkDrops
  BY <1>7, LinkDropsKeeps
<1>8. CASE Reconnect
  BY <1>8, ReconnectKeeps
<1>9. CASE Task
  BY <1>9, TaskKeeps
<1> QED
  BY <1>1, <1>2, <1>3, <1>4, <1>5, <1>6, <1>7, <1>8, <1>9 DEF Next

\* The inductive invariant: what a query that is under way, a thread that
\* connects and a task that restores leave true of client and server.
THEOREM ClientInvariance == Spec => []CInv
  BY InitHolds, StepKeeps, PTL DEF Spec

\* Every variable keeps its type; the server ends only connections that have
\* ended and has no subscriber of those.
THEOREM TypeCorrect == Spec => []TypeOK
<1>1. CInv => TypeOK
  BY DEF CInv
<1> QED
  BY <1>1, ClientInvariance, PTL

\* At rest, a connected client that was told of no exception is a subscriber of
\* the queue it has a subscription to, whatever threads and reconnects did.
THEOREM NothingLostSilently == Spec => []NoSilentLoss
<1>1. CInv => NoSilentLoss
  <2> SUFFICES ASSUME CInv, Quiet, ~troubled, linkUp, registered # 0
               PROVE  connection \in subscribers
    BY DEF NoSilentLoss
  <2>1. \A p \in Process : ~Settles(p)
    BY IdleThread DEF Quiet, IsIdle, Settles
  <2> QED
    BY <2>1 DEF CInv, SubscribedOrOnItsWay
<1> QED
  BY <1>1, ClientInvariance, PTL
-----------------------------------------------------------------------------
(* When no message is declined.                                            *)

\* The application takes no subscription away, by Unsubscribe or by Connect.
KeepsSubscription == \A a \in App : ~Unsubscribe(a) /\ ~Connect(a)

\* The client has registered a subscription, or has reported an exception.
Started == registered # 0 \/ troubled

\* Nothing has asked the server for messages.
NothingYet ==
    /\ subscribers = {}
    /\ \A r \in requests : r.kind # "subscribe"
    /\ \A p \in Process : process[p].does # "subscribe"
    /\ \A m \in Message : delivery[m].step # "sent"

KeptInv ==
    /\ \A p \in Process : process[p].does \notin {"unsubscribe", "connect"}
    /\ Started \/ NothingYet
    /\ NoMessageDeclined

\* A thread goes on and sends nothing.
LEMMA ThreadStepKeepsIt ==
    ASSUME CInv, KeptInv, NEW p \in Process, NEW r \in Thread,
           process' = [process EXCEPT ![p] = r],
           r.does \notin {"unsubscribe", "connect"},
           r.does = "subscribe" => Started',
           Started => Started', troubled => troubled',
           UNCHANGED <<subscribers, requests, delivery>>
    PROVE  KeptInv'
<1>1. /\ process'[p] = r
      /\ \A q \in Process : q # p => process'[q] = process[q]
  BY OneThread DEF CInv
<1>2. \A q \in Process : process'[q].does \notin {"unsubscribe", "connect"}
  BY <1>1 DEF KeptInv
<1>3. NothingYet => Started' \/ NothingYet'
  BY <1>1 DEF NothingYet
<1>4. NoMessageDeclined'
  BY DEF KeptInv, NoMessageDeclined
<1> QED
  BY <1>2, <1>3, <1>4 DEF KeptInv

\* No thread goes on.
LEMMA OtherStepKeepsIt ==
    ASSUME KeptInv,
           \A q \in Process : process'[q].does = process[q].does,
           UNCHANGED <<registered, troubled>>,
           NothingYet => NothingYet', NoMessageDeclined'
    PROVE  KeptInv'
  BY DEF KeptInv, Started

LEMMA CallKeepsIt ==
    ASSUME CInv, KeptInv, NEW a \in App, KeepsSubscription,
           Subscribe(a) \/ Unsubscribe(a) \/ Connect(a) \/ Disconnect(a)
    PROVE  KeptInv'
<1>1. a \in Process
  BY Processes
<1>2. CASE Subscribe(a)
  <2> DEFINE id == lastSubscription + 1
             r == [does |-> "subscribe", phase |-> "send", id |-> id, connection |-> 0]
  <2>1. /\ process' = [process EXCEPT ![a] = r]
        /\ registered' = id /\ lastSubscription < MaxSubscriptions
        /\ UNCHANGED <<subscribers, requests, delivery, troubled>>
    BY <1>2 DEF Subscribe, Becomes, server
  <2>2. id \in 0..MaxSubscriptions /\ id # 0
    BY <2>1, Processes DEF CInv, TypeOK
  <2> HIDE DEF id
  <2>3. r \in Thread /\ r.does = "subscribe"
    BY <2>2, BecomesFacts DEF Kind
  <2> HIDE DEF r
  <2>4. Started'
    BY <2>1, <2>2 DEF Started
  <2> QED
    BY <1>1, <2>1, <2>3, <2>4, ThreadStepKeepsIt
<1>3. CASE Disconnect(a)
  <2> DEFINE r == [does |-> "disconnect", phase |-> "wait", id |-> 0, connection |-> 0]
  <2>1. /\ process' = [process EXCEPT ![a] = r]
        /\ UNCHANGED <<registered, subscribers, requests, delivery, troubled>>
    BY <1>3 DEF Disconnect, Becomes, client, server
  <2>2. r \in Thread /\ r.does = "disconnect"
    BY BecomesFacts, Processes
  <2> HIDE DEF r
  <2> QED
    BY <1>1, <2>1, <2>2, ThreadStepKeepsIt DEF Started
<1> QED
  BY <1>2, <1>3 DEF KeepsSubscription

LEMMA ReturnKeepsIt ==
    ASSUME CInv, KeptInv, NEW p \in Process, Returns(p) \/ QueryTimesOut(p)
    PROVE  KeptInv'
<1>1. process[p].does \notin {"unsubscribe", "connect"}
  BY DEF KeptInv
<1>2. CASE Return(p) /\ UNCHANGED <<registered, troubled, subscribers, requests, delivery>>
  BY <1>2, IdleThread, ThreadStepKeepsIt DEF Return, Started
<1>3. CASE SubscribeEnds(p) \/ DisconnectEnds(p) \/ RestoreEnds(p)
  <2>1. /\ process' = [process EXCEPT ![p] = Idle]
        /\ UNCHANGED <<subscribers, requests, delivery>>
        /\ troubled' = TRUE \/ UNCHANGED <<registered, troubled>>
    BY <1>3 DEF SubscribeEnds, DisconnectEnds, RestoreEnds, Return, client, server
  <2>2. (Started => Started') /\ (troubled => troubled')
    BY <2>1 DEF Started
  <2> QED
    BY <2>1, <2>2, IdleThread, ThreadStepKeepsIt
<1>4. CASE UnsubscribeEnds(p) \/ ConnectEnds(p)
  BY <1>1, <1>4 DEF UnsubscribeEnds, ConnectEnds, At
<1>5. CASE Restore(p)
  <2>1. CASE registered = 0
    BY <1>2, <1>5, <2>1 DEF Restore, client, server
  <2>2. CASE registered # 0
    <3> DEFINE r == [does |-> "subscribe", phase |-> "send", id |-> 0, connection |-> 0]
    <3>1. /\ process' = [process EXCEPT ![p] = r]
          /\ UNCHANGED <<registered, troubled, subscribers, requests, delivery>>
      BY <1>5, <2>2 DEF Restore, Becomes, client, server
    <3>2. r \in Thread /\ r.does = "subscribe"
      BY BecomesFacts, Processes DEF Kind
    <3> HIDE DEF r
    <3> QED
      BY <2>2, <3>1, <3>2, ThreadStepKeepsIt DEF Started
  <2> QED
    BY <2>1, <2>2
<1>6. CASE Send(p)
  <2>1. /\ \A q \in Process : process'[q].does = process[q].does
        /\ UNCHANGED <<registered, troubled, subscribers, delivery>>
    BY <1>6 DEF Send, client, server, CInv, TypeOK
  <2>2. \A r \in requests' : r \in requests \/ r.kind = process[p].does
    BY <1>6 DEF Send
  <2>3. NothingYet => NothingYet'
    BY <2>1, <2>2 DEF NothingYet
  <2>4. NoMessageDeclined'
    BY <2>1 DEF KeptInv, NoMessageDeclined
  <2> QED
    BY <2>1, <2>3, <2>4, OtherStepKeepsIt
<1>7. CASE ConnectionTerminated(p) \/ QueryTimesOut(p)
  <2>1. GivesUp(p)
    BY <1>7 DEF ConnectionTerminated, QueryTimesOut
  <2>2. /\ \A q \in Process : process'[q].does = process[q].does
        /\ UNCHANGED <<registered, troubled, subscribers, delivery>>
    BY <2>1 DEF GivesUp, client, server, CInv, TypeOK
  <2>3. \A r \in requests' : \E q \in requests : r.kind = q.kind
    <3>1. \A q \in requests : q \in Request
      BY DEF CInv, TypeOK
    <3>2. \A q \in requests : [q EXCEPT !.by = Nobody].kind = q.kind
      BY <3>1 DEF Request
    <3>3. \A r \in requests' : \E q \in requests :
              r = q \/ r = [q EXCEPT !.by = Nobody]
      BY <2>1 DEF GivesUp
    <3> QED
      BY <3>2, <3>3
  <2>4. NothingYet => NothingYet'
    BY <2>2, <2>3 DEF NothingYet
  <2>5. NoMessageDeclined'
    BY <2>2 DEF KeptInv, NoMessageDeclined
  <2> QED
    BY <2>2, <2>4, <2>5, OtherStepKeepsIt
<1> QED
  BY <1>3, <1>4, <1>5, <1>6, <1>7 DEF Returns

\* What the server does on its own, the network, and the flush of the buffers.
LEMMA ServerStepKeepsIt ==
    ASSUME CInv, KeptInv,
           \/ \E r \in requests : HandleRequest(r)
           \/ \E c \in Connection : OnDisconnected(c)
           \/ LinkDrops \/ Task
    PROVE  KeptInv'
<1>1. /\ UNCHANGED <<registered, troubled, delivery>>
      /\ \A q \in Process : process'[q].does = process[q].does
  <2>1. ASSUME NEW r \in requests, HandleRequest(r)
        PROVE  \A q \in Process : process'[q].does = process[q].does
    <3>1. \/ process' = process
          \/ \E phase \in {"ok", "failed"} :
                process' = [process EXCEPT ![r.by].phase = phase]
      BY <2>1 DEF HandleRequest, AnsweredWith
    <3> QED
      BY <3>1 DEF CInv, TypeOK
  <2> QED
    BY <2>1 DEF HandleRequest, OnDisconnected, LinkDrops, Task, TaskFlushes,
                TaskEnds, client
<1>2. /\ requests' \subseteq requests
      /\ subscribers' \subseteq subscribers \/ \E r \in requests : r.kind = "subscribe"
  BY DEF HandleRequest, Handled, OnDisconnected, LinkDrops, Task, TaskFlushes,
         TaskEnds, server
<1>3. NothingYet => NothingYet'
  BY <1>1, <1>2 DEF NothingYet
<1>4. NoMessageDeclined'
  BY <1>1 DEF KeptInv, NoMessageDeclined
<1> QED
  BY <1>1, <1>3, <1>4, OtherStepKeepsIt

LEMMA ReconnectKeepsIt ==
    ASSUME CInv, KeptInv, Reconnect
    PROVE  KeptInv'
<1> DEFINE r == [does |-> "restore", phase |-> "send", id |-> 0, connection |-> 0]
           t == connection + 1
<1>1. /\ process' = [process EXCEPT ![t] = r] /\ connection < MaxConnections
      /\ UNCHANGED <<registered, subscribers, requests, delivery, troubled>>
  BY DEF Reconnect, Connected, Becomes, client, server
<1>2. t \in Process
  BY <1>1, Processes DEF CInv, TypeOK, Process, Connection
<1>3. r \in Thread /\ r.does = "restore"
  BY BecomesFacts, Processes
<1> HIDE DEF r, t
<1> QED
  BY <1>1, <1>2, <1>3, ThreadStepKeepsIt DEF Started

\* A message that was sent finds the handler of a subscription.
LEMMA ArrivesKeepsIt ==
    ASSUME CInv, KeptInv, NEW m \in Message, Arrives(m)
    PROVE  KeptInv'
<1>1. UNCHANGED <<registered, troubled, process, subscribers, requests>>
  BY DEF Arrives, Deliver, Receive, Handle, client, server
<1>2. \A n \in Message : n # m => delivery'[n] = delivery[n]
  BY DEF Arrives, Deliver, Receive, Handle, Moves, CInv, TypeOK
<1>3. delivery'[m].step = "sent" => subscribers # {}
  BY DEF Arrives, Deliver, Receive, Handle, Moves, Queued, CInv, TypeOK
<1>4. delivery'[m].step = "declined" =>
          registered = 0 /\ delivery[m].step = "sent"
  BY DEF Arrives, Deliver, Receive, Handle, Moves, Queued, CInv, TypeOK
<1>5. NothingYet => NothingYet'
  BY <1>1, <1>2, <1>3 DEF NothingYet
<1>6. NoMessageDeclined'
  BY <1>1, <1>2, <1>4 DEF KeptInv, Started, NothingYet, NoMessageDeclined
<1> QED
  BY <1>1, <1>5, <1>6, OtherStepKeepsIt

LEMMA KeptStep == CInv /\ KeptInv /\ [Next]_vars /\ [KeepsSubscription]_vars => KeptInv'
<1> SUFFICES ASSUME CInv, KeptInv, [Next]_vars, [KeepsSubscription]_vars
             PROVE  KeptInv'
  OBVIOUS
<1>1. CASE UNCHANGED vars
  BY <1>1 DEF vars, client, server, KeptInv, Started, NothingYet, NoMessageDeclined
<1>2. CASE Next /\ KeepsSubscription
  <2>1. ASSUME NEW a \in App,
               Subscribe(a) \/ Unsubscribe(a) \/ Connect(a) \/ Disconnect(a)
        PROVE  KeptInv'
    BY <1>2, <2>1, CallKeepsIt
  <2>2. ASSUME NEW p \in Process, Returns(p) \/ QueryTimesOut(p) PROVE KeptInv'
    BY <2>2, ReturnKeepsIt
  <2>3. ASSUME NEW m \in Message, Arrives(m) PROVE KeptInv'
    BY <2>3, ArrivesKeepsIt
  <2> QED
    BY <1>2, <2>1, <2>2, <2>3, ServerStepKeepsIt, ReconnectKeepsIt DEF Next
<1> QED
  BY <1>1, <1>2

\* While the application calls neither Unsubscribe nor Connect, a client that
\* has reported no exception declines no message, whatever drops and reconnects:
\* both calls remove the handler before the server stops sending to it.
THEOREM DeclinedOnlyWhenRemoved ==
    Spec /\ [][KeepsSubscription]_vars => []NoMessageDeclined
<1>1. Init => KeptInv
  BY IdleThread DEF Init, KeptInv, NothingYet, NoMessageDeclined, Queued
<1>2. KeptInv => NoMessageDeclined
  BY DEF KeptInv
<1> QED
  BY <1>1, <1>2, KeptStep, ClientInvariance, PTL DEF Spec

-----------------------------------------------------------------------------
(* When nothing that was consumed is stranded.                             *)

\* What is registered stays registered: Unsubscribe does not end well, no
\* Subscribe that has registered fails, and Connect comes before them.
StaysRegistered == registered # 0 => registered' = registered

\* A message that the server counts as consumed is with the application, or in
\* the buffer that the task flushes.
ConsumedIsKept ==
    \A m \in Message : delivery[m].step = "consumed" =>
        m \in handedOver \/ InBuffer(m)

\* The handler that was looked up is the one of the registered subscription.
HeldForRegistered ==
    \A m \in Message : delivery[m].step = "held" =>
        registered # 0 /\ delivery[m].id = registered

HandInv == ConsumedIsKept /\ HeldForRegistered

\* Only a message that arrives changes what HandInv says of messages.
LEMMA RegistrationKeepsHandInv ==
    ASSUME HandInv, StaysRegistered, UNCHANGED <<handedOver, delivery>>,
           registered # 0 => messageBuffer' = messageBuffer
    PROVE  HandInv'
  BY DEF HandInv, ConsumedIsKept, HeldForRegistered, StaysRegistered, InBuffer

LEMMA RegisteredHasBuffer ==
    ASSUME CInv, registered # 0
    PROVE  registered \in DOMAIN messageBuffer
<1>1. registered \in 1..lastSubscription /\ lastSubscription <= MaxSubscriptions
  BY ClientAssumption DEF ClientAssumption, CInv, TypeOK
<1> QED
  BY <1>1, ClientAssumption DEF ClientAssumption, CInv, TypeOK, Subscription

LEMMA FlushKeepsHandInv ==
    ASSUME CInv, HandInv, Task
    PROVE  HandInv'
<1>1. UNCHANGED <<registered, delivery>>
  BY DEF Task, TaskFlushes, TaskEnds, client
<1>2. CASE UNCHANGED buffers
  BY <1>1, <1>2, RegistrationKeepsHandInv DEF buffers, StaysRegistered
<1>3. CASE registered # 0 /\ \E all \in BOOLEAN : Flush(registered, all)
  <2>1. PICK rest \in SUBSET messageBuffer[registered] :
            /\ handedOver' = handedOver \cup (messageBuffer[registered] \ rest)
            /\ messageBuffer' = [messageBuffer EXCEPT ![registered] = rest]
    BY <1>3 DEF Flush
  <2>2. messageBuffer'[registered] = rest
    BY <1>3, <2>1, RegisteredHasBuffer
  <2>3. ConsumedIsKept'
    BY <1>1, <1>3, <2>1, <2>2 DEF HandInv, ConsumedIsKept, InBuffer
  <2> QED
    BY <1>1, <2>3 DEF HandInv, HeldForRegistered
<1> QED
  BY <1>2, <1>3, ClientAssumption DEF ClientAssumption, Task, TaskFlushes, TaskEnds

LEMMA ArrivesKeepsHandInv ==
    ASSUME CInv, HandInv, NEW m \in Message, Arrives(m)
    PROVE  HandInv'
<1>1. /\ registered' = registered
      /\ \A n \in Message : n # m => delivery'[n] = delivery[n]
  BY DEF Arrives, Deliver, Receive, Handle, Moves, client, CInv, TypeOK
<1>2. CASE Deliver(m) \/ Receive(m)
  <2>1. UNCHANGED <<handedOver, messageBuffer>>
    BY <1>2 DEF Deliver, Receive, buffers
  <2>2. delivery'[m].step # "consumed"
    BY <1>2 DEF Deliver, Receive, Moves, Queued, CInv, TypeOK
  <2>3. delivery'[m].step = "held" => registered # 0 /\ delivery'[m].id = registered
    BY <1>2 DEF Deliver, Receive, Moves, Queued, CInv, TypeOK
  <2> QED
    BY <1>1, <2>1, <2>2, <2>3 DEF HandInv, ConsumedIsKept, HeldForRegistered,
                                  InBuffer
<1>3. CASE Handle(m)
  <2>1. registered # 0 /\ delivery[m].id = registered
    BY <1>3 DEF Handle, HandInv, HeldForRegistered
  <2>2. delivery'[m].step # "held"
    BY <1>3 DEF Handle, Moves, Queued, CInv, TypeOK
  <2>3. /\ handedOver \subseteq handedOver'
        /\ messageBuffer[registered] \subseteq messageBuffer'[registered]
        /\ m \in handedOver' \/ m \in messageBuffer'[registered]
    BY <1>3, <2>1, RegisteredHasBuffer DEF Handle
  <2> QED
    BY <1>1, <2>1, <2>2, <2>3 DEF HandInv, ConsumedIsKept, HeldForRegistered,
                                  InBuffer
<1> QED
  BY <1>2, <1>3 DEF Arrives

LEMMA HandStep ==
    CInv /\ HandInv /\ [Next]_vars /\ [StaysRegistered]_vars => HandInv'
<1> SUFFICES ASSUME CInv, HandInv, [Next]_vars, [StaysRegistered]_vars
             PROVE  HandInv'
  OBVIOUS
<1>1. CASE UNCHANGED vars
  BY <1>1, RegistrationKeepsHandInv DEF vars, client, buffers, StaysRegistered
<1>2. CASE Next /\ StaysRegistered
  <2>1. ASSUME NEW a \in App,
               Subscribe(a) \/ Unsubscribe(a) \/ Connect(a) \/ Disconnect(a)
        PROVE  HandInv'
    <3>1. UNCHANGED <<handedOver, delivery>>
      BY <2>1 DEF Subscribe, Unsubscribe, Connect, Disconnect, buffers
    <3>2. registered # 0 => messageBuffer' = messageBuffer
      BY <1>2, <2>1 DEF Subscribe, Unsubscribe, Connect, Disconnect, buffers,
                        StaysRegistered
    <3> QED
      BY <1>2, <3>1, <3>2, RegistrationKeepsHandInv
  <2>2. ASSUME \/ \E p \in Process : Returns(p) \/ QueryTimesOut(p)
               \/ \E r \in requests : HandleRequest(r)
               \/ \E c \in Connection : OnDisconnected(c)
               \/ LinkDrops \/ Reconnect
        PROVE  HandInv'
    <3>1. UNCHANGED <<buffers, delivery>>
      BY <2>2 DEF Returns, QueryTimesOut, SubscribeEnds, UnsubscribeEnds,
                  ConnectEnds, DisconnectEnds, Restore, RestoreEnds, Send,
                  ConnectionTerminated, GivesUp, HandleRequest,
                  OnDisconnected, LinkDrops, Reconnect
    <3> QED
      BY <1>2, <3>1, RegistrationKeepsHandInv DEF buffers
  <2> QED
    BY <1>2, <2>1, <2>2, ArrivesKeepsHandInv, FlushKeepsHandInv DEF Next
<1> QED
  BY <1>1, <1>2

\* While a subscription that was registered stays so, a message the server
\* counts as consumed is with the application or in the buffer of that
\* subscription, through drops, reconnects and half-done calls.
THEOREM StrandedOnlyWhenRemoved ==
    Spec /\ [][StaysRegistered]_vars => []ConsumedIsKept
<1>1. Init => HandInv
  BY DEF Init, HandInv, ConsumedIsKept, HeldForRegistered, Queued
<1>2. HandInv => ConsumedIsKept
  BY DEF HandInv
<1> QED
  BY <1>1, <1>2, HandStep, ClientInvariance, PTL DEF Spec

\* What the server counts as consumed it never sends again.
LEMMA ConsumedIsFinal ==
    ASSUME CInv, [Next]_vars, NEW m \in Message, delivery[m].step = "consumed"
    PROVE  delivery'[m].step = "consumed"
<1>1. CASE \E n \in Message : Arrives(n)
  BY <1>1 DEF Arrives, Deliver, Receive, Handle, Moves, CInv, TypeOK
<1>2. CASE UNCHANGED delivery
  BY <1>2
<1> QED
  BY <1>1, <1>2 DEF Next, vars, Subscribe, Unsubscribe, Connect, Disconnect,
         Returns, QueryTimesOut, SubscribeEnds, UnsubscribeEnds, ConnectEnds,
         DisconnectEnds, Restore, RestoreEnds, Send, ConnectionTerminated,
         GivesUp, HandleRequest, OnDisconnected, LinkDrops, Reconnect, Task,
         TaskFlushes, TaskEnds

\* So the promise of buffered subscriptions comes down to the flush task: if
\* what is in the buffer of the registered subscription is handed over, then,
\* while that stays registered, so is all that was consumed.
THEOREM ConsumedReachesApplication ==
    Spec /\ [][StaysRegistered]_vars /\ BufferedIsHandedOver
        => ConsumedIsHandedOver
<1>1. ASSUME NEW m \in Message
      PROVE  /\ Spec /\ [][StaysRegistered]_vars
             /\ (delivery[m].step = "consumed" /\ InBuffer(m)
                    ~> m \in handedOver \/ ~InBuffer(m))
             => (delivery[m].step = "consumed" ~> m \in handedOver)
  <2>1. ConsumedIsKept =>
            (delivery[m].step = "consumed" => m \in handedOver \/ InBuffer(m))
    BY <1>1 DEF ConsumedIsKept
  <2>2. CInv /\ [Next]_vars /\ delivery[m].step = "consumed"
            => (delivery[m].step = "consumed")'
    BY <1>1, ConsumedIsFinal
  <2> QED
    BY <2>1, <2>2, StrandedOnlyWhenRemoved, ClientInvariance, PTL DEF Spec
<1> QED
  BY <1>1 DEF BufferedIsHandedOver, ConsumedIsHandedOver
=============================================================================
