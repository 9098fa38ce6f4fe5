--------------------- MODULE PersistentStoreRefinement ---------------------
(***************************************************************************)
(* Proof that PersistentStore implements module DurableQueue, and that the *)
(* keys follow the order of the calls, for every number of producers,      *)
(* messages and crashes and for every size of the buffer.                  *)
(*                                                                         *)
(* Under the mapping of PersistentStore!Durable, taking the lock is Begin, *)
(* writing the record is Place, counting it is Return, an exception is     *)
(* Fail, a disposal or one key of a purge is Remove and the end of the     *)
(* process is Crash.  Taking a number, hydration, closing and opening the  *)
(* database are stutters: where a message is placed is decided when its    *)
(* record is written, by a number taken earlier.                           *)
(*                                                                         *)
(* The last section proves what follows from the contract alone.           *)
(***************************************************************************)
EXTENDS PersistentStoreProofs

\* The producer is inside Enqueue.
Calls(p) == producer[p].phase # "idle"

\* Every message there is was sent.
IdsAreIssued ==
    /\ \A p \in Producer : Calls(p) => producer[p].id \in 1..sent
    /\ Stored \subseteq 1..sent
    /\ accepted \subseteq 1..sent
    /\ removed \subseteq 1..sent

\* A message is sent by one call, is stored by it at most once and under one
\* key, and is neither accepted nor removed before the call is over.
IdsAreApart ==
    /\ \A p, q \in Producer :
           Calls(p) /\ Calls(q) /\ p # q => producer[p].id # producer[q].id
    /\ \A p \in Producer : Calls(p) => producer[p].id \notin accepted \cup removed
    /\ \A p \in Producer :
           producer[p].phase \in {"locked", "numbered"} =>
               producer[p].id \notin Stored
    /\ \A n, k \in DOMAIN database : database[n] = database[k] => n = k
    /\ Stored \cap removed = {}

\* A number, once taken, is above the keys of all that was accepted before the
\* call began, though its record is not written yet.
EarlierIsAhead ==
    /\ \A m \in Id : earlier[m] \subseteq accepted
    /\ \A p \in Producer : producer[p].phase = "numbered" =>
           \A n \in DOMAIN database :
               database[n] \in earlier[producer[p].id] => n < producer[p].serial
    /\ FirstComeFirstServed

OInv == SInv /\ IdsAreIssued /\ IdsAreApart /\ EarlierIsAhead

\* The contract's view of the producers.
calling == {producer[p].id : p \in Calling}

\* What the contract sees does not change.
Stutters ==
    /\ calling' = calling /\ database' = database
    /\ UNCHANGED <<accepted, earlier, removed>>

\* A record leaves the database under the lock held alone.
TakesOut(n) ==
    /\ Unlocked
    /\ DOMAIN database' = DOMAIN database \ {n}
    /\ \A k \in DOMAIN database' : database'[k] = database[k]
    /\ removed' = removed \cup {database[n]}
    /\ UNCHANGED <<producer, accepted, earlier, sent>>

LEMMA SameOrder ==
    ASSUME database' = database
    PROVE  Stored' = Stored /\ KeyOrder' = KeyOrder
<1>1. Stored' = Stored
  BY DEF Stored
<1>2. KeyOrder' = {pair \in Stored' \X Stored' :
                      \E n, k \in DOMAIN database' :
                          n < k /\ pair = <<database'[n], database'[k]>>}
  BY DEF KeyOrder
<1> QED
  BY <1>1, <1>2 DEF KeyOrder

LEMMA StutterMaps ==
    ASSUME Stutters
    PROVE  UNCHANGED Durable!vars
  BY SameOrder DEF Stutters, Durable!vars, calling

-----------------------------------------------------------------------------
(* The shape of the steps.                                                 *)

\* Dispose and PurgeKey are the steps that take a record out.
LEMMA RemovalsTakeOut ==
    ASSUME SInv, Dispose \/ PurgeKey
    PROVE  \E n \in DOMAIN database : TakesOut(n)
<1> USE DEF SInv
<1>1. CASE Dispose
  <2>1. PICK i \in DOMAIN messageBuffer :
            /\ database' = Without(database, messageBuffer[i].serial)
            /\ removed' = removed \cup {messageBuffer[i].id}
    BY <1>1 DEF Dispose
  <2>2. Unlocked /\ purging = {} /\ UNCHANGED <<producer, accepted, earlier, sent>>
    BY <1>1 DEF Dispose
  <2>3. /\ messageBuffer[i].serial \in DOMAIN database
        /\ database[messageBuffer[i].serial] = messageBuffer[i].id
    BY <2>2 DEF BufferIsPrefix
  <2> QED
    BY <2>1, <2>2, <2>3 DEF TakesOut, Without
<1>2. CASE PurgeKey
  <2>1. PICK n \in purging :
            /\ database' = Without(database, n)
            /\ removed' = removed \cup {database[n]}
    BY <1>2 DEF PurgeKey
  <2>2. n \in DOMAIN database /\ Unlocked
    BY <2>1 DEF PurgeIsAlone
  <2>3. UNCHANGED <<producer, accepted, earlier, sent>>
    BY <1>2 DEF PurgeKey
  <2> QED
    BY <2>1, <2>2, <2>3 DEF TakesOut, Without
<1> QED
  BY <1>1, <1>2

\* The call of p ends, well or not.
LEMMA CallEnds ==
    ASSUME OInv, NEW p \in Producer, Calls(p),
           producer' = [producer EXCEPT ![p] = IdleProducer]
    PROVE  /\ ~Calls(p)'
           /\ \A q \in Producer : q # p => producer'[q] = producer[q]
           /\ calling' = calling \ {producer[p].id}
<1>1. producer'[p] = IdleProducer /\ \A q \in Producer : q # p => producer'[q] = producer[q]
  BY DEF OInv, SInv, TypeOK
<1>2. ~Calls(p)'
  BY <1>1 DEF Calls, IdleProducer
<1>3. calling' = {producer'[q].id : q \in {q \in Producer : Calls(q)'}}
  BY DEF calling, Calling, Calls
<1>4. \A q \in Producer : Calls(q)' <=> Calls(q) /\ q # p
  BY <1>1, <1>2 DEF Calls
<1>5. calling = {producer[q].id : q \in {q \in Producer : Calls(q)}}
  BY DEF calling, Calling, Calls
<1>6. \A q \in Producer : Calls(q) /\ q # p => producer[q].id # producer[p].id
  BY DEF OInv, IdsAreApart
<1>7. calling' = calling \ {producer[p].id}
  BY <1>1, <1>3, <1>4, <1>5, <1>6
<1> QED
  BY <1>1, <1>2, <1>7

\* The call of p goes on.
LEMMA CallGoesOn ==
    ASSUME OInv, NEW p \in Producer, Calls(p), NEW r,
           producer' = [producer EXCEPT ![p] = r],
           r.phase # "idle", r.id = producer[p].id
    PROVE  /\ producer'[p] = r /\ Calls(p)'
           /\ \A q \in Producer : q # p => producer'[q] = producer[q]
           /\ calling' = calling
<1>1. producer'[p] = r /\ \A q \in Producer : q # p => producer'[q] = producer[q]
  BY DEF OInv, SInv, TypeOK
<1>2. \A q \in Producer : producer'[q].id = producer[q].id /\ (Calls(q)' <=> Calls(q))
  BY <1>1 DEF Calls
<1>3. calling' = {producer'[q].id : q \in {q \in Producer : Calls(q)'}}
  BY DEF calling, Calling, Calls
<1>4. calling = {producer[q].id : q \in {q \in Producer : Calls(q)}}
  BY DEF calling, Calling, Calls
<1> QED
  BY <1>1, <1>2, <1>3, <1>4

-----------------------------------------------------------------------------
(* Enqueue.                                                                *)

LEMMA TakeReadLockMaps ==
    ASSUME OInv, NEW p \in Producer, TakeReadLock(p)
    PROVE  OInv' /\ \E m \in Id : Durable!Begin(m)
<1>0. PICK m \in Id : m = sent + 1
  BY StoreAssumption DEF TakeReadLock, OInv, SInv, TypeOK, Id
<1> DEFINE r == [phase |-> "locked", serial |-> 0, id |-> m]
<1>1. /\ ~Calls(p) /\ sent \in Nat /\ sent' = m /\ m \in Id
      /\ producer' = [producer EXCEPT ![p] = r]
      /\ earlier' = [earlier EXCEPT ![m] = accepted \ removed]
      /\ UNCHANGED <<database, accepted, removed>>
      /\ earlier \in [Id -> SUBSET Id]
  BY <1>0 DEF TakeReadLock, Calls, OInv, SInv, TypeOK
<1>2. SInv'
  BY TakeReadLockKeeps DEF OInv
<1>3. /\ producer'[p] = r /\ \A q \in Producer : q # p => producer'[q] = producer[q]
      /\ Calls(p)' /\ r.id = m /\ r.phase = "locked"
  BY <1>1 DEF OInv, SInv, TypeOK, Calls
<1>4. 1..sent \subseteq 1..m /\ m \notin 1..sent /\ m \in 1..m
  BY <1>0, <1>1
<1>5. /\ m \notin Stored /\ m \notin accepted /\ m \notin removed
      /\ \A q \in Producer : Calls(q) => producer[q].id # m
  BY <1>4 DEF OInv, IdsAreIssued
<1> HIDE DEF r
<1>6. \A q \in Producer : q # p => (Calls(q)' <=> Calls(q))
  BY <1>3 DEF Calls
<1>7. Stored' = Stored /\ KeyOrder' = KeyOrder
  BY <1>1, SameOrder
<1>8. IdsAreIssued'
  BY <1>1, <1>3, <1>4, <1>6, <1>7 DEF OInv, IdsAreIssued
<1>9. IdsAreApart'
  <2>1. \A q \in Producer : Calls(q)' => producer'[q].id \notin accepted \cup removed
    BY <1>3, <1>5, <1>6 DEF OInv, IdsAreApart
  <2>2. \A q \in Producer : producer'[q].phase \in {"locked", "numbered"} =>
            producer'[q].id \notin Stored
    BY <1>3, <1>5 DEF OInv, IdsAreApart
  <2>3. \A q, s \in Producer :
            Calls(q)' /\ Calls(s)' /\ q # s => producer'[q].id # producer'[s].id
    BY <1>3, <1>5, <1>6 DEF OInv, IdsAreApart
  <2> QED
    BY <1>1, <1>7, <2>1, <2>2, <2>3 DEF OInv, IdsAreApart
<1>10. EarlierIsAhead'
  <2>1. \A k \in Id : earlier'[k] = IF k = m THEN accepted \ removed ELSE earlier[k]
    BY <1>1
  <2>2. \A k \in Id : earlier'[k] \subseteq accepted'
    BY <1>1, <2>1 DEF OInv, EarlierIsAhead
  <2>3. \A n \in DOMAIN database : database[n] # m /\ database[n] \in Id
    BY <1>5 DEF Stored, OInv, SInv, DatabaseIsFunction
  <2>4. FirstComeFirstServed'
    BY <1>1, <2>1, <2>3 DEF OInv, EarlierIsAhead, FirstComeFirstServed
  <2>5. ASSUME NEW q \in Producer, producer'[q].phase = "numbered",
               NEW n \in DOMAIN database, database[n] \in earlier'[producer'[q].id]
        PROVE  n < producer'[q].serial
    <3>1. q # p /\ producer'[q] = producer[q]
      BY <1>3, <2>5
    <3>2. producer[q].id # m /\ producer[q].id \in Id
      BY <1>5, <2>5, <3>1 DEF Calls, OInv, SInv, NumbersAreApart
    <3> QED
      BY <2>1, <2>5, <3>1, <3>2 DEF OInv, EarlierIsAhead
  <2> QED
    BY <1>1, <2>2, <2>4, <2>5 DEF EarlierIsAhead
<1>11. calling' = calling \cup {m}
  <2>1. calling' = {producer'[q].id : q \in {q \in Producer : Calls(q)'}}
    BY DEF calling, Calling, Calls
  <2>2. calling = {producer[q].id : q \in {q \in Producer : Calls(q)}}
    BY DEF calling, Calling, Calls
  <2> QED
    BY <1>1, <1>3, <1>6, <2>1, <2>2
<1>12. m \notin calling
  BY <1>5 DEF calling, Calling, Calls
<1>13. Durable!Begin(m)
  BY <1>1, <1>5, <1>7, <1>11, <1>12 DEF Durable!Begin, calling
<1> QED
  BY <1>1, <1>2, <1>8, <1>9, <1>10, <1>13 DEF OInv

\* An exception leaves nothing behind.
LEMMA GiveUpMaps ==
    ASSUME OInv, NEW p \in Producer, DatabaseClosed(p) \/ StoreFails(p)
    PROVE  OInv' /\ \E m \in Id : Durable!Fail(m)
<1>0. PICK m \in Id : m = producer[p].id
  BY DEF DatabaseClosed, StoreFails, OInv, SInv, NumbersAreApart
<1>1. /\ UNCHANGED <<database, sent, accepted, earlier, removed>>
      /\ producer' = [producer EXCEPT ![p] = IdleProducer]
      /\ producer[p].phase \in {"locked", "numbered"}
  BY DEF DatabaseClosed, StoreFails, history
<1>2. SInv'
  BY GiveUpKeeps DEF OInv
<1>3. /\ Calls(p) /\ ~Calls(p)' /\ calling' = calling \ {producer[p].id}
      /\ \A q \in Producer : q # p => producer'[q] = producer[q]
  BY <1>1, CallEnds DEF Calls
<1>4. \A q \in Producer : Calls(q)' => q # p /\ Calls(q) /\ producer'[q] = producer[q]
  BY <1>3 DEF Calls
<1>5. \A q \in Producer :
        producer'[q].phase \in {"locked", "numbered"} => Calls(q)'
  BY DEF Calls
<1>6. Stored' = Stored /\ KeyOrder' = KeyOrder
  BY <1>1, SameOrder
<1>7. IdsAreIssued'
  BY <1>1, <1>4, <1>6 DEF OInv, IdsAreIssued
<1>8. IdsAreApart'
  BY <1>1, <1>4, <1>5, <1>6 DEF OInv, IdsAreApart
<1>9. EarlierIsAhead'
  BY <1>1, <1>4, <1>5 DEF OInv, EarlierIsAhead, FirstComeFirstServed
<1>10. Durable!Fail(m)
  <2>1. m \in calling /\ m \notin Stored
    BY <1>0, <1>1, <1>3 DEF calling, Calling, Calls, OInv, IdsAreApart
  <2> QED
    BY <1>0, <1>1, <1>3, <1>6, <2>1 DEF Durable!Fail, calling
<1> QED
  BY <1>2, <1>7, <1>8, <1>9, <1>10 DEF OInv

\* The number is above every key there is.
LEMMA GetNextSerialNumberMaps ==
    ASSUME OInv, NEW p \in Producer, GetNextSerialNumber(p)
    PROVE  OInv' /\ Stutters
<1> DEFINE number == lastSerialNumber + 1
           r == [producer[p] EXCEPT !.phase = "numbered", !.serial = number]
<1>1. /\ UNCHANGED <<database, sent, accepted, earlier, removed>>
      /\ producer' = [producer EXCEPT ![p] = r]
      /\ producer[p].phase = "locked" /\ Calls(p)
      /\ r.phase = "numbered" /\ r.serial = number /\ r.id = producer[p].id
  BY DEF GetNextSerialNumber, TakeNumber, history, Calls, OInv, SInv, TypeOK
<1>2. SInv'
  BY GetNextSerialNumberKeeps DEF OInv
<1>3. \A n \in DOMAIN database : n < number
  <2>1. isUp /\ lastSerialNumber \in Nat
    BY <1>1 DEF Unlocked, OInv, SInv, MemoryIsLost, TypeOK
  <2> QED
    BY <2>1 DEF OInv, SInv, NumbersAreIssued
<1> HIDE DEF r, number
<1>4. /\ producer'[p] = r /\ Calls(p)' /\ calling' = calling
      /\ \A q \in Producer : q # p => producer'[q] = producer[q]
  BY <1>1, CallGoesOn
<1>5. \A q \in Producer : /\ Calls(q)' <=> Calls(q)
                          /\ producer'[q].id = producer[q].id
  BY <1>1, <1>4 DEF Calls
<1>6. Stored' = Stored /\ KeyOrder' = KeyOrder
  BY <1>1, SameOrder
<1>7. IdsAreIssued'
  BY <1>1, <1>5, <1>6 DEF OInv, IdsAreIssued
<1>8. IdsAreApart'
  <2>1. \A q \in Producer : producer'[q].phase \in {"locked", "numbered"} =>
                                producer[q].phase \in {"locked", "numbered"}
    BY <1>1, <1>4
  <2> QED
    BY <1>1, <1>5, <1>6, <2>1 DEF OInv, IdsAreApart
<1>9. EarlierIsAhead'
  <2>1. ASSUME NEW q \in Producer, producer'[q].phase = "numbered",
               NEW n \in DOMAIN database, database[n] \in earlier[producer'[q].id]
        PROVE  n < producer'[q].serial
    <3>1. CASE q = p
      BY <1>1, <1>3, <1>4, <3>1
    <3>2. CASE q # p
      BY <1>4, <2>1, <3>2 DEF OInv, EarlierIsAhead
    <3> QED
      BY <3>1, <3>2
  <2> QED
    BY <1>1, <2>1 DEF OInv, EarlierIsAhead, FirstComeFirstServed
<1> QED
  BY <1>1, <1>2, <1>4, <1>7, <1>8, <1>9 DEF OInv, Stutters

\* The record is written: the message is placed behind those with smaller keys.
LEMMA StoreMaps ==
    ASSUME OInv, NEW p \in Producer, Store(p)
    PROVE  OInv' /\ \E m \in Id : Durable!Place(m)
<1>0. PICK m \in Id : m = producer[p].id
  BY DEF Store, OInv, SInv, NumbersAreApart
<1> DEFINE n == producer[p].serial
           r == [producer[p] EXCEPT !.phase = "stored"]
<1>1. /\ producer[p].phase = "numbered" /\ Calls(p)
      /\ database' = With(database, n, m)
      /\ producer' = [producer EXCEPT ![p] = r]
      /\ UNCHANGED <<sent, accepted, earlier, removed>>
      /\ r.phase = "stored" /\ r.id = m /\ r.serial = n
  BY <1>0 DEF Store, history, Calls, OInv, SInv, TypeOK
<1>2. SInv'
  BY StoreKeeps DEF OInv
<1>3. n \notin DOMAIN database /\ n \in Nat /\ DOMAIN database \subseteq Nat
  BY <1>1 DEF OInv, SInv, NumbersAreApart, Numbered, TypeOK, Serial
<1>4. /\ m \notin Stored /\ m \notin accepted /\ m \notin removed
      /\ m \in 1..sent
      /\ \A q \in Producer : q # p /\ Calls(q) => producer[q].id # m
  BY <1>0, <1>1 DEF OInv, IdsAreApart, IdsAreIssued
<1>5. \A k \in DOMAIN database : database[k] \in earlier[m] => k < n
  BY <1>0, <1>1 DEF OInv, EarlierIsAhead
<1>6. \A i, j \in DOMAIN database : database[i] = database[j] => i = j
  BY DEF OInv, IdsAreApart
<1> HIDE DEF n, r
<1>7. /\ DOMAIN database' = DOMAIN database \cup {n} /\ database'[n] = m
      /\ \A k \in DOMAIN database : database'[k] = database[k]
  BY <1>1, <1>3 DEF With
<1>8. Stored' = Stored \cup {m}
  BY <1>7 DEF Stored
<1>9. /\ producer'[p] = r /\ calling' = calling /\ Calls(p)'
      /\ \A q \in Producer : q # p => producer'[q] = producer[q]
  BY <1>0, <1>1, CallGoesOn
<1>10. \A q \in Producer : /\ Calls(q)' <=> Calls(q)
                           /\ producer'[q].id = producer[q].id
  BY <1>0, <1>1, <1>9 DEF Calls
<1>11. \A q \in Producer : producer'[q].phase \in {"locked", "numbered"} =>
                               q # p /\ producer'[q] = producer[q] /\ Calls(q)
  BY <1>1, <1>9 DEF Calls
<1>12. IdsAreIssued'
  BY <1>1, <1>4, <1>8, <1>10 DEF OInv, IdsAreIssued
<1>13. IdsAreApart'
  <2>1. \A i, j \in DOMAIN database' : database'[i] = database'[j] => i = j
    <3>1. \A k \in DOMAIN database : database[k] # m
      BY <1>4 DEF Stored
    <3> QED
      BY <1>6, <1>7, <3>1
  <2>2. Stored' \cap removed' = {}
    BY <1>1, <1>4, <1>8 DEF OInv, IdsAreApart
  <2>3. \A q \in Producer : producer'[q].phase \in {"locked", "numbered"} =>
            producer'[q].id \notin Stored'
    BY <1>4, <1>8, <1>11 DEF OInv, IdsAreApart
  <2> QED
    BY <1>1, <1>10, <2>1, <2>2, <2>3 DEF OInv, IdsAreApart
<1>14. EarlierIsAhead'
  <2>1. \A k \in Id : m \notin earlier[k]
    BY <1>4 DEF OInv, EarlierIsAhead
  <2>2. \A k \in DOMAIN database : database[k] \in Id
    BY DEF OInv, SInv, DatabaseIsFunction
  <2>3. FirstComeFirstServed'
    <3>1. ASSUME NEW i \in DOMAIN database', NEW j \in DOMAIN database',
                 database'[i] \in earlier[database'[j]]
          PROVE  i < j
      <4>1. database'[j] \in Id
        BY <1>7, <2>2
      <4>2. i \in DOMAIN database /\ database'[i] = database[i]
        BY <1>7, <2>1, <3>1, <4>1
      <4>3. CASE j = n
        BY <1>5, <1>7, <3>1, <4>2, <4>3
      <4>4. CASE j # n
        BY <1>7, <3>1, <4>2, <4>4 DEF OInv, EarlierIsAhead, FirstComeFirstServed
      <4> QED
        BY <4>3, <4>4
    <3> QED
      BY <1>1, <3>1 DEF FirstComeFirstServed
  <2>4. ASSUME NEW q \in Producer, producer'[q].phase = "numbered",
               NEW k \in DOMAIN database', database'[k] \in earlier[producer'[q].id]
        PROVE  k < producer'[q].serial
    <3>1. producer'[q] = producer[q] /\ producer[q].id \in Id
      BY <1>11, <2>4 DEF Calls, OInv, SInv, NumbersAreApart
    <3>2. k \in DOMAIN database /\ database'[k] = database[k]
      BY <1>7, <2>1, <2>4, <3>1
    <3> QED
      BY <2>4, <3>1, <3>2 DEF OInv, EarlierIsAhead
  <2> QED
    BY <1>1, <2>3, <2>4 DEF OInv, EarlierIsAhead
<1>15. Durable!Place(m)
  <2> DEFINE front == {database[k] : k \in {k \in DOMAIN database : k < n}}
  <2>1. front \in SUBSET Stored /\ earlier[m] \cap Stored \subseteq front
    BY <1>5 DEF Stored
  <2>2. ASSUME NEW k \in DOMAIN database
        PROVE  database[k] \in front <=> k < n
    BY <1>6
  <2>3. ASSUME NEW x \in Stored, NEW y \in front, <<x, y>> \in KeyOrder
        PROVE  x \in front
    <3>1. PICK i \in DOMAIN database, j \in DOMAIN database :
              i < j /\ <<x, y>> = <<database[i], database[j]>>
      BY <2>3 DEF KeyOrder
    <3>2. j < n /\ i \in Nat /\ j \in Nat
      BY <1>3, <2>2, <3>1
    <3> QED
      BY <1>3, <2>2, <3>1, <3>2
  <2>4. front \in Durable!Ahead(m)
    BY <2>1, <2>3 DEF Durable!Ahead
  <2> DEFINE placed == KeyOrder \cup (front \X {m}) \cup ({m} \X (Stored \ front))
  <2>5. ASSUME NEW pair \in KeyOrder' PROVE pair \in placed
    <3>1. PICK i \in DOMAIN database', j \in DOMAIN database' :
              i < j /\ pair = <<database'[i], database'[j]>>
      BY <2>5 DEF KeyOrder
    <3>2. CASE i = n
      <4>1. j \in DOMAIN database /\ pair = <<m, database[j]>> /\ ~(j < n)
        BY <1>3, <1>7, <3>1, <3>2
      <4>2. database[j] \in Stored \ front
        BY <2>2, <4>1 DEF Stored
      <4> QED
        BY <4>1, <4>2
    <3>3. CASE j = n
      <4>1. i \in DOMAIN database /\ pair = <<database[i], m>> /\ i < n
        BY <1>3, <1>7, <3>1, <3>3
      <4> QED
        BY <2>2, <4>1
    <3>4. CASE i # n /\ j # n
      <4>1. i \in DOMAIN database /\ j \in DOMAIN database
        BY <1>7, <3>1, <3>4
      <4>2. pair = <<database[i], database[j]>>
        BY <1>7, <3>1, <4>1
      <4>3. pair \in Stored \X Stored
        BY <4>1, <4>2 DEF Stored
      <4> QED
        BY <3>1, <4>1, <4>2, <4>3 DEF KeyOrder
    <3> QED
      BY <3>2, <3>3, <3>4
  <2>6. KeyOrder' = {pair \in Stored' \X Stored' :
                        \E i, j \in DOMAIN database' :
                            i < j /\ pair = <<database'[i], database'[j]>>}
    BY DEF KeyOrder
  <2>7. ASSUME NEW pair \in placed PROVE pair \in KeyOrder'
    <3>1. CASE pair \in KeyOrder
      <4>1. PICK i \in DOMAIN database, j \in DOMAIN database :
                i < j /\ pair = <<database[i], database[j]>>
        BY <3>1 DEF KeyOrder
      <4>2. pair = <<database'[i], database'[j]>> /\ pair \in Stored' \X Stored'
        BY <1>7, <1>8, <4>1 DEF Stored
      <4> QED
        BY <1>7, <2>6, <4>1, <4>2
    <3>2. CASE pair \in front \X {m}
      <4>1. PICK i \in DOMAIN database : i < n /\ pair = <<database[i], m>>
        BY <3>2
      <4>2. pair = <<database'[i], database'[n]>> /\ pair \in Stored' \X Stored'
        BY <1>7, <1>8, <4>1 DEF Stored
      <4> QED
        BY <1>7, <2>6, <4>1, <4>2
    <3>3. CASE pair \in {m} \X (Stored \ front)
      <4>1. PICK j \in DOMAIN database :
                database[j] \notin front /\ pair = <<m, database[j]>>
        BY <3>3 DEF Stored
      <4>2. n < j
        BY <1>3, <2>2, <4>1
      <4>3. pair = <<database'[n], database'[j]>> /\ pair \in Stored' \X Stored'
        BY <1>7, <1>8, <4>1 DEF Stored
      <4> QED
        BY <1>7, <2>6, <4>2, <4>3
    <3> QED
      BY <2>7, <3>1, <3>2, <3>3
  <2>8. KeyOrder' = placed
    BY <2>5, <2>7
  <2>9. m \in calling
    BY <1>0, <1>1 DEF calling, Calling, Calls
  <2> QED
    BY <1>1, <1>4, <1>8, <1>9, <2>4, <2>8, <2>9 DEF Durable!Place, calling
<1> QED
  BY <1>2, <1>12, <1>13, <1>14, <1>15 DEF OInv

\* The message that is counted is in the queue.
LEMMA CountAndReturnMaps ==
    ASSUME OInv, NEW p \in Producer, CountAndReturn(p)
    PROVE  OInv' /\ \E m \in Id : Durable!Return(m)
<1>0. PICK m \in Id : m = producer[p].id
  BY DEF CountAndReturn, OInv, SInv, NumbersAreApart
<1>1. /\ UNCHANGED <<database, sent, earlier, removed>>
      /\ producer' = [producer EXCEPT ![p] = IdleProducer]
      /\ producer[p].phase = "stored" /\ accepted' = accepted \cup {m}
  BY <1>0 DEF CountAndReturn
<1>2. SInv'
  BY CountAndReturnKeeps DEF OInv
<1>3. /\ Calls(p) /\ ~Calls(p)' /\ calling' = calling \ {m}
      /\ \A q \in Producer : q # p => producer'[q] = producer[q]
  BY <1>0, <1>1, CallEnds DEF Calls
<1>4. \A q \in Producer :
        Calls(q)' => /\ q # p /\ Calls(q) /\ producer'[q] = producer[q]
                     /\ producer[q].id # m
  BY <1>0, <1>3 DEF Calls, OInv, IdsAreApart
<1>5. \A q \in Producer :
        producer'[q].phase \in {"locked", "numbered"} => Calls(q)'
  BY DEF Calls
<1>6. Stored' = Stored /\ KeyOrder' = KeyOrder
  BY <1>1, SameOrder
<1>7. IdsAreIssued'
  BY <1>0, <1>1, <1>3, <1>4, <1>6 DEF OInv, IdsAreIssued
<1>8. IdsAreApart'
  BY <1>1, <1>4, <1>5, <1>6 DEF OInv, IdsAreApart
<1>9. EarlierIsAhead'
  BY <1>1, <1>4, <1>5 DEF OInv, EarlierIsAhead, FirstComeFirstServed
<1>10. Durable!Return(m)
  <2>1. m \in calling
    BY <1>0, <1>3 DEF calling, Calling, Calls
  <2>2. m \in Stored
    BY <1>0, <1>1 DEF Stored, OInv, SInv, NumbersAreApart
  <2> QED
    BY <1>1, <1>3, <1>6, <2>1, <2>2 DEF Durable!Return, calling
<1> QED
  BY <1>2, <1>7, <1>8, <1>9, <1>10 DEF OInv

-----------------------------------------------------------------------------
(* The other steps.                                                        *)

\* A removal takes out one message, and the order of the others is the same.
LEMMA TakesOutMaps ==
    ASSUME OInv, SInv', NEW n \in DOMAIN database, TakesOut(n)
    PROVE  OInv' /\ \E m \in Id : Durable!Remove(m)
<1>0. PICK m \in Id : m = database[n]
  BY DEF OInv, SInv, DatabaseIsFunction
<1>1. /\ DOMAIN database' = DOMAIN database \ {n}
      /\ \A k \in DOMAIN database' : database'[k] = database[k]
      /\ removed' = removed \cup {m}
      /\ UNCHANGED <<producer, accepted, earlier, sent>>
      /\ calling = {} /\ \A p \in Producer : ~Calls(p)
  BY <1>0 DEF TakesOut, Unlocked, calling, Calling, Calls
<1>2. \A i, j \in DOMAIN database : database[i] = database[j] => i = j
  BY DEF OInv, IdsAreApart
<1>3. m \in Stored /\ Stored' = Stored \ {m}
  BY <1>0, <1>1, <1>2 DEF Stored
<1>4. calling' = calling /\ \A p \in Producer : ~Calls(p)' /\ producer'[p].phase = "idle"
  BY <1>1 DEF calling, Calling, Calls
<1>5. IdsAreIssued'
  BY <1>1, <1>3, <1>4 DEF OInv, IdsAreIssued
<1>6. IdsAreApart'
  BY <1>1, <1>2, <1>3, <1>4 DEF OInv, IdsAreApart
<1>7. EarlierIsAhead'
  BY <1>1, <1>4 DEF OInv, EarlierIsAhead, FirstComeFirstServed
<1>8. KeyOrder' = {pair \in KeyOrder : m \notin {pair[1], pair[2]}}
  <2>1. KeyOrder' = {pair \in Stored' \X Stored' :
                        \E i, j \in DOMAIN database' :
                            i < j /\ pair = <<database'[i], database'[j]>>}
    BY DEF KeyOrder
  <2>2. ASSUME NEW pair \in KeyOrder'
        PROVE  pair \in KeyOrder /\ m \notin {pair[1], pair[2]}
    <3>1. PICK i \in DOMAIN database', j \in DOMAIN database' :
              i < j /\ pair = <<database'[i], database'[j]>>
      BY <2>1, <2>2
    <3>2. /\ i \in DOMAIN database /\ j \in DOMAIN database
          /\ pair = <<database[i], database[j]>>
      BY <1>1, <3>1
    <3>3. pair \in Stored' \X Stored'
      BY <2>1, <2>2
    <3> QED
      BY <1>3, <3>1, <3>2, <3>3 DEF KeyOrder
  <2>3. ASSUME NEW pair \in KeyOrder, m \notin {pair[1], pair[2]}
        PROVE  pair \in KeyOrder'
    <3>1. PICK i \in DOMAIN database, j \in DOMAIN database :
              i < j /\ pair = <<database[i], database[j]>>
      BY <2>3 DEF KeyOrder
    <3>2. i # n /\ j # n
      BY <1>0, <2>3, <3>1
    <3>3. i \in DOMAIN database' /\ j \in DOMAIN database'
      BY <1>1, <3>2
    <3>4. pair = <<database'[i], database'[j]>> /\ pair \in Stored' \X Stored'
      BY <1>1, <1>3, <2>3, <3>1, <3>3 DEF Stored
    <3> QED
      BY <2>1, <3>1, <3>3, <3>4
  <2> QED
    BY <2>2, <2>3
<1>9. Durable!Remove(m)
  BY <1>1, <1>3, <1>4, <1>8 DEF Durable!Remove, calling
<1> QED
  BY <1>5, <1>6, <1>7, <1>9 DEF OInv

\* Nobody returns from a call that the end of the process cut short.
LEMMA ProcessEndsMaps ==
    ASSUME OInv, ProcessEnds
    PROVE  OInv' /\ Durable!Crash
<1>1. /\ UNCHANGED <<database, sent, accepted, earlier, removed>>
      /\ producer' = [p \in Producer |-> IdleProducer]
  BY DEF ProcessEnds, history
<1>2. SInv'
  BY ProcessEndsKeeps DEF OInv
<1>3. \A p \in Producer : ~Calls(p)' /\ producer'[p].phase = "idle"
  BY <1>1 DEF Calls, IdleProducer
<1>4. calling' = {}
  BY <1>3 DEF calling, Calling
<1>5. Stored' = Stored /\ KeyOrder' = KeyOrder
  BY <1>1, SameOrder
<1>6. IdsAreIssued' /\ IdsAreApart' /\ EarlierIsAhead'
  BY <1>1, <1>3, <1>5
     DEF OInv, IdsAreIssued, IdsAreApart, EarlierIsAhead, FirstComeFirstServed
<1>7. Durable!Crash
  BY <1>1, <1>4, <1>5 DEF Durable!Crash, calling
<1> QED
  BY <1>2, <1>6, <1>7 DEF OInv

\* The steps that the contract does not see.
LEMMA OthersStutter ==
    ASSUME OInv, SInv',
           \/ ServedChanges
           \/ AskForHydration \/ HydrateMessageBuffer \/ HydrationTimesOut
           \/ StartPurge \/ CloseDatabase \/ InitializePersistentDatabase
           \/ UNCHANGED vars
    PROVE  OInv' /\ Stutters
<1>1. UNCHANGED <<database, producer, sent, accepted, earlier, removed>>
  BY DEF ServedChanges, AskForHydration, HydrateMessageBuffer,
         HydrationTimesOut, StartPurge, CloseDatabase, InitializePersistentDatabase, vars, history
<1>2. Stored' = Stored
  BY <1>1, SameOrder
<1>3. \A p \in Producer : Calls(p)' <=> Calls(p)
  BY <1>1 DEF Calls
<1>4. IdsAreIssued' /\ IdsAreApart'
  BY <1>1, <1>2, <1>3 DEF OInv, IdsAreIssued, IdsAreApart
<1>5. EarlierIsAhead'
  BY <1>1 DEF OInv, EarlierIsAhead, FirstComeFirstServed
<1>6. Stutters
  BY <1>1 DEF Stutters, calling, Calling
<1> QED
  BY <1>4, <1>5, <1>6 DEF OInv

-----------------------------------------------------------------------------
(* The theorems.                                                           *)

\* Every step is one of the contract's, or a stutter.
LEMMA StepMaps ==
    ASSUME OInv, [Next]_vars
    PROVE  OInv' /\ [Durable!Next]_(Durable!vars)
<1>1. SInv'
  BY StepKeeps DEF OInv
<1>2. CASE \E p \in Producer : TakeReadLock(p) \/ EnqueueStep(p)
  <2>1. PICK p \in Producer : TakeReadLock(p) \/ EnqueueStep(p)
    BY <1>2
  <2>2. CASE TakeReadLock(p)
    BY <2>2, TakeReadLockMaps DEF Durable!Next
  <2>3. CASE DatabaseClosed(p) \/ StoreFails(p)
    BY <2>3, GiveUpMaps DEF Durable!Next
  <2>4. CASE GetNextSerialNumber(p)
    BY <2>4, GetNextSerialNumberMaps, StutterMaps
  <2>5. CASE Store(p)
    BY <2>5, StoreMaps DEF Durable!Next
  <2>6. CASE CountAndReturn(p)
    BY <2>6, CountAndReturnMaps DEF Durable!Next
  <2> QED
    BY <2>1, <2>2, <2>3, <2>4, <2>5, <2>6 DEF EnqueueStep
<1>3. CASE Dispose \/ PurgeKey
  <2>1. PICK n \in DOMAIN database : TakesOut(n)
    BY <1>3, RemovalsTakeOut DEF OInv
  <2> QED
    BY <1>1, <2>1, TakesOutMaps DEF Durable!Next
<1>4. CASE ProcessEnds
  BY <1>4, ProcessEndsMaps DEF Durable!Next
<1>5. CASE \/ ServedChanges
           \/ AskForHydration \/ HydrateMessageBuffer \/ HydrationTimesOut
           \/ StartPurge \/ CloseDatabase \/ InitializePersistentDatabase
           \/ UNCHANGED vars
  BY <1>1, <1>5, OthersStutter, StutterMaps
<1> QED
  BY <1>2, <1>3, <1>4, <1>5 DEF Next

LEMMA InitMaps == Init => OInv /\ Durable!Init
<1> SUFFICES ASSUME Init PROVE OInv /\ Durable!Init
  OBVIOUS
<1>1. /\ DOMAIN database = {} /\ sent = 0
      /\ accepted = {} /\ removed = {} /\ earlier = [m \in Id |-> {}]
      /\ \A p \in Producer : ~Calls(p) /\ producer[p].phase = "idle"
  BY DEF Init, Calls, IdleProducer
<1>2. Stored = {} /\ KeyOrder = {} /\ calling = {}
  BY <1>1 DEF Stored, KeyOrder, calling, Calling, Calls
<1>3. IdsAreIssued /\ IdsAreApart /\ EarlierIsAhead
  BY <1>1, <1>2
     DEF IdsAreIssued, IdsAreApart, EarlierIsAhead, FirstComeFirstServed
<1> QED
  BY <1>1, <1>2, <1>3, InitHolds DEF OInv, Durable!Init, calling

\* The invariant the refinement rests on holds in every reachable state.
THEOREM OrderInvariance == Spec => []OInv
<1>1. Init => OInv
  BY InitMaps
<1>2. OInv /\ [Next]_vars => OInv'
  BY StepMaps
<1> QED
  BY <1>1, <1>2, PTL DEF Spec

\* Whatever overlaps, and however often the process dies in between, a message
\* that was accepted before the call for another one began is ahead of it.
THEOREM OrderIsFirstCome == Spec => []FirstComeFirstServed
<1>1. OInv => FirstComeFirstServed
  BY DEF OInv, EarlierIsAhead
<1> QED
  BY <1>1, OrderInvariance, PTL

\* The store is a durable first-come-first-served queue: its initial state and
\* each of its steps are the contract's.
THEOREM DurabilityKept == Spec => KeepsDurability
<1>1. Init => Durable!Init
  BY InitMaps
<1>2. OInv /\ [Next]_vars => [Durable!Next]_(Durable!vars)
  BY StepMaps
<1> QED
  BY <1>1, <1>2, OrderInvariance, PTL DEF Spec, KeepsDurability, Durable!Spec

-----------------------------------------------------------------------------
(* What follows from the contract alone.                                   *)

Before(m, k) == <<m, k>> \in KeyOrder

\* The messages are in one line.
QueueIsALine ==
    /\ \A m, k : Before(m, k) => m \in Stored /\ k \in Stored /\ ~Before(k, m)
    /\ \A m, k \in Stored : m # k => Before(m, k) \/ Before(k, m)
    /\ \A m, k, j : Before(m, k) /\ Before(k, j) => Before(m, j)

\* A message is accepted once, and from then on in the queue until it is
\* removed for good.
AcceptedOnce ==
    /\ calling \subseteq Id /\ accepted \subseteq Stored \cup removed
    /\ calling \cap (accepted \cup removed) = {}
    /\ DOMAIN earlier = Id
    /\ \A m \in Id : earlier[m] \subseteq accepted /\ m \notin earlier[m]

EarlierComesFirst ==
    /\ Stored \subseteq Id
    /\ \A k \in Stored : \A m \in earlier[k] \cap Stored : Before(m, k)

DInv == QueueIsALine /\ AcceptedOnce /\ EarlierComesFirst

\* Wherever a message is placed, there is one line again.
LEMMA PlaceKeepsLine ==
    ASSUME DInv, NEW m \in Id, Durable!Place(m)
    PROVE  DInv'
<1>1. PICK front \in Durable!Ahead(m) :
          KeyOrder' = KeyOrder \cup (front \X {m}) \cup ({m} \X (Stored \ front))
  BY DEF Durable!Place
<1>2. /\ m \in calling /\ m \notin Stored /\ Stored' = Stored \cup {m}
      /\ calling' = calling /\ UNCHANGED <<earlier, accepted, removed>>
  BY DEF Durable!Place, calling
<1>3. /\ front \subseteq Stored /\ earlier[m] \cap Stored \subseteq front
      /\ \A j \in Stored, k \in front : Before(j, k) => j \in front
  BY <1>1 DEF Durable!Ahead, Before
<1>4. \A j, k : Before(j, k)' <=>
          \/ Before(j, k)
          \/ j \in front /\ k = m
          \/ j = m /\ k \in Stored \ front
  BY <1>1 DEF Before
<1> HIDE DEF Before
<1>5. /\ \A j, k : Before(j, k) => j \in Stored /\ k \in Stored /\ ~Before(k, j)
      /\ \A j, k \in Stored : j # k => Before(j, k) \/ Before(k, j)
      /\ \A i, j, k : Before(i, j) /\ Before(j, k) => Before(i, k)
  BY DEF DInv, QueueIsALine
<1>6. \A j, k : Before(j, k)' => j \in Stored' /\ k \in Stored' /\ ~Before(k, j)'
  BY <1>2, <1>3, <1>4, <1>5
<1>7. \A j, k \in Stored' : j # k => Before(j, k)' \/ Before(k, j)'
  BY <1>2, <1>4, <1>5
<1>8. \A i, j, k : Before(i, j)' /\ Before(j, k)' => Before(i, k)'
  <2> SUFFICES ASSUME NEW i, NEW j, NEW k, Before(i, j)', Before(j, k)'
               PROVE  Before(i, k)'
    OBVIOUS
  <2>1. CASE i = m
    BY <1>2, <1>3, <1>4, <1>5, <2>1
  <2>2. CASE j = m
    <3>1. i \in front /\ k \in Stored \ front
      BY <1>2, <1>3, <1>4, <1>5, <2>2
    <3>2. i # k /\ ~Before(k, i)
      BY <1>3, <3>1
    <3> QED
      BY <1>3, <1>4, <1>5, <3>1, <3>2
  <2>3. CASE k = m
    BY <1>2, <1>3, <1>4, <1>5, <2>3
  <2> QED
    BY <1>4, <1>5, <2>1, <2>2, <2>3
<1>9. EarlierComesFirst'
  <2>1. ASSUME NEW k \in Stored', NEW j \in earlier[k] \cap Stored'
        PROVE  Before(j, k)'
    <3>1. j # m
      BY <1>2, <2>1 DEF DInv, AcceptedOnce, EarlierComesFirst
    <3> QED
      BY <1>2, <1>3, <1>4, <2>1, <3>1 DEF DInv, EarlierComesFirst
  <2> QED
    BY <1>2, <2>1 DEF DInv, EarlierComesFirst
<1>10. AcceptedOnce'
  BY <1>2 DEF DInv, AcceptedOnce
<1> QED
  BY <1>6, <1>7, <1>8, <1>9, <1>10 DEF DInv, QueueIsALine

\* The other steps place nothing.
LEMMA OthersKeepLine ==
    ASSUME DInv, NEW m \in Id,
           \/ Durable!Begin(m) \/ Durable!Return(m) \/ Durable!Fail(m)
           \/ Durable!Remove(m) \/ Durable!Crash
    PROVE  DInv'
<1>1. CASE Durable!Begin(m)
  <2>1. /\ calling' = calling \cup {m} /\ m \notin Stored \cup accepted \cup removed
        /\ earlier' = [earlier EXCEPT ![m] = accepted \ removed]
        /\ UNCHANGED <<Stored, KeyOrder, accepted, removed>>
    BY <1>1 DEF Durable!Begin, calling
  <2>2. AcceptedOnce' /\ \A k \in Stored : earlier'[k] = earlier[k]
    BY <2>1 DEF DInv, AcceptedOnce, EarlierComesFirst
  <2> QED
    BY <2>1, <2>2 DEF DInv, QueueIsALine, EarlierComesFirst, Before
<1>2. CASE Durable!Return(m) \/ Durable!Fail(m) \/ Durable!Crash
  <2>1. /\ calling' \subseteq calling
        /\ \/ accepted' = accepted
           \/ accepted' = accepted \cup {m} /\ m \in Stored /\ m \notin calling'
        /\ UNCHANGED <<Stored, KeyOrder, earlier, removed>>
    BY <1>2 DEF Durable!Return, Durable!Fail, Durable!Crash, calling
  <2>2. AcceptedOnce'
    BY <2>1 DEF DInv, AcceptedOnce
  <2> QED
    BY <2>1, <2>2 DEF DInv, QueueIsALine, EarlierComesFirst, Before
<1>3. CASE Durable!Remove(m)
  <2>1. /\ m \in Stored /\ m \notin calling /\ Stored' = Stored \ {m}
        /\ KeyOrder' = {pair \in KeyOrder : m \notin {pair[1], pair[2]}}
        /\ removed' = removed \cup {m} /\ calling' = calling
        /\ UNCHANGED <<earlier, accepted>>
    BY <1>3 DEF Durable!Remove, calling
  <2>2. \A j, k : Before(j, k)' <=> Before(j, k) /\ j # m /\ k # m
    BY <2>1 DEF Before
  <2>3. QueueIsALine' /\ EarlierComesFirst'
    BY <2>1, <2>2 DEF DInv, QueueIsALine, EarlierComesFirst
  <2>4. AcceptedOnce'
    BY <2>1 DEF DInv, AcceptedOnce
  <2> QED
    BY <2>3, <2>4 DEF DInv
<1> QED
  BY <1>1, <1>2, <1>3

\* The contract is enough: whatever implements it keeps every accepted message
\* until it is removed, and keeps those accepted earlier ahead.
THEOREM ContractIsFirstCome ==
    KeepsDurability /\ []TypeOK => [](AcceptedIsStored /\ FirstComeFirstServed)
<1>1. Durable!Init => DInv
  BY DEF Durable!Init, DInv, QueueIsALine, AcceptedOnce, EarlierComesFirst,
         Before, calling
<1>2. DInv /\ [Durable!Next]_(Durable!vars) => DInv'
  <2>1. DInv /\ UNCHANGED Durable!vars => DInv'
    BY DEF Durable!vars, DInv, QueueIsALine, AcceptedOnce, EarlierComesFirst,
           Before, calling
  <2>2. DInv /\ Durable!Crash => DInv'
    <3>1. CASE Id = {}
      BY <3>1 DEF Durable!Crash, DInv, QueueIsALine, AcceptedOnce,
                  EarlierComesFirst, Before, calling
    <3> QED
      BY <3>1, OthersKeepLine
  <2>3. DInv /\ Durable!Next => DInv'
    BY <2>2, PlaceKeepsLine, OthersKeepLine DEF Durable!Next
  <2> QED
    BY <2>1, <2>3
<1>3. DInv /\ TypeOK => AcceptedIsStored /\ FirstComeFirstServed
  <2>1. ASSUME DInv, TypeOK, NEW n \in DOMAIN database, NEW k \in DOMAIN database,
               database[n] \in earlier[database[k]]
        PROVE  n < k
    <3>1. database[n] \in Stored /\ database[k] \in Stored
      BY DEF Stored
    <3>2. Before(database[n], database[k]) /\ ~Before(database[k], database[n])
      BY <2>1, <3>1 DEF DInv, EarlierComesFirst, QueueIsALine
    <3>3. ~(k < n)
      BY <3>1, <3>2 DEF Before, KeyOrder
    <3>4. n # k
      BY <2>1, <3>1 DEF DInv, AcceptedOnce, EarlierComesFirst
    <3>5. n \in Nat /\ k \in Nat
      BY <2>1 DEF TypeOK, Serial
    <3> QED
      BY <3>3, <3>4, <3>5
  <2> QED
    BY <2>1 DEF DInv, AcceptedOnce, AcceptedIsStored, FirstComeFirstServed
<1> QED
  BY <1>1, <1>2, <1>3, PTL DEF KeepsDurability, Durable!Spec
=============================================================================
