----------------------- MODULE PersistentStoreProofs -----------------------
(***************************************************************************)
(* Proofs about PersistentStore, for every number of producers, messages   *)
(* and crashes and for every size of the buffer: the depth counter follows *)
(* the database, the buffer is the beginning of the queue, and what was    *)
(* accepted is stored until it is disposed of or purged.                   *)
(***************************************************************************)
EXTENDS PersistentStore, FiniteSetTheorems, WellFoundedInduction,
        SequenceTheorems, TLAPS

InPhase(ph) == {p \in Producer : producer[p].phase = ph}

DatabaseIsFunction == database \in [DOMAIN database -> Id]

\* Nothing that is kept in memory outlives the process.
MemoryIsLost ==
    ~isUp =>
        /\ messageBuffer = <<>> /\ purging = {} /\ lastSerialNumber = 0
        /\ Unlocked /\ ~attemptBufferRehydration

\* Every stored key has been issued, and there is a message for each issued
\* key and for each producer that is about to take one.
NumbersAreIssued ==
    /\ DOMAIN database \subseteq 1..sent
    /\ isUp => DOMAIN database \subseteq 1..lastSerialNumber
    /\ lastSerialNumber + Cardinality(InPhase("locked")) <= sent

\* A producer between taking a number and counting the message.
Numbered(p) == producer[p].phase \in {"numbered", "stored"}

\* A number is above the buffer, belongs to one producer, and is free until
\* that producer has stored its message under it.
NumbersAreApart ==
    /\ \A p \in Producer : Numbered(p) =>
           /\ producer[p].serial \in 1..lastSerialNumber
           /\ \A n \in Buffered : n < producer[p].serial
    /\ \A p, q \in Producer :
           Numbered(p) /\ Numbered(q) /\ p # q =>
               producer[p].serial # producer[q].serial
    /\ \A p \in Producer : producer[p].phase = "numbered" =>
           producer[p].serial \notin DOMAIN database
    /\ \A p \in Producer : producer[p].phase = "stored" =>
           /\ producer[p].serial \in DOMAIN database
           /\ database[producer[p].serial] = producer[p].id
    /\ \A p \in Producer : producer[p].phase # "idle" => producer[p].id \in Id

\* The purge holds the lock alone and removes whatever is stored.
PurgeIsAlone == purging # {} => isUp /\ Unlocked /\ purging = DOMAIN database

SInv ==
    /\ TypeOK /\ DatabaseIsFunction /\ MemoryIsLost /\ NumbersAreIssued
    /\ NumbersAreApart /\ PurgeIsAlone
    /\ DepthTracksDatabase /\ BufferIsPrefix /\ AcceptedIsStored

-----------------------------------------------------------------------------
(* Numbers and finite sets.                                                *)

LEMMA LeastExists ==
    ASSUME NEW S \in SUBSET Nat, S # {}
    PROVE  \E least \in S : \A n \in S : least <= n
<1> DEFINE Before == OpToRel(<, Nat)
<1>1. \A x, y \in Nat : <<x, y>> \in Before <=> x < y
  BY DEF OpToRel
<1>2. IsWellFoundedOn(Before, Nat)
  BY NatLessThanWellFounded
<1> HIDE DEF Before
<1>3. PICK least \in S : \A n \in S : ~ (<<n, least>> \in Before)
  BY <1>2, WFMin
<1>4. ASSUME NEW n \in S PROVE least <= n
  <2>1. n \in Nat /\ least \in Nat
    OBVIOUS
  <2>2. ~ (<<n, least>> \in Before)
    BY <1>3
  <2>3. ~ (n < least)
    BY <1>1, <2>1, <2>2
  <2> QED
    BY <2>1, <2>3
<1> QED
  BY <1>4

LEMMA GreatestExists ==
    ASSUME NEW bound \in Nat, NEW S \in SUBSET (1..bound), S # {}
    PROVE  \E greatest \in S : \A n \in S : n <= greatest
<1> DEFINE Above == {u \in 0..bound : \A n \in S : n <= u}
<1>1. bound \in Above
  OBVIOUS
<1>2. Above \in SUBSET Nat /\ Above # {}
  BY <1>1
<1>3. PICK u \in Above : \A v \in Above : u <= v
  BY <1>2, LeastExists
<1>4. u \in S
  <2> SUFFICES ASSUME u \notin S PROVE FALSE
    OBVIOUS
  <2>1. PICK n \in S : TRUE
    OBVIOUS
  <2>2. u \in 0..bound /\ n <= u /\ n >= 1
    OBVIOUS
  <2>3. \A k \in S : k <= u - 1
    OBVIOUS
  <2>4. u - 1 \in Above
    BY <2>2, <2>3
  <2> QED
    BY <1>3, <2>2, <2>4
<1> QED
  BY <1>4

\* The database and the sets of producers are finite; a set of producers or
\* keys that gains or loses a member changes its size by one.
LEMMA FiniteFacts ==
    ASSUME TypeOK
    PROVE  /\ IsFiniteSet(DOMAIN database)
           /\ Cardinality(DOMAIN database) \in Nat
           /\ \A ph : /\ IsFiniteSet(InPhase(ph))
                      /\ Cardinality(InPhase(ph)) \in Nat
           /\ Unlocked => \A ph : ph # "idle" => InPhase(ph) = {}
<1>1. IsFiniteSet(1..MaxMessages)
  BY StoreAssumption, FS_Interval
<1>2. IsFiniteSet(DOMAIN database) /\ Cardinality(DOMAIN database) \in Nat
  BY <1>1, FS_Subset, FS_CardinalityType DEF TypeOK, Serial
<1>3. ASSUME NEW ph
      PROVE  IsFiniteSet(InPhase(ph)) /\ Cardinality(InPhase(ph)) \in Nat
  BY StoreAssumption, FS_Subset, FS_CardinalityType DEF InPhase
<1>4. Unlocked => \A ph : ph # "idle" => InPhase(ph) = {}
  BY DEF Unlocked, InPhase
<1> QED
  BY <1>2, <1>3, <1>4

\* The greatest buffered number is the last one.
LEMMA BufferFacts ==
    ASSUME SInv, purging = {}
    PROVE  /\ Buffered \subseteq DOMAIN database
           /\ LastBuffered \in Nat
           /\ \A n \in Buffered : n <= LastBuffered
           /\ messageBuffer # <<>> => LastBuffered \in Buffered
           /\ GreatestBuffered = LastBuffered
<1> USE DEF SInv
<1>1. Buffered \subseteq DOMAIN database
  BY DEF BufferIsPrefix, Buffered
<1>2. CASE messageBuffer = <<>>
  <2>1. DOMAIN messageBuffer = {}
    BY <1>2
  <2> QED
    BY <1>1, <1>2, <2>1 DEF Buffered, LastBuffered, GreatestBuffered
<1>3. CASE messageBuffer # <<>>
  <2>1. messageBuffer \in Seq([serial : Serial, id : Id])
    BY DEF TypeOK
  <2>2. /\ Len(messageBuffer) \in Nat \ {0}
        /\ DOMAIN messageBuffer = 1..Len(messageBuffer)
    BY <2>1, <1>3
  <2>3. LastBuffered = messageBuffer[Len(messageBuffer)].serial
    BY <1>3 DEF LastBuffered
  <2>4. LastBuffered \in Buffered
    BY <2>2, <2>3 DEF Buffered
  <2>5. Buffered \subseteq Nat
    BY <1>1 DEF TypeOK, Serial
  <2>6. ASSUME NEW i \in DOMAIN messageBuffer
        PROVE  messageBuffer[i].serial <= LastBuffered
    <3>1. messageBuffer[i].serial \in Buffered
      BY DEF Buffered
    <3>2. CASE i = Len(messageBuffer)
      BY <2>3, <2>4, <2>5, <3>2
    <3>3. CASE i # Len(messageBuffer)
      <4>1. i < Len(messageBuffer) /\ Len(messageBuffer) \in DOMAIN messageBuffer
        BY <2>2, <3>3
      <4>2. messageBuffer[i].serial < messageBuffer[Len(messageBuffer)].serial
        BY <4>1 DEF BufferIsPrefix
      <4>3. messageBuffer[i].serial \in Nat /\ LastBuffered \in Nat
        BY <2>4, <2>5, <3>1
      <4> QED
        BY <2>3, <4>2, <4>3
    <3> QED
      BY <3>2, <3>3
  <2>7. \A n \in Buffered : n <= LastBuffered
    BY <2>6 DEF Buffered
  <2>8. \A n \in Buffered :
            (\A k \in Buffered : k <= n) => n = LastBuffered
    BY <2>4, <2>5, <2>7
  <2>9. GreatestBuffered = CHOOSE n \in Buffered : \A k \in Buffered : k <= n
    BY <1>3 DEF GreatestBuffered
  <2>10. GreatestBuffered = LastBuffered
    BY <2>4, <2>7, <2>8, <2>9
  <2> QED
    BY <1>1, <2>4, <2>5, <2>7, <2>10
<1> QED
  BY <1>2, <1>3

-----------------------------------------------------------------------------
(* What hydration loads.                                                   *)

\* The rank of a key grows with the key.
LEMMA RankGrows ==
    ASSUME TypeOK
    PROVE  /\ IsFiniteSet(Found) /\ Found \subseteq Nat
           /\ \A n \in Found : Rank(n) \in 1..Cardinality(Found)
           /\ \A m, n \in Found : m < n => Rank(m) < Rank(n)
<1>1. Found \subseteq DOMAIN database /\ Found \subseteq Nat
  BY DEF Found, TypeOK, Serial
<1>2. IsFiniteSet(Found)
  BY <1>1, FiniteFacts, FS_Subset
<1> DEFINE Upto(n) == {k \in Found : k <= n}
<1>3. ASSUME NEW n \in Found
      PROVE  /\ IsFiniteSet(Upto(n)) /\ Rank(n) = Cardinality(Upto(n))
             /\ Rank(n) \in 1..Cardinality(Found)
  <2>1. IsFiniteSet(Upto(n)) /\ Cardinality(Upto(n)) <= Cardinality(Found)
    BY <1>2, FS_Subset
  <2>2. n \in Upto(n)
    BY <1>1
  <2>3. Cardinality(Upto(n)) # 0
    BY <2>1, <2>2, FS_EmptySet
  <2> QED
    BY <1>2, <2>1, <2>3, FS_CardinalityType DEF Rank
<1>4. ASSUME NEW m \in Found, NEW n \in Found, m < n
      PROVE  Rank(m) < Rank(n)
  <2>1. Upto(m) \in SUBSET Upto(n) /\ n \in Upto(n) /\ n \notin Upto(m)
    BY <1>1, <1>4
  <2>2. /\ Cardinality(Upto(m)) <= Cardinality(Upto(n))
        /\ Cardinality(Upto(n)) # Cardinality(Upto(m))
    BY <1>3, <2>1, FS_Subset
  <2>3. /\ Rank(m) = Cardinality(Upto(m)) /\ Rank(n) = Cardinality(Upto(n))
        /\ Rank(m) \in Nat /\ Rank(n) \in Nat
    BY <1>3, FS_CardinalityType
  <2> QED
    BY <2>2, <2>3
<1> QED
  BY <1>1, <1>2, <1>3, <1>4

\* Every place up to the number of keys is the rank of one of them.
LEMMA RankIsOnto ==
    ASSUME TypeOK, NEW i \in 1..Cardinality(Found)
    PROVE  \E n \in Found : Rank(n) = i
<1>1. /\ IsFiniteSet(Found) /\ Found \subseteq Nat
      /\ Found \in SUBSET (1..MaxMessages)
      /\ Cardinality(Found) \in Nat \ {0} /\ Found # {}
  <2>1. IsFiniteSet(Found) /\ Found \subseteq Nat
    BY RankGrows
  <2>2. Cardinality(Found) \in Nat /\ i \in Nat /\ 1 <= i
    BY <2>1, FS_CardinalityType
  <2> QED
    BY <2>1, <2>2, FS_EmptySet DEF Found, TypeOK, Serial
<1> DEFINE Late == {n \in Found : i <= Rank(n)}
<1>2. Late # {}
  <2>1. PICK g \in Found : \A n \in Found : n <= g
    BY <1>1, StoreAssumption, GreatestExists
  <2>2. {k \in Found : k <= g} = Found
    BY <2>1
  <2>3. Rank(g) = Cardinality(Found)
    BY <2>2 DEF Rank
  <2> QED
    BY <1>1, <2>3
<1>3. PICK n \in Late : \A k \in Late : n <= k
  BY <1>1, <1>2, LeastExists
<1> DEFINE Upto == {k \in Found : k <= n}
<1>4. Rank(n) \in Nat /\ i <= Rank(n) /\ n \in Found /\ Rank(n) = Cardinality(Upto)
  BY <1>3, RankGrows DEF Rank
<1>5. Rank(n) <= i
  <2> SUFFICES ASSUME i < Rank(n) PROVE FALSE
    BY <1>4
  <2>1. IsFiniteSet(Upto)
    BY <1>1, FS_Subset
  <2>2. n \in Upto
    BY <1>1, <1>4
  <2> DEFINE Below == Upto \ {n}
  <2>3. IsFiniteSet(Below) /\ Cardinality(Below) = Rank(n) - 1
    BY <1>4, <2>1, <2>2, FS_RemoveElement
  <2>4. Below # {}
    BY <1>4, <2>3, FS_EmptySet
  <2>5. Below \in SUBSET (1..MaxMessages)
    BY <1>1
  <2>6. PICK g \in Below : \A k \in Below : k <= g
    BY <2>4, <2>5, StoreAssumption, GreatestExists
  <2>7. g \in Found /\ g < n
    BY <1>1, <1>4, <2>6
  <2>8. {k \in Found : k <= g} = Below
    <3>1. ASSUME NEW k \in Found, k <= g PROVE k \in Below
      <4>1. k \in Nat /\ g \in Nat /\ n \in Nat
        BY <1>1, <1>4, <2>7
      <4> QED
        BY <2>7, <3>1, <4>1
    <3> QED
      BY <2>6, <3>1
  <2>9. Rank(g) = Rank(n) - 1
    BY <2>3, <2>8 DEF Rank
  <2>10. g \in Late
    BY <1>4, <2>7, <2>9
  <2> QED
    BY <1>1, <1>3, <2>7, <2>10
<1> QED
  BY <1>4, <1>5

\* The keys that are loaded: in order, and every other one is greater.
LEMMA LoadedFacts ==
    ASSUME SInv
    PROVE  /\ Loaded \in Seq([serial : Serial, id : Id])
           /\ \A i \in 1..Len(Loaded) :
                  /\ Loaded[i].serial \in Found
                  /\ Loaded[i].id = database[Loaded[i].serial]
           /\ \A i, j \in 1..Len(Loaded) :
                  i < j => Loaded[i].serial < Loaded[j].serial
           /\ \A n \in Found : n \notin {Loaded[i].serial : i \in 1..Len(Loaded)} =>
                  /\ Len(Loaded) # 0
                  /\ \A i \in 1..Len(Loaded) : Loaded[i].serial < n
<1> DEFINE count == IF Cardinality(Found) < BufferSize
                    THEN Cardinality(Found) ELSE BufferSize
           key(i) == CHOOSE n \in Found : Rank(n) = i
<1>1. /\ count \in Nat /\ count <= Cardinality(Found)
      /\ Cardinality(Found) \in Nat
      /\ Found # {} => count # 0
  <2>1. Cardinality(Found) \in Nat /\ (Found # {} => Cardinality(Found) # 0)
    BY RankGrows, FS_CardinalityType, FS_EmptySet DEF SInv
  <2> QED
    BY <2>1, StoreAssumption
<1>2. ASSUME NEW i \in 1..count PROVE key(i) \in Found /\ Rank(key(i)) = i
  <2>1. i \in 1..Cardinality(Found)
    BY <1>1
  <2>2. \E n \in Found : Rank(n) = i
    BY <2>1, RankIsOnto DEF SInv
  <2> QED
    BY <2>2
<1>3. Loaded = [i \in 1..count |-> [serial |-> key(i), id |-> database[key(i)]]]
  BY DEF Loaded
<1>4. Found \subseteq DOMAIN database /\ DOMAIN database \subseteq Serial
  BY DEF Found, SInv, TypeOK
<1> HIDE DEF count, key
<1>5. \A i \in 1..count :
        [serial |-> key(i), id |-> database[key(i)]] \in [serial : Serial, id : Id]
  BY <1>2, <1>4 DEF SInv, DatabaseIsFunction
<1>6. /\ Loaded \in Seq([serial : Serial, id : Id])
      /\ Len(Loaded) = count
  BY <1>1, <1>3, <1>5
<1>7. \A i \in 1..count : Loaded[i].serial = key(i)
                          /\ Loaded[i].id = database[key(i)]
  BY <1>3
<1>8. ASSUME NEW m \in Found, NEW n \in Found, Rank(m) < Rank(n)
      PROVE  m < n
  <2>1. m \in Nat /\ n \in Nat /\ Rank(m) \in Nat /\ Rank(n) \in Nat
    BY RankGrows DEF SInv
  <2>2. m # n
    BY <1>8, <2>1
  <2>3. ~ (n < m)
    BY <1>8, <2>1, RankGrows DEF SInv
  <2> QED
    BY <2>1, <2>2, <2>3
<1>9. \A i, j \in 1..count : i < j => key(i) < key(j)
  BY <1>2, <1>8
<1>10. ASSUME NEW n \in Found, \A i \in 1..count : n # key(i)
       PROVE  count # 0 /\ \A i \in 1..count : key(i) < n
  <2>1. Rank(n) \in 1..Cardinality(Found)
    BY RankGrows DEF SInv
  <2>2. ASSUME NEW i \in 1..count PROVE Rank(n) # i
    <3>1. SUFFICES ASSUME Rank(n) = Rank(key(i)) PROVE FALSE
      BY <1>2
    <3>2. n \in Nat /\ key(i) \in Nat /\ n # key(i) /\ key(i) \in Found
      BY <1>2, <1>10, RankGrows DEF SInv
    <3>3. Rank(n) \in Nat
      BY <2>1
    <3> QED
      BY <3>1, <3>2, <3>3, RankGrows DEF SInv
  <2>3. Rank(n) > count
    BY <1>1, <2>1, <2>2
  <2>4. ASSUME NEW i \in 1..count PROVE key(i) < n
    <3>1. Rank(key(i)) < Rank(n) /\ key(i) \in Found
      BY <1>1, <1>2, <2>1, <2>3
    <3> QED
      BY <1>8, <3>1
  <2> QED
    BY <1>1, <2>4
<1> QED
  BY <1>2, <1>6, <1>7, <1>9, <1>10

-----------------------------------------------------------------------------
(* Enqueue.                                                                *)

\* What a step that changes one producer leaves alone.
LEMMA OneProducer ==
    ASSUME SInv, NEW p \in Producer, NEW r,
           r \in [phase : Phase, serial : Serial \cup {0}, id : Id \cup {0}],
           producer' = [producer EXCEPT ![p] = r]
    PROVE  /\ producer' \in [Producer -> [phase : Phase, serial : Serial \cup {0},
                                          id : Id \cup {0}]]
           /\ producer'[p] = r
           /\ \A q \in Producer : q # p => producer'[q] = producer[q]
           /\ \A ph : InPhase(ph)' = IF r.phase = ph THEN InPhase(ph) \cup {p}
                                     ELSE InPhase(ph) \ {p}
  BY DEF SInv, TypeOK, InPhase

LEMMA TakeReadLockKeeps ==
    ASSUME SInv, NEW p \in Producer, TakeReadLock(p)
    PROVE  SInv'
<1> DEFINE r == [phase |-> "locked", serial |-> 0, id |-> sent + 1]
<1> USE DEF SInv
<1>1. /\ sent \in Nat /\ sent' = sent + 1 /\ sent' \in 0..MaxMessages
      /\ sent + 1 \in Id /\ isUp /\ purging = {} /\ producer[p].phase = "idle"
      /\ UNCHANGED <<database, queueVars, restarts, accepted, removed>>
      /\ earlier' = [earlier EXCEPT ![sent + 1] = accepted \ removed]
      /\ producer' = [producer EXCEPT ![p] = r]
  BY StoreAssumption DEF TakeReadLock, TypeOK, Id
<1>2. r \in [phase : Phase, serial : Serial \cup {0}, id : Id \cup {0}]
  BY <1>1 DEF Phase
<1> HIDE DEF r
<1>3. /\ producer' \in [Producer -> [phase : Phase, serial : Serial \cup {0},
                                     id : Id \cup {0}]]
      /\ producer'[p] = r
      /\ \A q \in Producer : q # p => producer'[q] = producer[q]
      /\ \A ph : InPhase(ph)' = IF r.phase = ph THEN InPhase(ph) \cup {p}
                                ELSE InPhase(ph) \ {p}
  BY <1>1, <1>2, OneProducer
<1> USE DEF r
<1>4. TypeOK'
  BY <1>1, <1>3 DEF TypeOK, Stored, queueVars, history
<1>5. DatabaseIsFunction'
  BY <1>1 DEF DatabaseIsFunction
<1>6. MemoryIsLost'
  BY <1>1 DEF MemoryIsLost, queueVars
<1>7. NumbersAreIssued'
  <2>1. InPhase("locked")' = InPhase("locked") \cup {p}
    BY <1>3
  <2>2. p \notin InPhase("locked")
    BY <1>1 DEF InPhase
  <2>3. /\ Cardinality(InPhase("locked")') = Cardinality(InPhase("locked")) + 1
        /\ Cardinality(InPhase("locked")) \in Nat
    BY <2>1, <2>2, FiniteFacts, FS_AddElement
  <2>4. lastSerialNumber \in Nat
    BY DEF TypeOK
  <2>5. DOMAIN database \subseteq 1..(sent + 1)
    BY <1>1 DEF NumbersAreIssued
  <2> QED
    BY <1>1, <2>3, <2>4, <2>5 DEF NumbersAreIssued, queueVars
<1>8. NumbersAreApart'
  BY <1>1, <1>3 DEF NumbersAreApart, Numbered, Buffered, queueVars
<1>9. PurgeIsAlone'
  BY <1>1 DEF PurgeIsAlone, queueVars
<1>10. DepthTracksDatabase'
  <2>1. InPhase("stored")' = InPhase("stored")
    BY <1>1, <1>3 DEF InPhase
  <2> QED
    BY <1>1, <2>1 DEF DepthTracksDatabase, InPhase, queueVars
<1>11. BufferIsPrefix' /\ AcceptedIsStored'
  BY <1>1 DEF BufferIsPrefix, Buffered, LastBuffered, AcceptedIsStored, Stored,
              queueVars, history
<1> QED
  BY <1>4, <1>5, <1>6, <1>7, <1>8, <1>9, <1>10, <1>11

\* The call throws: the producer lets go of the lock and, if it had one, of
\* its number.
LEMMA GiveUpKeeps ==
    ASSUME SInv, NEW p \in Producer,
           DatabaseClosed(p) \/ StoreFails(p)
    PROVE  SInv'
<1> USE DEF SInv
<1>1. /\ UNCHANGED <<database, queueVars, sent, restarts, history>>
      /\ producer' = [producer EXCEPT ![p] = IdleProducer]
      /\ producer[p].phase \in {"locked", "numbered"}
  BY DEF DatabaseClosed, StoreFails
<1>2. /\ IdleProducer \in [phase : Phase, serial : Serial \cup {0}, id : Id \cup {0}]
      /\ IdleProducer.phase = "idle"
  BY DEF IdleProducer, Phase
<1>3. /\ producer' \in [Producer -> [phase : Phase, serial : Serial \cup {0},
                                     id : Id \cup {0}]]
      /\ producer'[p] = IdleProducer
      /\ \A q \in Producer : q # p => producer'[q] = producer[q]
      /\ \A ph : InPhase(ph)' = IF IdleProducer.phase = ph THEN InPhase(ph) \cup {p}
                                ELSE InPhase(ph) \ {p}
  BY <1>1, <1>2, OneProducer
<1>4. TypeOK'
  BY <1>1, <1>3 DEF TypeOK, Stored, queueVars, history
<1>5. DatabaseIsFunction'
  BY <1>1 DEF DatabaseIsFunction
<1>6. MemoryIsLost'
  BY <1>1, <1>2, <1>3 DEF MemoryIsLost, Unlocked, queueVars
<1>7. NumbersAreIssued'
  <2>1. InPhase("locked")' \in SUBSET InPhase("locked")
    BY <1>2, <1>3
  <2>2. /\ Cardinality(InPhase("locked")') <= Cardinality(InPhase("locked"))
        /\ Cardinality(InPhase("locked")') \in Nat
        /\ Cardinality(InPhase("locked")) \in Nat
    BY <2>1, FiniteFacts, FS_Subset, FS_CardinalityType
  <2> QED
    BY <1>1, <2>2 DEF NumbersAreIssued, queueVars, TypeOK
<1>8. NumbersAreApart'
  BY <1>1, <1>2, <1>3 DEF NumbersAreApart, Numbered, Buffered, queueVars
<1>9. PurgeIsAlone'
  BY <1>1, <1>2, <1>3 DEF PurgeIsAlone, Unlocked, queueVars
<1>10. DepthTracksDatabase'
  <2>1. InPhase("stored")' = InPhase("stored")
    BY <1>1, <1>2, <1>3 DEF InPhase
  <2> QED
    BY <1>1, <2>1 DEF DepthTracksDatabase, InPhase, queueVars
<1>11. BufferIsPrefix' /\ AcceptedIsStored'
  BY <1>1 DEF BufferIsPrefix, Buffered, LastBuffered, AcceptedIsStored, Stored,
              queueVars, history
<1> QED
  BY <1>4, <1>5, <1>6, <1>7, <1>8, <1>9, <1>10, <1>11

\* The new number is above every key there is and belongs to nobody else.
LEMMA GetNextSerialNumberKeeps ==
    ASSUME SInv, NEW p \in Producer, GetNextSerialNumber(p)
    PROVE  SInv'
<1> DEFINE number == lastSerialNumber + 1
           r == [producer[p] EXCEPT !.phase = "numbered", !.serial = number]
<1> USE DEF SInv
<1>1. /\ producer[p].phase = "locked" /\ lastSerialNumber' = number
      /\ producer' = [producer EXCEPT ![p].phase = "numbered",
                                      ![p].serial = number]
      /\ UNCHANGED <<database, messageBuffer, queueDepth, isOpen, isUp,
                     attemptBufferRehydration, served, purging, sent, restarts,
                     accepted, earlier,
                     removed>>
  BY DEF GetNextSerialNumber, TakeNumber, history
<1>2. /\ producer \in [Producer -> [phase : Phase, serial : Serial \cup {0},
                                    id : Id \cup {0}]]
      /\ lastSerialNumber \in Nat /\ sent \in Nat /\ sent <= MaxMessages
      /\ MaxMessages \in Nat
  BY StoreAssumption DEF TypeOK
<1>3. producer' = [producer EXCEPT ![p] = r]
  BY <1>1, <1>2
<1>4. isUp /\ purging = {} /\ producer[p].id \in Id
  <2>1. ~Unlocked
    BY <1>1 DEF Unlocked
  <2> QED
    BY <1>1, <2>1 DEF MemoryIsLost, PurgeIsAlone, NumbersAreApart
<1>5. /\ Cardinality(InPhase("locked")) \in Nat
      /\ Cardinality(InPhase("locked") \ {p}) = Cardinality(InPhase("locked")) - 1
      /\ Cardinality(InPhase("locked") \ {p}) \in Nat
  <2>1. p \in InPhase("locked")
    BY <1>1 DEF InPhase
  <2> QED
    BY <2>1, FiniteFacts, FS_RemoveElement, FS_CardinalityType
<1>6. number \in 1..sent /\ number \in Serial
  BY <1>2, <1>5 DEF NumbersAreIssued, Serial
<1>7. /\ DOMAIN database \subseteq 1..lastSerialNumber
      /\ Buffered \subseteq DOMAIN database
  BY <1>4, BufferFacts DEF NumbersAreIssued
<1>8. r \in [phase : Phase, serial : Serial \cup {0}, id : Id \cup {0}]
  BY <1>2, <1>6 DEF Phase
<1>9. /\ r.phase = "numbered" /\ r.serial = number /\ r.id = producer[p].id
      /\ number \in Nat /\ lastSerialNumber < number
  BY <1>2
<1> HIDE DEF r, number
<1>10. /\ producer' \in [Producer -> [phase : Phase, serial : Serial \cup {0},
                                      id : Id \cup {0}]]
       /\ producer'[p] = r
       /\ \A q \in Producer : q # p => producer'[q] = producer[q]
       /\ \A ph : InPhase(ph)' = IF r.phase = ph THEN InPhase(ph) \cup {p}
                                 ELSE InPhase(ph) \ {p}
  BY <1>3, <1>8, OneProducer
<1>11. TypeOK'
  BY <1>1, <1>6, <1>10 DEF TypeOK, Stored, Serial
<1>12. DatabaseIsFunction' /\ MemoryIsLost' /\ PurgeIsAlone'
  BY <1>1, <1>4 DEF DatabaseIsFunction, MemoryIsLost, PurgeIsAlone
<1>13. NumbersAreIssued'
  <2>1. InPhase("locked")' = InPhase("locked") \ {p}
    BY <1>9, <1>10
  <2>2. lastSerialNumber' = lastSerialNumber + 1
    BY <1>1 DEF number
  <2>3. DOMAIN database \subseteq 1..(lastSerialNumber + 1)
    BY <1>2, <1>7
  <2>4. lastSerialNumber + Cardinality(InPhase("locked")) <= sent
    BY DEF NumbersAreIssued
  <2>5. Cardinality(InPhase("locked")') = Cardinality(InPhase("locked")) - 1
    BY <1>5, <2>1
  <2>6. lastSerialNumber' + Cardinality(InPhase("locked")') <= sent
    BY <1>2, <1>5, <2>2, <2>4, <2>5
  <2> QED
    BY <1>1, <2>2, <2>3, <2>6 DEF NumbersAreIssued
<1>14. NumbersAreApart'
  <2>1. \A n \in Buffered : n < number
    BY <1>2, <1>7, <1>9
  <2>2. 1..lastSerialNumber \subseteq 1..number /\ number \in 1..number
    BY <1>2, <1>6, <1>9
  <2>3. \A q \in Producer : q # p /\ Numbered(q) => producer[q].serial # number
    BY <1>2, <1>9 DEF NumbersAreApart
  <2>4. number \notin DOMAIN database
    BY <1>2, <1>7, <1>9
  <2> QED
    BY <1>1, <1>4, <1>9, <1>10, <2>1, <2>2, <2>3, <2>4
       DEF NumbersAreApart, Numbered, Buffered
<1>15. DepthTracksDatabase'
  <2>1. InPhase("stored")' = InPhase("stored")
    BY <1>1, <1>9, <1>10 DEF InPhase
  <2> QED
    BY <1>1, <2>1 DEF DepthTracksDatabase, InPhase
<1>16. BufferIsPrefix' /\ AcceptedIsStored'
  BY <1>1 DEF BufferIsPrefix, Buffered, LastBuffered, AcceptedIsStored, Stored
<1> QED
  BY <1>11, <1>12, <1>13, <1>14, <1>15, <1>16

\* The message is stored under a free key above the buffer.
LEMMA StoreKeeps ==
    ASSUME SInv, NEW p \in Producer, Store(p)
    PROVE  SInv'
<1> DEFINE n == producer[p].serial
           r == [producer[p] EXCEPT !.phase = "stored"]
<1> USE DEF SInv
<1>1. /\ producer[p].phase = "numbered"
      /\ database' = With(database, n, producer[p].id)
      /\ producer' = [producer EXCEPT ![p].phase = "stored"]
      /\ UNCHANGED <<queueVars, sent, restarts, history>>
  BY DEF Store
<1>2. producer \in [Producer -> [phase : Phase, serial : Serial \cup {0},
                                 id : Id \cup {0}]]
  BY DEF TypeOK
<1>3. producer' = [producer EXCEPT ![p] = r]
  BY <1>1, <1>2
<1>4. isUp /\ purging = {}
  <2>1. ~Unlocked
    BY <1>1 DEF Unlocked
  <2> QED
    BY <2>1 DEF MemoryIsLost, PurgeIsAlone
<1>5. /\ n \in 1..lastSerialNumber /\ \A k \in Buffered : k < n
      /\ n \notin DOMAIN database /\ producer[p].id \in Id
      /\ \A q \in Producer : q # p /\ Numbered(q) => producer[q].serial # n
  BY <1>1 DEF NumbersAreApart, Numbered
<1>6. /\ lastSerialNumber \in Nat /\ sent \in Nat /\ lastSerialNumber <= sent
      /\ sent <= MaxMessages /\ MaxMessages \in Nat
  <2>1. Cardinality(InPhase("locked")) \in Nat
    BY FiniteFacts
  <2> QED
    BY <2>1, StoreAssumption DEF TypeOK, NumbersAreIssued
<1>7. n \in 1..sent /\ n \in Serial /\ n \in Nat /\ n > 0
  BY <1>5, <1>6 DEF Serial
<1>8. /\ r \in [phase : Phase, serial : Serial \cup {0}, id : Id \cup {0}]
      /\ r.phase = "stored" /\ r.serial = n /\ r.id = producer[p].id
  BY <1>2 DEF Phase
<1> HIDE DEF r, n
<1>9. /\ producer' \in [Producer -> [phase : Phase, serial : Serial \cup {0},
                                     id : Id \cup {0}]]
      /\ producer'[p] = r
      /\ \A q \in Producer : q # p => producer'[q] = producer[q]
      /\ \A ph : InPhase(ph)' = IF r.phase = ph THEN InPhase(ph) \cup {p}
                                ELSE InPhase(ph) \ {p}
  BY <1>3, <1>8, OneProducer
<1>10. /\ DOMAIN database' = DOMAIN database \cup {n}
       /\ database'[n] = producer[p].id
       /\ \A k \in DOMAIN database : database'[k] = database[k]
       /\ database' \in [DOMAIN database' -> Id]
  <2>1. database' = [k \in DOMAIN database \cup {n} |->
                        IF k = n THEN producer[p].id ELSE database[k]]
    BY <1>1 DEF With
  <2>2. \A k \in DOMAIN database : database[k] \in Id
    BY DEF DatabaseIsFunction
  <2> QED
    BY <1>5, <2>1, <2>2
<1>11. UNCHANGED <<messageBuffer, queueDepth, lastSerialNumber, isOpen, isUp,
                   attemptBufferRehydration, served, purging, sent, restarts, accepted,
                   earlier, removed>>
  BY <1>1 DEF queueVars, history
<1>12. TypeOK'
  BY <1>7, <1>9, <1>10, <1>11 DEF TypeOK, Stored
<1>13. DatabaseIsFunction' /\ MemoryIsLost' /\ PurgeIsAlone'
  BY <1>4, <1>10, <1>11 DEF DatabaseIsFunction, MemoryIsLost, PurgeIsAlone
<1>14. NumbersAreIssued'
  <2>1. InPhase("locked")' = InPhase("locked")
    BY <1>1, <1>8, <1>9 DEF InPhase
  <2>2. DOMAIN database' \subseteq 1..sent /\ DOMAIN database' \subseteq 1..lastSerialNumber
    BY <1>4, <1>5, <1>7, <1>10 DEF NumbersAreIssued
  <2>3. lastSerialNumber + Cardinality(InPhase("locked")) <= sent
    BY DEF NumbersAreIssued
  <2> QED
    BY <1>11, <2>1, <2>2, <2>3 DEF NumbersAreIssued
<1>15. NumbersAreApart'
  <2>1. Buffered' = Buffered
    BY <1>11 DEF Buffered
  <2>2. ASSUME NEW q \in Producer, Numbered(q)'
        PROVE  /\ Numbered(q) /\ producer'[q].serial = producer[q].serial
               /\ producer'[q].serial \in 1..lastSerialNumber
               /\ \A k \in Buffered : k < producer'[q].serial
    <3>1. CASE q = p
      BY <1>1, <1>5, <1>8, <1>9, <3>1 DEF Numbered, n
    <3>2. CASE q # p
      BY <1>9, <2>2, <3>2 DEF Numbered, NumbersAreApart
    <3> QED
      BY <3>1, <3>2
  <2>3. \A q, s \in Producer : Numbered(q)' /\ Numbered(s)' /\ q # s =>
            producer'[q].serial # producer'[s].serial
    BY <2>2 DEF NumbersAreApart
  <2>4. ASSUME NEW q \in Producer, producer'[q].phase = "numbered"
        PROVE  producer'[q].serial \notin DOMAIN database'
    <3>1. q # p /\ producer'[q] = producer[q]
      BY <1>8, <1>9, <2>4
    <3>2. Numbered(q) /\ producer[q].serial \notin DOMAIN database
      BY <2>4, <3>1 DEF Numbered, NumbersAreApart
    <3> QED
      BY <1>5, <1>10, <3>1, <3>2
  <2>5. ASSUME NEW q \in Producer, producer'[q].phase = "stored"
        PROVE  /\ producer'[q].serial \in DOMAIN database'
               /\ database'[producer'[q].serial] = producer'[q].id
    <3>1. CASE q = p
      BY <1>8, <1>9, <1>10, <3>1
    <3>2. CASE q # p
      <4>1. producer'[q] = producer[q] /\ producer[q].phase = "stored"
        BY <1>9, <2>5, <3>2
      <4>2. /\ producer[q].serial \in DOMAIN database
            /\ database[producer[q].serial] = producer[q].id
        BY <4>1 DEF NumbersAreApart
      <4> QED
        BY <1>10, <4>1, <4>2
    <3> QED
      BY <3>1, <3>2
  <2>6. ASSUME NEW q \in Producer, producer'[q].phase # "idle"
        PROVE  producer'[q].id \in Id
    BY <1>5, <1>8, <1>9, <2>6 DEF NumbersAreApart
  <2> QED
    BY <1>11, <2>1, <2>2, <2>3, <2>4, <2>5, <2>6 DEF NumbersAreApart
<1>16. DepthTracksDatabase'
  <2>1. InPhase("stored")' = InPhase("stored") \cup {p} /\ p \notin InPhase("stored")
    BY <1>1, <1>8, <1>9 DEF InPhase
  <2>2. /\ Cardinality(InPhase("stored")') = Cardinality(InPhase("stored")) + 1
        /\ Cardinality(InPhase("stored")) \in Nat
    BY <2>1, FiniteFacts, FS_AddElement
  <2>3. Cardinality(DOMAIN database') = Cardinality(DOMAIN database) + 1
    BY <1>5, <1>10, FiniteFacts, FS_AddElement
  <2>4. queueDepth + Cardinality(InPhase("stored")) = Cardinality(DOMAIN database)
    BY <1>4 DEF DepthTracksDatabase, InPhase
  <2>5. queueDepth + Cardinality(InPhase("stored")') = Cardinality(DOMAIN database')
    BY <2>2, <2>3, <2>4 DEF TypeOK
  <2> QED
    BY <1>11, <2>5 DEF DepthTracksDatabase, InPhase
<1>17. BufferIsPrefix'
  <2>1. Buffered' = Buffered /\ LastBuffered' = LastBuffered
    BY <1>11 DEF Buffered, LastBuffered
  <2>2. n > LastBuffered
    <3>1. CASE messageBuffer = <<>>
      BY <1>7, <3>1 DEF LastBuffered
    <3>2. CASE messageBuffer # <<>>
      BY <1>4, <1>5, <1>7, <3>2, BufferFacts
    <3> QED
      BY <3>1, <3>2
  <2>3. \A k \in DOMAIN database' \ Buffered : k > LastBuffered
    BY <1>4, <1>10, <2>2 DEF BufferIsPrefix
  <2>4. \A i \in DOMAIN messageBuffer :
            /\ messageBuffer[i].serial \in DOMAIN database'
            /\ database'[messageBuffer[i].serial] = messageBuffer[i].id
    BY <1>4, <1>10 DEF BufferIsPrefix
  <2>5. \A i, j \in DOMAIN messageBuffer :
            i < j => messageBuffer[i].serial < messageBuffer[j].serial
    BY <1>4 DEF BufferIsPrefix
  <2> QED
    BY <1>11, <2>1, <2>3, <2>4, <2>5 DEF BufferIsPrefix
<1>18. AcceptedIsStored'
  <2>1. Stored \subseteq Stored'
    BY <1>10 DEF Stored
  <2> QED
    BY <1>11, <2>1 DEF AcceptedIsStored
<1> QED
  BY <1>12, <1>13, <1>14, <1>15, <1>16, <1>17, <1>18

\* The message that is counted and reported is in the database.
LEMMA CountAndReturnKeeps ==
    ASSUME SInv, NEW p \in Producer, CountAndReturn(p)
    PROVE  SInv'
<1> USE DEF SInv
<1>1. /\ producer[p].phase = "stored" /\ queueDepth' = queueDepth + 1
      /\ producer' = [producer EXCEPT ![p] = IdleProducer]
      /\ accepted' = accepted \cup {producer[p].id}
      /\ UNCHANGED <<database, messageBuffer, lastSerialNumber, isOpen, isUp,
                     attemptBufferRehydration, served, purging, sent, restarts, earlier,
                     removed>>
  BY DEF CountAndReturn
<1>2. /\ IdleProducer \in [phase : Phase, serial : Serial \cup {0}, id : Id \cup {0}]
      /\ IdleProducer.phase = "idle"
  BY DEF IdleProducer, Phase
<1>3. /\ producer' \in [Producer -> [phase : Phase, serial : Serial \cup {0},
                                     id : Id \cup {0}]]
      /\ producer'[p] = IdleProducer
      /\ \A q \in Producer : q # p => producer'[q] = producer[q]
      /\ \A ph : InPhase(ph)' = IF IdleProducer.phase = ph THEN InPhase(ph) \cup {p}
                                ELSE InPhase(ph) \ {p}
  BY <1>1, <1>2, OneProducer
<1>4. /\ producer[p].id \in Id /\ producer[p].serial \in DOMAIN database
      /\ database[producer[p].serial] = producer[p].id
  BY <1>1 DEF NumbersAreApart
<1>5. isUp /\ purging = {}
  <2>1. ~Unlocked
    BY <1>1 DEF Unlocked
  <2> QED
    BY <2>1 DEF MemoryIsLost, PurgeIsAlone
<1>6. TypeOK'
  BY <1>1, <1>3, <1>4 DEF TypeOK, Stored
<1>7. DatabaseIsFunction' /\ MemoryIsLost' /\ PurgeIsAlone'
  BY <1>1, <1>5 DEF DatabaseIsFunction, MemoryIsLost, PurgeIsAlone
<1>8. NumbersAreIssued'
  <2>1. InPhase("locked")' = InPhase("locked")
    BY <1>1, <1>2, <1>3 DEF InPhase
  <2> QED
    BY <1>1, <2>1 DEF NumbersAreIssued
<1>9. NumbersAreApart'
  BY <1>1, <1>2, <1>3 DEF NumbersAreApart, Numbered, Buffered
<1>10. DepthTracksDatabase'
  <2>1. InPhase("stored")' = InPhase("stored") \ {p} /\ p \in InPhase("stored")
    BY <1>1, <1>2, <1>3 DEF InPhase
  <2>2. /\ Cardinality(InPhase("stored")') = Cardinality(InPhase("stored")) - 1
        /\ Cardinality(InPhase("stored")) \in Nat
    BY <2>1, FiniteFacts, FS_RemoveElement
  <2>3. queueDepth + Cardinality(InPhase("stored")) = Cardinality(DOMAIN database)
    BY <1>5 DEF DepthTracksDatabase, InPhase
  <2>4. queueDepth' + Cardinality(InPhase("stored")') = Cardinality(DOMAIN database)
    BY <1>1, <2>2, <2>3 DEF TypeOK
  <2> QED
    BY <1>1, <2>4 DEF DepthTracksDatabase, InPhase
<1>11. BufferIsPrefix'
  BY <1>1 DEF BufferIsPrefix, Buffered, LastBuffered
<1>12. AcceptedIsStored'
  <2>1. producer[p].id \in Stored
    BY <1>4 DEF Stored
  <2> QED
    BY <1>1, <2>1 DEF AcceptedIsStored, Stored
<1> QED
  BY <1>6, <1>7, <1>8, <1>9, <1>10, <1>11, <1>12

-----------------------------------------------------------------------------
(* The delivery thread.                                                    *)

\* Asking for hydration and closing the database touch nothing the invariant
\* relates.
LEMMA FlagsKeep ==
    ASSUME SInv,
           UNCHANGED <<database, messageBuffer, queueDepth, lastSerialNumber,
                       isUp, purging, producer, sent, restarts, accepted, earlier,
                     removed>>,
           isOpen' \in BOOLEAN, attemptBufferRehydration' \in BOOLEAN,
           served' \in BOOLEAN,
           isUp \/ ~attemptBufferRehydration'
    PROVE  SInv'
<1> USE DEF SInv
<1>1. TypeOK' /\ DatabaseIsFunction' /\ MemoryIsLost' /\ PurgeIsAlone'
  BY DEF TypeOK, Stored, DatabaseIsFunction, MemoryIsLost, Unlocked, PurgeIsAlone
<1>2. NumbersAreIssued' /\ NumbersAreApart'
  BY DEF NumbersAreIssued, InPhase, NumbersAreApart, Numbered, Buffered
<1>3. DepthTracksDatabase' /\ BufferIsPrefix' /\ AcceptedIsStored'
  BY DEF DepthTracksDatabase, BufferIsPrefix, Buffered, LastBuffered,
         AcceptedIsStored, Stored
<1> QED
  BY <1>1, <1>2, <1>3

LEMMA FlagStepsKeep ==
    ASSUME SInv,
           \/ ServedChanges \/ AskForHydration \/ HydrationTimesOut
           \/ CloseDatabase
    PROVE  SInv'
<1>1. /\ UNCHANGED <<database, messageBuffer, queueDepth, lastSerialNumber,
                     isUp, purging, producer, sent, restarts, accepted, earlier,
                     removed>>
      /\ isOpen' \in BOOLEAN /\ attemptBufferRehydration' \in BOOLEAN
      /\ served' \in BOOLEAN
      /\ isUp \/ ~attemptBufferRehydration'
  BY DEF ServedChanges, AskForHydration, HydrationTimesOut, CloseDatabase, history,
         SInv, TypeOK
<1> QED
  BY <1>1, FlagsKeep

\* A step under the lock held alone that leaves the producers alone: they are
\* all idle.
LEMMA ProducersIdle ==
    ASSUME SInv, Unlocked, producer' = producer,
           UNCHANGED <<lastSerialNumber, isUp, sent>>,
           isUp, DOMAIN database' \subseteq DOMAIN database
    PROVE  /\ Unlocked' /\ NumbersAreIssued' /\ NumbersAreApart'
           /\ InPhase("stored")' = {} /\ InPhase("stored") = {}
<1> USE DEF SInv
<1>1. Unlocked' /\ InPhase("stored")' = {} /\ InPhase("stored") = {}
  BY DEF Unlocked, InPhase
<1>2. NumbersAreIssued'
  BY DEF NumbersAreIssued, InPhase
<1>3. NumbersAreApart'
  BY DEF Unlocked, NumbersAreApart, Numbered
<1> QED
  BY <1>1, <1>2, <1>3

\* Hydration appends the first keys above the buffer.
LEMMA HydrateKeeps ==
    ASSUME SInv, HydrateMessageBuffer
    PROVE  SInv'
<1> USE DEF SInv
<1>1. /\ isUp /\ Unlocked /\ purging = {}
      /\ messageBuffer' = messageBuffer \o Loaded
      /\ attemptBufferRehydration' = FALSE /\ served' = served
      /\ UNCHANGED <<database, queueDepth, lastSerialNumber, isOpen, isUp,
                     purging, producer, sent, restarts, accepted, earlier,
                     removed>>
  BY DEF HydrateMessageBuffer, WriteLockFree, history
<1> DEFINE len == Len(messageBuffer)
           new == Len(Loaded)
<1>2. messageBuffer \in Seq([serial : Serial, id : Id]) /\ len \in Nat
  BY DEF TypeOK
<1>3. Loaded \in Seq([serial : Serial, id : Id]) /\ new \in Nat
  BY LoadedFacts
<1>4. /\ messageBuffer' \in Seq([serial : Serial, id : Id])
      /\ Len(messageBuffer') = len + new
      /\ DOMAIN messageBuffer' = 1..(len + new)
      /\ \A i \in 1..len : messageBuffer'[i] = messageBuffer[i]
      /\ \A i \in 1..new : messageBuffer'[len + i] = Loaded[i]
      /\ DOMAIN messageBuffer = 1..len
  BY <1>1, <1>2, <1>3
<1> HIDE DEF len, new
<1>5. TypeOK' /\ DatabaseIsFunction' /\ MemoryIsLost' /\ PurgeIsAlone'
  BY <1>1, <1>4 DEF TypeOK, Stored, DatabaseIsFunction, MemoryIsLost, PurgeIsAlone
<1>6. NumbersAreIssued' /\ NumbersAreApart'
  BY <1>1, ProducersIdle
<1>7. DepthTracksDatabase' /\ AcceptedIsStored'
  BY <1>1 DEF DepthTracksDatabase, AcceptedIsStored, Stored
<1>8. \A n \in Found : n \in DOMAIN database /\ n \in Nat /\ n > LastBuffered
  BY <1>1, BufferFacts, RankGrows DEF Found, AboveBuffer
<1>9. ASSUME NEW i \in 1..(len + new)
      PROVE  \/ /\ i \in 1..len
                /\ messageBuffer'[i] = messageBuffer[i]
             \/ \E k \in 1..new : i = len + k /\ messageBuffer'[i] = Loaded[k]
  <2>1. CASE i <= len
    BY <1>2, <1>4, <2>1 DEF len
  <2>2. CASE ~(i <= len)
    <3>1. i - len \in 1..new /\ i = len + (i - len)
      BY <1>2, <1>3, <2>2 DEF len, new
    <3> QED
      BY <1>4, <3>1
  <2> QED
    BY <2>1, <2>2
<1>10. ASSUME NEW i \in 1..len
       PROVE  /\ messageBuffer[i].serial \in DOMAIN database
              /\ database[messageBuffer[i].serial] = messageBuffer[i].id
              /\ messageBuffer[i].serial \in Nat
              /\ messageBuffer[i].serial <= LastBuffered
  <2>1. /\ messageBuffer[i].serial \in DOMAIN database
        /\ database[messageBuffer[i].serial] = messageBuffer[i].id
    BY <1>1, <1>4 DEF BufferIsPrefix
  <2>2. messageBuffer[i].serial \in Buffered
    BY <1>4 DEF Buffered
  <2> QED
    BY <1>1, <2>1, <2>2, BufferFacts DEF TypeOK, Serial
<1>11. ASSUME NEW k \in 1..new
       PROVE  /\ Loaded[k].serial \in Found
              /\ Loaded[k].serial \in DOMAIN database
              /\ database[Loaded[k].serial] = Loaded[k].id
              /\ Loaded[k].serial > LastBuffered
              /\ Loaded[k].serial \in Nat
  BY <1>8, LoadedFacts DEF new
<1>12. LastBuffered \in Nat
  BY <1>1, BufferFacts
<1>13. ASSUME NEW i \in DOMAIN messageBuffer', NEW j \in DOMAIN messageBuffer', i < j
       PROVE  messageBuffer'[i].serial < messageBuffer'[j].serial
  <2>1. i \in 1..(len + new) /\ j \in 1..(len + new)
    BY <1>4
  <2>2. CASE i \in 1..len /\ j \in 1..len
    BY <1>1, <1>4, <1>13, <2>2 DEF BufferIsPrefix
  <2>3. ASSUME i \in 1..len,
               NEW l \in 1..new, j = len + l, messageBuffer'[j] = Loaded[l]
        PROVE  messageBuffer'[i].serial < messageBuffer'[j].serial
    BY <1>4, <1>10, <1>11, <1>12, <2>3
  <2>4. ASSUME NEW k \in 1..new, i = len + k, messageBuffer'[i] = Loaded[k],
               NEW l \in 1..new, j = len + l, messageBuffer'[j] = Loaded[l]
        PROVE  messageBuffer'[i].serial < messageBuffer'[j].serial
    <3>1. k < l
      BY <1>2, <1>3, <1>13, <2>4 DEF len, new
    <3> QED
      BY <2>4, <3>1, LoadedFacts DEF new
  <2>5. ASSUME NEW k \in 1..new, i = len + k, j \in 1..len
        PROVE  FALSE
    BY <1>2, <1>3, <1>13, <2>5 DEF len, new
  <2> QED
    BY <1>9, <2>1, <2>2, <2>3, <2>4, <2>5
<1>14. ASSUME NEW i \in DOMAIN messageBuffer'
       PROVE  /\ messageBuffer'[i].serial \in DOMAIN database
              /\ database[messageBuffer'[i].serial] = messageBuffer'[i].id
  <2>1. i \in 1..(len + new)
    BY <1>4
  <2> QED
    BY <1>9, <1>10, <1>11, <2>1
<1>15. ASSUME NEW n \in DOMAIN database \ Buffered'
       PROVE  n > LastBuffered'
  <2>1. \A i \in 1..(len + new) : n # messageBuffer'[i].serial
    BY <1>4 DEF Buffered
  <2>2. n \notin Buffered
    <3>1. \A i \in 1..len : n # messageBuffer[i].serial
      <4>1. 1..len \subseteq 1..(len + new)
        BY <1>2, <1>3 DEF len, new
      <4> QED
        BY <1>4, <2>1, <4>1
    <3> QED
      BY <1>4, <3>1 DEF Buffered
  <2>3. n \in Found
    <3>1. n > LastBuffered
      BY <1>1, <2>2 DEF BufferIsPrefix
    <3> QED
      BY <1>1, <3>1, BufferFacts DEF Found, AboveBuffer
  <2>4. \A k \in 1..new : n # Loaded[k].serial
    <3>1. \A k \in 1..new : len + k \in 1..(len + new)
      BY <1>2, <1>3 DEF len, new
    <3> QED
      BY <1>4, <2>1, <3>1
  <2>5. new # 0 /\ \A k \in 1..new : Loaded[k].serial < n
    BY <2>3, <2>4, LoadedFacts DEF new
  <2>6. new \in 1..new /\ len + new # 0
    BY <1>2, <1>3, <2>5 DEF len, new
  <2>7. LastBuffered' = Loaded[new].serial
    <3>1. messageBuffer' # <<>>
      BY <1>4, <2>6
    <3>2. LastBuffered' = messageBuffer'[Len(messageBuffer')].serial
      BY <3>1 DEF LastBuffered
    <3> QED
      BY <1>4, <2>6, <3>2
  <2> QED
    BY <1>8, <1>11, <2>3, <2>5, <2>6, <2>7
<1>16. BufferIsPrefix'
  BY <1>1, <1>13, <1>14, <1>15 DEF BufferIsPrefix
<1> QED
  BY <1>5, <1>6, <1>7, <1>16

\* Disposal takes one message out of the buffer and the database.
LEMMA DisposeKeeps ==
    ASSUME SInv, Dispose
    PROVE  SInv'
<1> USE DEF SInv
<1>1. /\ isUp /\ isOpen /\ Unlocked /\ purging = {} /\ queueDepth' = queueDepth - 1
      /\ UNCHANGED <<lastSerialNumber, isOpen, isUp, attemptBufferRehydration, served,
                     purging, producer, sent, restarts, accepted, earlier>>
  BY DEF Dispose
<1>2. PICK i \in DOMAIN messageBuffer :
          /\ database' = Without(database, messageBuffer[i].serial)
          /\ messageBuffer' = SubSeq(messageBuffer, 1, i - 1)
                                  \o SubSeq(messageBuffer, i + 1, Len(messageBuffer))
          /\ removed' = removed \cup {messageBuffer[i].id}
  BY DEF Dispose
<1> DEFINE len == Len(messageBuffer)
           gone == messageBuffer[i].serial
           old(j) == IF j < i THEN j ELSE j + 1
<1>3. /\ messageBuffer \in Seq([serial : Serial, id : Id]) /\ len \in Nat
      /\ DOMAIN messageBuffer = 1..len /\ i \in 1..len
  BY DEF TypeOK
<1>4. /\ messageBuffer' \in Seq([serial : Serial, id : Id])
      /\ DOMAIN messageBuffer' = 1..(len - 1) /\ Len(messageBuffer') = len - 1
      /\ \A j \in 1..(len - 1) : messageBuffer'[j] = messageBuffer[old(j)]
  <2>1. \A k \in 1..len : messageBuffer[k] \in [serial : Serial, id : Id]
    BY <1>3, ElementOfSeq
  <2>2. /\ SubSeq(messageBuffer, 1, i - 1) \in Seq([serial : Serial, id : Id])
        /\ SubSeq(messageBuffer, i + 1, len) \in Seq([serial : Serial, id : Id])
    <3>1. /\ 1 \in Int /\ i - 1 \in Int /\ i + 1 \in Int /\ len \in Int
          /\ \A k \in 1..(i - 1) : messageBuffer[k] \in [serial : Serial, id : Id]
          /\ \A k \in (i + 1)..len : messageBuffer[k] \in [serial : Serial, id : Id]
      BY <1>3, <2>1
    <3> HIDE DEF len
    <3>2. SubSeq(messageBuffer, 1, i - 1) \in Seq([serial : Serial, id : Id])
      BY <3>1, SubSeqProperties
    <3>3. SubSeq(messageBuffer, i + 1, len) \in Seq([serial : Serial, id : Id])
      BY <3>1, SubSeqProperties
    <3> QED
      BY <3>2, <3>3 DEF len
  <2>3. /\ Len(SubSeq(messageBuffer, 1, i - 1)) = i - 1
        /\ \A j \in 1..(i - 1) : SubSeq(messageBuffer, 1, i - 1)[j] = messageBuffer[j]
    BY <1>3
  <2>4. /\ Len(SubSeq(messageBuffer, i + 1, len)) = len - i
        /\ \A j \in 1..(len - i) :
               SubSeq(messageBuffer, i + 1, len)[j] = messageBuffer[i + j]
    BY <1>3
  <2> DEFINE head == SubSeq(messageBuffer, 1, i - 1)
             tail == SubSeq(messageBuffer, i + 1, len)
  <2>5. /\ head \in Seq([serial : Serial, id : Id]) /\ Len(head) = i - 1
        /\ tail \in Seq([serial : Serial, id : Id]) /\ Len(tail) = len - i
        /\ messageBuffer' = head \o tail
    BY <1>2, <2>2, <2>3, <2>4
  <2>6. \A j \in 1..(i - 1) : head[j] = messageBuffer[j]
    BY <2>3
  <2>7. \A j \in 1..(len - i) : tail[j] = messageBuffer[i + j]
    BY <2>4
  <2> HIDE DEF head, tail
  <2>8. /\ messageBuffer' \in Seq([serial : Serial, id : Id])
        /\ Len(messageBuffer') = (i - 1) + (len - i)
        /\ \A j \in 1..((i - 1) + (len - i)) : messageBuffer'[j] =
               IF j <= i - 1 THEN head[j] ELSE tail[j - (i - 1)]
    <3> DEFINE joined == head \o tail
    <3>1. /\ joined \in Seq([serial : Serial, id : Id])
          /\ Len(joined) = Len(head) + Len(tail)
          /\ \A j \in 1..(Len(head) + Len(tail)) : joined[j] =
                 IF j <= Len(head) THEN head[j] ELSE tail[j - Len(head)]
      BY <2>5, ConcatProperties
    <3>2. messageBuffer' = joined
      BY <2>5
    <3> HIDE DEF joined
    <3>3. /\ Len(joined) = (i - 1) + (len - i)
          /\ \A j \in 1..((i - 1) + (len - i)) : joined[j] =
                 IF j <= i - 1 THEN head[j] ELSE tail[j - (i - 1)]
      BY <2>5, <3>1
    <3> QED
      BY <3>1, <3>2, <3>3
  <2>9. messageBuffer' \in Seq([serial : Serial, id : Id])
    BY <2>8
  <2>10. (i - 1) + (len - i) = len - 1
    BY <1>3
  <2>11. Len(messageBuffer') = len - 1
    BY <2>8, <2>10
  <2>12. ASSUME NEW j \in 1..(len - 1)
        PROVE  messageBuffer'[j] = messageBuffer[old(j)]
    <3>1. CASE j < i
      <4>1. j \in 1..(i - 1) /\ j <= i - 1
        BY <1>3, <3>1
      <4>2. messageBuffer'[j] = head[j]
        BY <2>8, <2>10, <4>1
      <4> QED
        BY <2>6, <3>1, <4>1, <4>2
    <3>2. CASE ~(j < i)
      <4>1. /\ j - (i - 1) \in 1..(len - i) /\ i + (j - (i - 1)) = j + 1
            /\ ~(j <= i - 1)
        BY <1>3, <3>2
      <4>2. messageBuffer'[j] = tail[j - (i - 1)]
        BY <2>8, <2>10, <4>1
      <4> QED
        BY <2>7, <3>2, <4>1, <4>2
    <3> QED
      BY <3>1, <3>2
  <2> QED
    BY <1>3, <2>9, <2>11, <2>12
<1>5. /\ \A j \in 1..(len - 1) : old(j) \in 1..len /\ old(j) # i
      /\ \A j, k \in 1..(len - 1) : j < k => old(j) < old(k)
      /\ \A k \in 1..len : k # i => \E j \in 1..(len - 1) : old(j) = k
  <2>1. \A j \in 1..(len - 1) : old(j) \in 1..len /\ old(j) # i
    BY <1>3
  <2>2. \A j, k \in 1..(len - 1) : j < k => old(j) < old(k)
    BY <1>3
  <2>3. ASSUME NEW k \in 1..len, k # i
        PROVE  \E j \in 1..(len - 1) : old(j) = k
    <3>1. CASE k < i
      <4>1. k \in 1..(len - 1) /\ old(k) = k
        BY <1>3, <3>1
      <4> QED
        BY <4>1
    <3>2. CASE ~(k < i)
      <4>1. k - 1 \in 1..(len - 1) /\ old(k - 1) = k
        BY <1>3, <2>3, <3>2
      <4> QED
        BY <4>1
    <3> QED
      BY <3>1, <3>2
  <2> QED
    BY <2>1, <2>2, <2>3
<1> HIDE DEF old
<1>6. /\ gone \in DOMAIN database /\ database[gone] = messageBuffer[i].id
      /\ \A j \in 1..len :
             /\ messageBuffer[j].serial \in DOMAIN database
             /\ database[messageBuffer[j].serial] = messageBuffer[j].id
             /\ messageBuffer[j].serial \in Nat
      /\ \A j, k \in 1..len : j < k => messageBuffer[j].serial < messageBuffer[k].serial
  <2>1. /\ \A j \in 1..len :
               /\ messageBuffer[j].serial \in DOMAIN database
               /\ database[messageBuffer[j].serial] = messageBuffer[j].id
        /\ \A j, k \in 1..len : j < k => messageBuffer[j].serial < messageBuffer[k].serial
    BY <1>1, <1>3 DEF BufferIsPrefix
  <2>2. \A k \in DOMAIN database : k \in Nat
    BY DEF TypeOK, Serial
  <2> QED
    BY <1>3, <2>1, <2>2
<1>7. \A j \in 1..len : j # i => messageBuffer[j].serial # gone
  <2> SUFFICES ASSUME NEW j \in 1..len, j # i PROVE messageBuffer[j].serial # gone
    OBVIOUS
  <2>1. j < i \/ i < j
    BY <1>3
  <2> QED
    BY <1>3, <1>6, <2>1
<1> HIDE DEF len, gone
<1>8. /\ DOMAIN database' = DOMAIN database \ {gone}
      /\ \A k \in DOMAIN database' : database'[k] = database[k]
      /\ database' \in [DOMAIN database' -> Id]
  <2>1. database' = [k \in DOMAIN database \ {gone} |-> database[k]]
    BY <1>2 DEF Without, gone
  <2> QED
    BY <2>1 DEF DatabaseIsFunction
<1>9. Unlocked' /\ NumbersAreIssued' /\ NumbersAreApart' /\ InPhase("stored")' = {}
      /\ InPhase("stored") = {}
  BY <1>1, <1>8, ProducersIdle
<1>10. Cardinality(DOMAIN database') = Cardinality(DOMAIN database) - 1
       /\ Cardinality(DOMAIN database') \in Nat
  BY <1>6, <1>8, FiniteFacts, FS_RemoveElement, FS_CardinalityType
<1>11. queueDepth = Cardinality(DOMAIN database)
  <2>1. Cardinality(InPhase("stored")) = 0 /\ queueDepth \in Nat
    BY <1>9, FS_EmptySet DEF TypeOK
  <2>2. queueDepth + Cardinality(InPhase("stored")) = Cardinality(DOMAIN database)
    BY <1>1 DEF DepthTracksDatabase, InPhase
  <2> QED
    BY <2>1, <2>2
<1>12. DepthTracksDatabase'
  <2>1. queueDepth' = Cardinality(DOMAIN database')
    BY <1>1, <1>10, <1>11
  <2>2. Cardinality(InPhase("stored")') = 0
    BY <1>9, FS_EmptySet
  <2>3. queueDepth' + Cardinality(InPhase("stored")') = Cardinality(DOMAIN database')
    BY <1>10, <2>1, <2>2
  <2> QED
    BY <2>3 DEF DepthTracksDatabase, InPhase
<1>13. TypeOK'
  <2>1. messageBuffer[i].id \in Id
    BY <1>6 DEF DatabaseIsFunction
  <2>2. queueDepth' \in Nat
    BY <1>1, <1>10, <1>11
  <2>3. DOMAIN database' \subseteq Serial /\ Stored' \subseteq Id
    BY <1>8 DEF TypeOK, Stored
  <2> QED
    BY <1>1, <1>2, <1>4, <2>1, <2>2, <2>3 DEF TypeOK
<1>14. DatabaseIsFunction' /\ MemoryIsLost' /\ PurgeIsAlone'
  BY <1>1, <1>8 DEF DatabaseIsFunction, MemoryIsLost, PurgeIsAlone
<1>15. BufferIsPrefix'
  <2>1. \A j, k \in DOMAIN messageBuffer' :
            j < k => messageBuffer'[j].serial < messageBuffer'[k].serial
    <3> SUFFICES ASSUME NEW j \in 1..(len - 1), NEW k \in 1..(len - 1), j < k
                 PROVE  messageBuffer'[j].serial < messageBuffer'[k].serial
      BY <1>4
    <3>1. old(j) \in 1..len /\ old(k) \in 1..len /\ old(j) < old(k)
      BY <1>5
    <3>2. messageBuffer[old(j)].serial < messageBuffer[old(k)].serial
      BY <1>6, <3>1
    <3> QED
      BY <1>4, <3>2
  <2>2. ASSUME NEW j \in DOMAIN messageBuffer'
        PROVE  /\ messageBuffer'[j].serial \in DOMAIN database'
               /\ database'[messageBuffer'[j].serial] = messageBuffer'[j].id
    <3>1. old(j) \in 1..len /\ old(j) # i /\ messageBuffer'[j] = messageBuffer[old(j)]
      BY <1>4, <1>5
    <3>2. messageBuffer[old(j)].serial \in DOMAIN database'
      BY <1>6, <1>7, <1>8, <3>1
    <3> QED
      BY <1>6, <1>8, <3>1, <3>2
  <2>3. ASSUME NEW n \in DOMAIN database' \ Buffered'
        PROVE  n > LastBuffered'
    <3>1. n \in DOMAIN database /\ n # gone /\ n \in Nat /\ n > 0
      BY <1>8 DEF TypeOK, Serial
    <3>2. ASSUME NEW k \in 1..len PROVE n # messageBuffer[k].serial
      <4>1. CASE k = i
        BY <3>1, <4>1 DEF gone
      <4>2. CASE k # i
        <5>1. PICK j \in 1..(len - 1) : old(j) = k
          BY <1>5, <4>2
        <5>2. messageBuffer'[j].serial \in Buffered'
          BY <1>4 DEF Buffered
        <5> QED
          BY <1>4, <5>1, <5>2
      <4> QED
        BY <4>1, <4>2
    <3>3. n \notin Buffered
      BY <1>3, <3>2 DEF Buffered
    <3>4. n > LastBuffered
      BY <1>1, <3>1, <3>3 DEF BufferIsPrefix
    <3>5. CASE messageBuffer' = <<>>
      BY <3>1, <3>5 DEF LastBuffered
    <3>6. CASE messageBuffer' # <<>>
      <4>1. LastBuffered' = messageBuffer'[len - 1].serial
        BY <1>4, <3>6 DEF LastBuffered
      <4>2. len - 1 \in 1..(len - 1)
        BY <1>3, <1>4, <3>6 DEF len
      <4>3. LastBuffered' = messageBuffer[old(len - 1)].serial /\ old(len - 1) \in 1..len
        BY <1>4, <1>5, <4>1, <4>2
      <4>4. LastBuffered' \in Buffered
        BY <1>3, <4>3 DEF Buffered
      <4>5. LastBuffered' <= LastBuffered /\ LastBuffered \in Nat /\ LastBuffered' \in Nat
        BY <1>1, <1>6, <4>3, <4>4, BufferFacts
      <4> QED
        BY <3>1, <3>4, <4>5
    <3> QED
      BY <3>5, <3>6
  <2> QED
    BY <1>1, <2>1, <2>2, <2>3 DEF BufferIsPrefix
<1>16. AcceptedIsStored'
  <2>1. ASSUME NEW m \in Stored PROVE m \in Stored' \cup removed'
    <3>1. PICK k \in DOMAIN database : m = database[k]
      BY DEF Stored
    <3>2. CASE k = gone
      BY <1>2, <1>6, <3>1, <3>2
    <3>3. CASE k # gone
      BY <1>8, <3>1, <3>3 DEF Stored
    <3> QED
      BY <3>2, <3>3
  <2> QED
    BY <1>1, <1>2, <2>1 DEF AcceptedIsStored
<1> QED
  BY <1>9, <1>12, <1>13, <1>14, <1>15, <1>16

-----------------------------------------------------------------------------
(* PurgeQueue.                                                             *)

LEMMA StartPurgeKeeps ==
    ASSUME SInv, StartPurge
    PROVE  SInv'
<1> USE DEF SInv
<1>1. /\ isUp /\ Unlocked /\ purging = {} /\ purging' = DOMAIN database
      /\ UNCHANGED <<database, messageBuffer, queueDepth, lastSerialNumber, isOpen,
                     isUp, attemptBufferRehydration, served, producer, sent, restarts,
                     accepted, earlier,
                     removed>>
  BY DEF StartPurge, history
<1>2. NumbersAreIssued' /\ NumbersAreApart' /\ Unlocked'
  BY <1>1, ProducersIdle
<1>3. TypeOK' /\ DatabaseIsFunction' /\ MemoryIsLost' /\ PurgeIsAlone'
  BY <1>1, <1>2 DEF TypeOK, Stored, DatabaseIsFunction, MemoryIsLost, PurgeIsAlone
<1>4. DepthTracksDatabase' /\ BufferIsPrefix' /\ AcceptedIsStored'
  BY <1>1 DEF DepthTracksDatabase, BufferIsPrefix, Buffered, LastBuffered,
              AcceptedIsStored, Stored
<1> QED
  BY <1>2, <1>3, <1>4

\* The last key leaves an empty database, an empty buffer and a depth of zero.
LEMMA PurgeKeyKeeps ==
    ASSUME SInv, PurgeKey
    PROVE  SInv'
<1> USE DEF SInv
<1>1. /\ isUp
      /\ UNCHANGED <<lastSerialNumber, isOpen, isUp, attemptBufferRehydration, served,
                     producer, sent, restarts, accepted, earlier>>
  BY DEF PurgeKey
<1>2. PICK n \in purging :
          /\ database' = Without(database, n)
          /\ purging' = purging \ {n}
          /\ removed' = removed \cup {database[n]}
          /\ IF purging = {n} THEN messageBuffer' = <<>> /\ queueDepth' = 0
             ELSE UNCHANGED <<messageBuffer, queueDepth>>
  BY DEF PurgeKey, ForgetBuffer
<1>3. Unlocked /\ purging = DOMAIN database /\ n \in DOMAIN database
  BY <1>2 DEF PurgeIsAlone
<1>4. /\ DOMAIN database' = DOMAIN database \ {n}
      /\ \A k \in DOMAIN database' : database'[k] = database[k]
      /\ database' \in [DOMAIN database' -> Id]
  <2>1. database' = [k \in DOMAIN database \ {n} |-> database[k]]
    BY <1>2 DEF Without
  <2> QED
    BY <2>1 DEF DatabaseIsFunction
<1>5. Unlocked' /\ NumbersAreIssued' /\ NumbersAreApart' /\ InPhase("stored")' = {}
  BY <1>1, <1>3, <1>4, ProducersIdle
<1>6. TypeOK'
  <2>1. database[n] \in Id
    BY <1>3 DEF DatabaseIsFunction
  <2>2. messageBuffer' \in Seq([serial : Serial, id : Id]) /\ queueDepth' \in Nat
    <3>1. <<>> \in Seq([serial : Serial, id : Id])
      OBVIOUS
    <3>2. CASE purging = {n}
      BY <1>2, <3>1, <3>2
    <3>3. CASE purging # {n}
      BY <1>2, <3>3 DEF TypeOK
    <3> QED
      BY <3>2, <3>3
  <2>3. DOMAIN database' \subseteq Serial /\ Stored' \subseteq Id
    BY <1>4 DEF TypeOK, Stored
  <2> QED
    BY <1>1, <1>2, <2>1, <2>2, <2>3 DEF TypeOK
<1>7. DatabaseIsFunction' /\ MemoryIsLost' /\ PurgeIsAlone'
  BY <1>1, <1>2, <1>3, <1>4, <1>5 DEF DatabaseIsFunction, MemoryIsLost, PurgeIsAlone
<1>8. purging' = {} => DOMAIN database' = {} /\ messageBuffer' = <<>> /\ queueDepth' = 0
  BY <1>2, <1>3, <1>4
<1>9. DepthTracksDatabase'
  <2>1. Cardinality(InPhase("stored")') = 0
    BY <1>5, FS_EmptySet
  <2>2. purging' = {} =>
            queueDepth' + Cardinality(InPhase("stored")') = Cardinality(DOMAIN database')
    BY <1>8, <2>1, FS_EmptySet
  <2> QED
    BY <2>2 DEF DepthTracksDatabase, InPhase
<1>10. BufferIsPrefix'
  BY <1>8 DEF BufferIsPrefix
<1>11. AcceptedIsStored'
  <2>1. ASSUME NEW m \in Stored PROVE m \in Stored' \cup removed'
    <3>1. PICK k \in DOMAIN database : m = database[k]
      BY DEF Stored
    <3>2. CASE k = n
      BY <1>2, <3>1, <3>2
    <3>3. CASE k # n
      BY <1>4, <3>1, <3>3 DEF Stored
    <3> QED
      BY <3>2, <3>3
  <2> QED
    BY <1>1, <1>2, <2>1 DEF AcceptedIsStored
<1> QED
  BY <1>5, <1>6, <1>7, <1>9, <1>10, <1>11

-----------------------------------------------------------------------------
(* The end of the process, and its restart.                                *)

\* Nothing but the database is left.
LEMMA ProcessEndsKeeps ==
    ASSUME SInv, ProcessEnds
    PROVE  SInv'
<1> USE DEF SInv
<1>1. /\ isUp' = FALSE /\ isOpen' = FALSE
      /\ messageBuffer' = <<>> /\ queueDepth' = 0 /\ lastSerialNumber' = 0
      /\ attemptBufferRehydration' = FALSE /\ served' = FALSE /\ purging' = {}
      /\ producer' = [p \in Producer |-> IdleProducer]
      /\ restarts' = restarts + 1 /\ restarts < MaxRestarts
      /\ UNCHANGED <<database, sent, accepted, earlier,
                     removed>>
  BY DEF ProcessEnds, history
<1>2. /\ IdleProducer \in [phase : Phase, serial : Serial \cup {0}, id : Id \cup {0}]
      /\ IdleProducer.phase = "idle"
  BY DEF IdleProducer, Phase
<1>3. Unlocked' /\ \A ph : ph # "idle" => InPhase(ph)' = {}
  BY <1>1, <1>2 DEF Unlocked, InPhase
<1>4. TypeOK'
  <2>1. messageBuffer' \in Seq([serial : Serial, id : Id])
    BY <1>1
  <2>2. restarts' \in 0..MaxRestarts /\ lastSerialNumber' \in 0..MaxMessages
    BY <1>1, StoreAssumption DEF TypeOK
  <2>3. producer' \in [Producer -> [phase : Phase, serial : Serial \cup {0},
                                    id : Id \cup {0}]]
    BY <1>1, <1>2
  <2> QED
    BY <1>1, <2>1, <2>2, <2>3 DEF TypeOK, Stored
<1>5. DatabaseIsFunction' /\ MemoryIsLost' /\ PurgeIsAlone' /\ DepthTracksDatabase'
  BY <1>1, <1>3 DEF DatabaseIsFunction, MemoryIsLost, PurgeIsAlone, DepthTracksDatabase
<1>6. NumbersAreIssued'
  <2>1. Cardinality(InPhase("locked")') = 0
    BY <1>3, FS_EmptySet
  <2> QED
    BY <1>1, <2>1 DEF NumbersAreIssued, TypeOK
<1>7. NumbersAreApart'
  BY <1>3 DEF NumbersAreApart, Numbered, Unlocked
<1>8. BufferIsPrefix'
  <2>1. DOMAIN messageBuffer' = {} /\ LastBuffered' = 0
    BY <1>1 DEF LastBuffered
  <2>2. \A n \in DOMAIN database' : n > 0
    BY <1>1 DEF TypeOK, Serial
  <2> QED
    BY <2>1, <2>2 DEF BufferIsPrefix
<1>9. AcceptedIsStored'
  BY <1>1 DEF AcceptedIsStored, Stored
<1> QED
  BY <1>4, <1>5, <1>6, <1>7, <1>8, <1>9

\* The depth is the number of keys and the next number is above them all.
LEMMA InitializeKeeps ==
    ASSUME SInv, InitializePersistentDatabase
    PROVE  SInv'
<1> USE DEF SInv
<1>1. /\ ~isUp /\ isUp' = TRUE /\ isOpen' = TRUE
      /\ queueDepth' = Cardinality(DOMAIN database)
      /\ lastSerialNumber' = RecoveredSerialNumber
      /\ UNCHANGED <<database, messageBuffer, attemptBufferRehydration, served, purging,
                     producer, sent, restarts, accepted, earlier,
                     removed>>
  BY DEF InitializePersistentDatabase, history
<1>2. messageBuffer = <<>> /\ purging = {} /\ Unlocked
  BY <1>1 DEF MemoryIsLost
<1>3. Unlocked' /\ \A ph : ph # "idle" => InPhase(ph)' = {}
  BY <1>1, <1>2 DEF Unlocked, InPhase
<1>4. /\ RecoveredSerialNumber \in 0..sent
      /\ DOMAIN database \subseteq 1..RecoveredSerialNumber
  <2>1. sent \in Nat /\ DOMAIN database \subseteq 1..sent
    BY DEF TypeOK, NumbersAreIssued
  <2>2. CASE DOMAIN database = {}
    <3>1. database = <<>>
      BY <2>2 DEF DatabaseIsFunction
    <3> QED
      BY <2>1, <2>2, <3>1 DEF RecoveredSerialNumber
  <2>3. CASE DOMAIN database # {}
    <3>1. database # <<>>
      BY <2>3
    <3>2. \E n \in DOMAIN database : \A k \in DOMAIN database : k <= n
      BY <2>1, <2>3, GreatestExists
    <3>3. /\ GreatestKey \in DOMAIN database
          /\ \A k \in DOMAIN database : k <= GreatestKey
      BY <3>2 DEF GreatestKey
    <3>4. RecoveredSerialNumber = GreatestKey
      BY <3>1 DEF RecoveredSerialNumber
    <3> QED
      BY <2>1, <3>3, <3>4
  <2> QED
    BY <2>2, <2>3
<1>5. sent \in Nat /\ sent <= MaxMessages /\ MaxMessages \in Nat
  BY StoreAssumption DEF TypeOK
<1>6. TypeOK'
  <2>1. lastSerialNumber' \in 0..MaxMessages
    BY <1>1, <1>4, <1>5
  <2>2. queueDepth' \in Nat
    BY <1>1, FiniteFacts
  <2> QED
    BY <1>1, <2>1, <2>2 DEF TypeOK, Stored
<1>7. DatabaseIsFunction' /\ MemoryIsLost' /\ PurgeIsAlone'
  BY <1>1, <1>2 DEF DatabaseIsFunction, MemoryIsLost, PurgeIsAlone
<1>8. NumbersAreIssued'
  <2>1. Cardinality(InPhase("locked")') = 0
    BY <1>3, FS_EmptySet
  <2>2. lastSerialNumber' + Cardinality(InPhase("locked")') <= sent
    BY <1>1, <1>4, <1>5, <2>1
  <2>3. DOMAIN database \subseteq 1..sent
    BY DEF NumbersAreIssued
  <2> QED
    BY <1>1, <1>4, <2>2, <2>3 DEF NumbersAreIssued
<1>9. NumbersAreApart'
  BY <1>3 DEF NumbersAreApart, Numbered, Unlocked
<1>10. DepthTracksDatabase'
  <2>1. Cardinality(InPhase("stored")') = 0
    BY <1>3, FS_EmptySet
  <2>2. queueDepth' + Cardinality(InPhase("stored")') = Cardinality(DOMAIN database')
    BY <1>1, <2>1, FiniteFacts
  <2> QED
    BY <2>2 DEF DepthTracksDatabase, InPhase
<1>11. BufferIsPrefix' /\ AcceptedIsStored'
  BY <1>1 DEF BufferIsPrefix, Buffered, LastBuffered, AcceptedIsStored, Stored
<1> QED
  BY <1>6, <1>7, <1>8, <1>9, <1>10, <1>11

-----------------------------------------------------------------------------
(* The theorems.                                                           *)

LEMMA InitHolds == Init => SInv
<1> SUFFICES ASSUME Init PROVE SInv
  OBVIOUS
<1>1. /\ database = <<>> /\ messageBuffer = <<>> /\ queueDepth = 0
      /\ lastSerialNumber = 0 /\ isOpen = TRUE /\ isUp = TRUE
      /\ attemptBufferRehydration = FALSE /\ served = FALSE /\ purging = {}
      /\ producer = [p \in Producer |-> IdleProducer]
      /\ sent = 0 /\ restarts = 0 /\ accepted = {} /\ removed = {}
      /\ earlier = [m \in Id |-> {}]
  BY DEF Init
<1>2. /\ IdleProducer \in [phase : Phase, serial : Serial \cup {0}, id : Id \cup {0}]
      /\ IdleProducer.phase = "idle"
  BY DEF IdleProducer, Phase
<1>3. Unlocked /\ \A ph : ph # "idle" => InPhase(ph) = {}
  BY <1>1, <1>2 DEF Unlocked, InPhase
<1>4. DOMAIN database = {} /\ DOMAIN messageBuffer = {}
  BY <1>1
<1>5. TypeOK
  <2>1. messageBuffer \in Seq([serial : Serial, id : Id])
    BY <1>1
  <2>2. producer \in [Producer -> [phase : Phase, serial : Serial \cup {0},
                                   id : Id \cup {0}]]
    BY <1>1, <1>2
  <2>3. 0 \in 0..MaxMessages /\ 0 \in 0..MaxRestarts
    BY StoreAssumption
  <2> QED
    BY <1>1, <1>4, <2>1, <2>2, <2>3 DEF TypeOK, Stored
<1>6. DatabaseIsFunction /\ MemoryIsLost /\ PurgeIsAlone
  BY <1>1, <1>4 DEF DatabaseIsFunction, MemoryIsLost, PurgeIsAlone
<1>7. NumbersAreIssued /\ NumbersAreApart /\ DepthTracksDatabase
  <2>1. Cardinality(InPhase("locked")) = 0 /\ Cardinality(InPhase("stored")) = 0
        /\ Cardinality(DOMAIN database) = 0
    BY <1>3, <1>4, FS_EmptySet
  <2>2. NumbersAreIssued
    BY <1>1, <1>4, <2>1 DEF NumbersAreIssued
  <2>3. NumbersAreApart
    BY <1>3 DEF NumbersAreApart, Numbered, Unlocked
  <2>4. queueDepth + Cardinality(InPhase("stored")) = Cardinality(DOMAIN database)
    BY <1>1, <2>1
  <2> QED
    BY <2>2, <2>3, <2>4 DEF DepthTracksDatabase, InPhase
<1>8. BufferIsPrefix /\ AcceptedIsStored
  BY <1>1, <1>4 DEF BufferIsPrefix, AcceptedIsStored
<1> QED
  BY <1>5, <1>6, <1>7, <1>8 DEF SInv

LEMMA StepKeeps == SInv /\ [Next]_vars => SInv'
<1> SUFFICES ASSUME SInv, [Next]_vars PROVE SInv'
  OBVIOUS
<1>1. CASE UNCHANGED vars
  <2>1. /\ UNCHANGED <<database, messageBuffer, queueDepth, lastSerialNumber,
                       isUp, purging, producer, sent, restarts, accepted, earlier,
                     removed>>
        /\ isOpen' \in BOOLEAN /\ attemptBufferRehydration' \in BOOLEAN
        /\ served' \in BOOLEAN
        /\ isUp \/ ~attemptBufferRehydration'
    BY <1>1 DEF vars, queueVars, history, SInv, TypeOK, MemoryIsLost
  <2> QED
    BY <2>1, FlagsKeep
<1>2. CASE \E p \in Producer : TakeReadLock(p)
  BY <1>2, TakeReadLockKeeps
<1>3. CASE \E p \in Producer : EnqueueStep(p)
  <2>1. PICK p \in Producer : EnqueueStep(p)
    BY <1>3
  <2>2. CASE DatabaseClosed(p) \/ StoreFails(p)
    BY <2>2, GiveUpKeeps
  <2>3. CASE GetNextSerialNumber(p)
    BY <2>3, GetNextSerialNumberKeeps
  <2>4. CASE Store(p)
    BY <2>4, StoreKeeps
  <2>5. CASE CountAndReturn(p)
    BY <2>5, CountAndReturnKeeps
  <2> QED
    BY <2>1, <2>2, <2>3, <2>4, <2>5 DEF EnqueueStep
<1>4. CASE \/ ServedChanges \/ AskForHydration \/ HydrationTimesOut
           \/ CloseDatabase
  BY <1>4, FlagStepsKeep
<1>5. CASE HydrateMessageBuffer
  BY <1>5, HydrateKeeps
<1>6. CASE Dispose
  BY <1>6, DisposeKeeps
<1>7. CASE StartPurge
  BY <1>7, StartPurgeKeeps
<1>8. CASE PurgeKey
  BY <1>8, PurgeKeyKeeps
<1>9. CASE ProcessEnds
  BY <1>9, ProcessEndsKeeps
<1>10. CASE InitializePersistentDatabase
  BY <1>10, InitializeKeeps
<1> QED
  BY <1>1, <1>2, <1>3, <1>4, <1>5, <1>6, <1>7, <1>8, <1>9, <1>10 DEF Next

\* The inductive invariant: besides what is claimed, it says whose the serial
\* numbers are and what a crash, a purge and the lock leave of the rest.
THEOREM StoreInvariance == Spec => []SInv
  BY InitHolds, StepKeeps, PTL DEF Spec

\* Every variable of the store keeps its type; the depth is never negative and
\* no serial number is above the number of messages sent.
THEOREM TypeCorrect == Spec => []TypeOK
<1>1. SInv => TypeOK
  BY DEF SInv
<1> QED
  BY <1>1, StoreInvariance, PTL

\* The depth counter is the number of stored messages but for those a producer
\* has stored and not counted yet.
THEOREM DepthIsTracked == Spec => []DepthTracksDatabase
<1>1. SInv => DepthTracksDatabase
  BY DEF SInv
<1> QED
  BY <1>1, StoreInvariance, PTL

\* The buffer holds the oldest stored messages in the order of their keys.
THEOREM BufferIsTheHead == Spec => []BufferIsPrefix
<1>1. SInv => BufferIsPrefix
  BY DEF SInv
<1> QED
  BY <1>1, StoreInvariance, PTL

\* A message whose Enqueue succeeded is stored until it is disposed of or
\* purged, through any number of crashes.
THEOREM NothingAcceptedIsLost == Spec => []AcceptedIsStored
<1>1. SInv => AcceptedIsStored
  BY DEF SInv
<1> QED
  BY <1>1, StoreInvariance, PTL
=============================================================================
