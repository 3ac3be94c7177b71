----------------------------- MODULE CacheProofs -----------------------------
(***************************************************************************)
(* Theorems about the drivers of CacheDrivers, one process at a time, and  *)
(* about TaggableCache and the CacheCounter it rests on, with any number,  *)
(* for every set of keys, values, lifetimes, tags, counters and processes. *)
(*                                                                         *)
(* Drivers: each of them implements CacheContract, and what was stored can *)
(* be read.  A step of a driver changes what a reader sees of one key, or  *)
(* of none, or of all; the first lemmas say which of these is which        *)
(* operation of the contract, and the others which of these a step of each *)
(* driver is.                                                              *)
(*                                                                         *)
(* Counters: none becomes negative, and in the table no two processes hold *)
(* the lock of one counter, however slow they are.  The lock is a row that *)
(* add inserts: a holder is alone because an INSERT replaces no row, not   *)
(* even an expired one, and only the holder deletes it.                    *)
(*                                                                         *)
(* Tags: in the table an invalidated entry is not answered as long as one  *)
(* process at most invalidates, and no other entry is lost while the       *)
(* counters of its tags are not.  The file driver's add, a check and then  *)
(* a write, gives neither of these; runs of TLC show how.                  *)
(***************************************************************************)
EXTENDS CacheDrivers, TaggableCache, TLAPS

\* Lifetimes are numbers of seconds the model's clock can count, and null is neither a
\* value nor a number, nor an entry.
CacheConstants ==
  /\ MaxTime \in Nat \ {0}
  /\ Ttls \subseteq 0 .. MaxTime
  /\ Null \notin Values /\ Null \notin Int
  /\ Null \notin [value : Values, until : Int]

-----------------------------------------------------------------------------
\* What a step may do to the entries a reader sees.
Stays == \A k \in Keys : Entry(k)' = Entry(k)

Others(k) == \A j \in Keys \ {k} : Entry(j)' = Entry(j)

Becomes(k, v, ttl) == Entry(k)' \in Contract!Outcomes(v, ttl) /\ Others(k)

Answer(k) == IF Entry(k) = Null THEN Null ELSE Entry(k).value

Lapses ==
  \A k \in Keys : Entry(k)' = IF Entry(k) = Null \/ Entry(k).until <= now' THEN Null
                                                                          ELSE Entry(k)

\* The operations of the contract a caller can have seen, in these terms.
Sees ==
  \/ /\ now' = now
     /\ \/ \E k \in Keys, v \in Values, ttl \in Ttls :
             Becomes(k, v, ttl) /\ last' = <<"set", k>>
        \/ \E k \in Keys, v \in Values, ttl \in Ttls :
             Becomes(k, v, ttl) /\ last' = <<"add", k, TRUE>> /\ Entry(k) = Null
        \/ \E k \in Keys, v \in Values, ttl \in Ttls : Stays /\ last' = <<"add", k, FALSE>>
        \/ \E k \in Keys : Stays /\ last' = <<"get", k, Answer(k)>>
        \/ \E k \in Keys : Entry(k)' = Null /\ Others(k) /\ last' = <<"delete", k>>
        \/ (\A k \in Keys : Entry(k)' = Null) /\ last' = <<"flush">>
  \/ now' = now + 1 /\ Lapses /\ last' = last

LEMMA SeesIsContract == Sees => Contract!Next
<1> DEFINE E == [k \in Keys |-> Entry(k)]
<1>1. ASSUME NEW k \in Keys, NEW v \in Values, NEW ttl \in Ttls, Becomes(k, v, ttl)
      PROVE  Contract!Store(k, v, ttl)
  BY <1>1 DEF Becomes, Others, Contract!Store, Contract!Outcomes
<1>2. ASSUME NEW k \in Keys, NEW v \in Values, NEW ttl \in Ttls, now' = now,
             Becomes(k, v, ttl), last' = <<"set", k>>
      PROVE  Contract!Next
  <2>1. Contract!Set(k, v, ttl)
    BY <1>1, <1>2 DEF Contract!Set
  <2> QED BY <2>1 DEF Contract!Next
<1>3. ASSUME NEW k \in Keys, NEW v \in Values, NEW ttl \in Ttls, now' = now,
             Becomes(k, v, ttl), last' = <<"add", k, TRUE>>, Entry(k) = Null
      PROVE  Contract!Next
  <2>1. Contract!Add(k, v, ttl)
    BY <1>1, <1>3 DEF Contract!Add
  <2> QED BY <2>1 DEF Contract!Next
<1>4. ASSUME NEW k \in Keys, NEW v \in Values, NEW ttl \in Ttls, now' = now,
             Stays, last' = <<"add", k, FALSE>>
      PROVE  Contract!Next
  <2>1. Contract!Add(k, v, ttl)
    BY <1>4 DEF Stays, Contract!Add
  <2> QED BY <2>1 DEF Contract!Next
<1>5. ASSUME NEW k \in Keys, now' = now, Stays, last' = <<"get", k, Answer(k)>>
      PROVE  Contract!Next
  <2>1. Contract!Get(k)
    BY <1>5 DEF Stays, Answer, Contract!Get
  <2> QED BY <2>1 DEF Contract!Next
<1>6. ASSUME NEW k \in Keys, now' = now, Entry(k)' = Null, Others(k), last' = <<"delete", k>>
      PROVE  Contract!Next
  <2>1. Contract!Delete(k)
    BY <1>6 DEF Others, Contract!Delete
  <2> QED BY <2>1 DEF Contract!Next
<1>7. ASSUME now' = now, \A k \in Keys : Entry(k)' = Null, last' = <<"flush">>
      PROVE  Contract!Next
  BY <1>7 DEF Contract!Flush, Contract!Next
<1>8. ASSUME now' = now + 1, Lapses, last' = last
      PROVE  Contract!Next
  BY <1>8 DEF Lapses, Contract!Tick, Contract!Next
<1> QED BY <1>2, <1>3, <1>4, <1>5, <1>6, <1>7, <1>8 DEF Sees

\* A value that is gone some time in the allowed span is an outcome.
LEMMA OutcomeOf ==
  ASSUME CacheConstants, now \in 1 .. MaxTime, NEW v \in Values, NEW ttl \in Ttls, NEW u \in Int,
         1 <= u, u <= MaxTime + MaxTime + 2, ttl # 0 => u <= now + ttl + 1
  PROVE  [value |-> v, until |-> u] \in Contract!Outcomes(v, ttl)
<1>1. u \in 1 .. IF ttl = 0 THEN MaxTime + MaxTime + 2 ELSE now + ttl + 1
  BY DEF CacheConstants
<1> QED BY <1>1 DEF Contract!Outcomes, Contract!Forever

-----------------------------------------------------------------------------
\* Arrays: the deadline of an older value may stay and cut a value short.
LEMMA MemorySees ==
  ASSUME CacheConstants, driver = "memory", driver' = driver, Memory!TypeOK, Memory!Next
  PROVE  Sees /\ Memory!TypeOK'
<1>1. \A k \in Keys : Entry(k) = Memory!Entry(k) /\ Entry(k)' = Memory!Entry(k)'
  BY DEF Entry
<1>2. /\ now \in 1 .. MaxTime /\ MaxTime \in Nat
      /\ caches \in [Keys -> Values \union {Null}]
      /\ ttls \in [Keys -> 2 .. MaxTime + MaxTime \union {Null}]
      /\ Null \notin Values /\ Null \notin Int /\ Ttls \subseteq 0 .. MaxTime
  BY DEF Memory!TypeOK, CacheConstants
<1>3. ASSUME NEW k \in Keys, NEW v \in Values, NEW ttl \in Ttls,
             Memory!Store(k, v, ttl), now' = now
      PROVE  Becomes(k, v, ttl) /\ Memory!TypeOK'
  <2>1. /\ caches' = [caches EXCEPT ![k] = v] /\ ttls' = Memory!Deadlines(k, ttl)
    BY <1>3 DEF Memory!Store
  <2>2. Others(k)
    BY <1>1, <1>2, <1>3, <2>1
       DEF Others, Memory!Entry, Memory!Read, Memory!Expired, Memory!Deadlines
  <2>3. ttls'[k] = IF ttl = 0 THEN ttls[k] ELSE ttl + now
    BY <1>2, <2>1 DEF Memory!Deadlines
  <2>4. caches'[k] = v
    BY <1>2, <2>1
  <2> DEFINE u == IF ttls'[k] = Null THEN MaxTime + MaxTime + 2 ELSE ttls'[k]
  <2>5. Entry(k)' = Null \/ Entry(k)' = [value |-> v, until |-> u]
    BY <1>1, <2>4 DEF Memory!Entry, Memory!Read
  <2>6. u \in Int /\ 1 <= u /\ u <= MaxTime + MaxTime + 2 /\ (ttl # 0 => u <= now + ttl + 1)
    BY <1>2, <2>3
  <2>7. Entry(k)' \in Contract!Outcomes(v, ttl)
    <3> HIDE DEF u
    <3>1. [value |-> v, until |-> u] \in Contract!Outcomes(v, ttl)
      BY <1>2, <2>6, OutcomeOf
    <3> QED BY <2>5, <3>1 DEF Contract!Outcomes
  <2>8. Memory!TypeOK'
    BY <1>2, <1>3, <2>1 DEF Memory!TypeOK, Memory!Deadlines
  <2> QED BY <2>2, <2>7, <2>8 DEF Becomes
<1>4. ASSUME UNCHANGED <<now, caches, ttls>>
      PROVE  Stays /\ Memory!TypeOK'
  BY <1>1, <1>4 DEF Stays, Memory!Entry, Memory!Read, Memory!Expired, Memory!TypeOK
<1>5. ASSUME NEW k \in Keys, NEW v \in Values, NEW ttl \in Ttls, Memory!Set(k, v, ttl)
      PROVE  Sees /\ Memory!TypeOK'
  <2>1. Memory!Store(k, v, ttl) /\ now' = now /\ last' = <<"set", k>>
    BY <1>5 DEF Memory!Set
  <2>2. Becomes(k, v, ttl) /\ Memory!TypeOK'
    BY <1>3, <2>1
  <2>3. Sees
    BY <2>1, <2>2 DEF Sees
  <2> QED BY <2>2, <2>3
<1>6. ASSUME NEW k \in Keys, NEW v \in Values, NEW ttl \in Ttls, Memory!Add(k, v, ttl)
      PROVE  Sees /\ Memory!TypeOK'
  <2>1. CASE caches[k] # Null /\ ~ Memory!Expired(k)
    <3>1. /\ UNCHANGED <<now, caches, ttls>> /\ last' = <<"add", k, FALSE>>
      BY <1>6, <2>1 DEF Memory!Add
    <3>2. Stays /\ Memory!TypeOK'
      BY <1>4, <3>1
    <3>3. Sees
      BY <3>1, <3>2 DEF Sees
    <3> QED BY <3>2, <3>3
  <2>2. CASE ~ (caches[k] # Null /\ ~ Memory!Expired(k))
    <3>1. Entry(k) = Null
      BY <1>1, <2>2 DEF Memory!Entry, Memory!Read, Memory!Expired
    <3>2. Memory!Store(k, v, ttl) /\ now' = now /\ last' = <<"add", k, TRUE>>
      BY <1>6, <2>2 DEF Memory!Add
    <3>3. Becomes(k, v, ttl) /\ Memory!TypeOK'
      BY <1>3, <3>2
    <3>4. Sees
      BY <3>1, <3>2, <3>3 DEF Sees
    <3> QED BY <3>3, <3>4
  <2> QED BY <2>1, <2>2
<1>7. ASSUME NEW k \in Keys, Memory!Get(k)
      PROVE  Sees /\ Memory!TypeOK'
  <2>1. Memory!Read(k) = Answer(k)
    <3> DEFINE e == [value |-> Memory!Read(k), until |-> IF ttls[k] = Null THEN MaxTime + MaxTime + 2 ELSE ttls[k]]
    <3>1. Memory!Read(k) # Null => Memory!Read(k) \in Values
      BY <1>2 DEF Memory!Read, Memory!Expired
    <3>2. Memory!Read(k) # Null => e \in [value : Values, until : Int]
      BY <1>2, <3>1 DEF Memory!Read, Memory!Expired
    <3>3. Memory!Read(k) # Null => Entry(k) = e /\ e # Null /\ e.value = Memory!Read(k)
      BY <1>1, <3>2 DEF Memory!Entry, CacheConstants
    <3> HIDE DEF e
    <3>4. Memory!Read(k) = Null => Entry(k) = Null
      BY <1>1 DEF Memory!Entry
    <3> QED BY <3>3, <3>4 DEF Answer
  <2> QED BY <1>4, <1>7, <2>1 DEF Memory!Get, Sees
<1>8. ASSUME NEW k \in Keys, Memory!Delete(k)
      PROVE  Sees /\ Memory!TypeOK'
  <2>1. Memory!TypeOK' /\ Entry(k)' = Null /\ Others(k)
    BY <1>1, <1>2, <1>8
       DEF Memory!Delete, Others, Memory!Entry, Memory!Read, Memory!Expired, Memory!TypeOK
  <2> QED BY <1>8, <2>1 DEF Memory!Delete, Sees
<1>9. ASSUME Memory!Flush
      PROVE  Sees /\ Memory!TypeOK'
  <2>1. Memory!TypeOK' /\ \A k \in Keys : Entry(k)' = Null
    BY <1>1, <1>2, <1>9 DEF Memory!Flush, Memory!Entry, Memory!Read, Memory!TypeOK
  <2> QED BY <1>9, <2>1 DEF Memory!Flush, Sees
<1>10. ASSUME Memory!Tick
       PROVE  Sees /\ Memory!TypeOK'
  <2>1. Memory!TypeOK' /\ now' = now + 1 /\ now < MaxTime /\ caches' = caches /\ ttls' = ttls
    BY <1>2, <1>10 DEF Memory!Tick, Memory!TypeOK
  <2>2. Lapses
    <3> SUFFICES ASSUME NEW k \in Keys
                 PROVE  Memory!Entry(k)' = IF Memory!Entry(k) = Null \/ Memory!Entry(k).until <= now'
                                           THEN Null ELSE Memory!Entry(k)
      BY <1>1 DEF Lapses
    <3> DEFINE c == caches[k]
               d == ttls[k]
               u == IF d = Null THEN MaxTime + MaxTime + 2 ELSE d
    <3>1. c # Null => d = Null \/ d \in Int
      BY <1>2
    <3>2. /\ Memory!Read(k) = IF c = Null \/ (d # Null /\ d <= now) THEN Null ELSE c
          /\ Memory!Read(k)' = IF c = Null \/ (d # Null /\ d <= (now + 1)) THEN Null ELSE c
      BY <2>1, <3>1, <1>2 DEF Memory!Read, Memory!Expired
    <3>3. /\ Memory!Entry(k) = IF Memory!Read(k) = Null THEN Null ELSE [value |-> Memory!Read(k), until |-> u]
          /\ Memory!Entry(k)' = IF Memory!Read(k)' = Null THEN Null ELSE [value |-> Memory!Read(k)', until |-> u]
      BY <2>1 DEF Memory!Entry
    <3>4. c # Null => /\ u <= now' <=> (d # Null /\ d <= (now + 1))
                      /\ (d # Null /\ d <= now) => (d # Null /\ d <= (now + 1))
      BY <1>2, <2>1, <3>1
    <3> HIDE DEF u, c, d
    <3>5. [value |-> c, until |-> u].until = u
      OBVIOUS
    <3> QED BY <3>2, <3>3, <3>4, <3>5
  <2> QED BY <1>10, <2>1, <2>2 DEF Memory!Tick, Sees
<1> QED BY <1>5, <1>6, <1>7, <1>8, <1>9, <1>10 DEF Memory!Next

\* Session variables: a deadline of 0 is none.
LEMMA SessionSees ==
  ASSUME CacheConstants, driver = "session", driver' = driver, Session!TypeOK, Session!Next
  PROVE  Sees /\ Session!TypeOK'
<1>1. \A k \in Keys : Entry(k) = Session!Entry(k) /\ Entry(k)' = Session!Entry(k)'
  BY DEF Entry
<1>2. /\ now \in 1 .. MaxTime /\ MaxTime \in Nat
      /\ caches \in [Keys -> Values \union {Null}]
      /\ ttls \in [Keys -> 0 .. MaxTime + MaxTime \union {Null}]
      /\ \A k \in Keys : caches[k] # Null => ttls[k] # Null
      /\ Null \notin Values /\ Null \notin Int /\ Ttls \subseteq 0 .. MaxTime
  BY DEF Session!TypeOK, CacheConstants
<1>3. ASSUME NEW k \in Keys, NEW v \in Values, NEW ttl \in Ttls,
             Session!Store(k, v, ttl), now' = now
      PROVE  Becomes(k, v, ttl) /\ Session!TypeOK'
  <2>1. /\ caches' = [caches EXCEPT ![k] = v] /\ ttls' = [ttls EXCEPT ![k] = Session!Deadline(k, ttl)]
    BY <1>3 DEF Session!Store
  <2>2. Others(k)
    BY <1>1, <1>2, <1>3, <2>1 DEF Others, Session!Entry, Session!Read
  <2>3. ttls'[k] = IF ttl = 0 THEN 0 ELSE ttl + now
    BY <1>2, <2>1 DEF Session!Deadline
  <2>4. caches'[k] = v
    BY <1>2, <2>1
  <2> DEFINE u == IF ttls'[k] = 0 THEN MaxTime + MaxTime + 2 ELSE ttls'[k]
  <2>5. Entry(k)' = Null \/ Entry(k)' = [value |-> v, until |-> u]
    BY <1>1, <2>4 DEF Session!Entry, Session!Read
  <2>6. u \in Int /\ 1 <= u /\ u <= MaxTime + MaxTime + 2 /\ (ttl # 0 => u <= now + ttl + 1)
    BY <1>2, <2>3
  <2>7. Entry(k)' \in Contract!Outcomes(v, ttl)
    <3> HIDE DEF u
    <3>1. [value |-> v, until |-> u] \in Contract!Outcomes(v, ttl)
      BY <1>2, <2>6, OutcomeOf
    <3> QED BY <2>5, <3>1 DEF Contract!Outcomes
  <2>8. Session!TypeOK'
    BY <1>2, <1>3, <2>1 DEF Session!TypeOK, Session!Deadline
  <2> QED BY <2>2, <2>7, <2>8 DEF Becomes
<1>4. ASSUME UNCHANGED <<now, caches, ttls>>
      PROVE  Stays /\ Session!TypeOK'
  BY <1>1, <1>4 DEF Stays, Session!Entry, Session!Read, Session!TypeOK
<1>5. ASSUME NEW k \in Keys, NEW v \in Values, NEW ttl \in Ttls, Session!Set(k, v, ttl)
      PROVE  Sees /\ Session!TypeOK'
  <2>1. Session!Store(k, v, ttl) /\ now' = now /\ last' = <<"set", k>>
    BY <1>5 DEF Session!Set
  <2>2. Becomes(k, v, ttl) /\ Session!TypeOK'
    BY <1>3, <2>1
  <2>3. Sees
    BY <2>1, <2>2 DEF Sees
  <2> QED BY <2>2, <2>3
<1>6. ASSUME NEW k \in Keys, NEW v \in Values, NEW ttl \in Ttls, Session!Add(k, v, ttl)
      PROVE  Sees /\ Session!TypeOK'
  <2>1. CASE caches[k] # Null
    <3>1. /\ UNCHANGED <<now, caches, ttls>> /\ last' = <<"add", k, FALSE>>
      BY <1>6, <2>1 DEF Session!Add
    <3>2. Stays /\ Session!TypeOK'
      BY <1>4, <3>1
    <3>3. Sees
      BY <3>1, <3>2 DEF Sees
    <3> QED BY <3>2, <3>3
  <2>2. CASE ~ (caches[k] # Null)
    <3>1. Entry(k) = Null
      BY <1>1, <2>2 DEF Session!Entry, Session!Read
    <3>2. Session!Store(k, v, ttl) /\ now' = now /\ last' = <<"add", k, TRUE>>
      BY <1>6, <2>2 DEF Session!Add
    <3>3. Becomes(k, v, ttl) /\ Session!TypeOK'
      BY <1>3, <3>2
    <3>4. Sees
      BY <3>1, <3>2, <3>3 DEF Sees
    <3> QED BY <3>3, <3>4
  <2> QED BY <2>1, <2>2
<1>7. ASSUME NEW k \in Keys, Session!Get(k)
      PROVE  Sees /\ Session!TypeOK'
  <2>1. Session!Read(k) = Answer(k)
    <3> DEFINE e == [value |-> Session!Read(k), until |-> IF ttls[k] = 0 THEN MaxTime + MaxTime + 2 ELSE ttls[k]]
    <3>1. Session!Read(k) # Null => Session!Read(k) \in Values
      BY <1>2 DEF Session!Read
    <3>2. Session!Read(k) # Null => e \in [value : Values, until : Int]
      BY <1>2, <3>1 DEF Session!Read
    <3>3. Session!Read(k) # Null => Entry(k) = e /\ e # Null /\ e.value = Session!Read(k)
      BY <1>1, <3>2 DEF Session!Entry, CacheConstants
    <3> HIDE DEF e
    <3>4. Session!Read(k) = Null => Entry(k) = Null
      BY <1>1 DEF Session!Entry
    <3> QED BY <3>3, <3>4 DEF Answer
  <2> QED BY <1>4, <1>7, <2>1 DEF Session!Get, Sees
<1>8. ASSUME NEW k \in Keys, Session!Delete(k)
      PROVE  Sees /\ Session!TypeOK'
  <2>1. Session!TypeOK' /\ Entry(k)' = Null /\ Others(k)
    BY <1>1, <1>2, <1>8
       DEF Session!Delete, Others, Session!Entry, Session!Read, Session!TypeOK
  <2> QED BY <1>8, <2>1 DEF Session!Delete, Sees
<1>9. ASSUME Session!Flush
      PROVE  Sees /\ Session!TypeOK'
  <2>1. Session!TypeOK' /\ \A k \in Keys : Entry(k)' = Null
    BY <1>1, <1>2, <1>9 DEF Session!Flush, Session!Entry, Session!Read, Session!TypeOK
  <2> QED BY <1>9, <2>1 DEF Session!Flush, Sees
<1>10. ASSUME Session!Tick
       PROVE  Sees /\ Session!TypeOK'
  <2>1. Session!TypeOK' /\ now' = now + 1 /\ now < MaxTime /\ caches' = caches /\ ttls' = ttls
    BY <1>2, <1>10 DEF Session!Tick, Session!TypeOK
  <2>2. Lapses
    <3> SUFFICES ASSUME NEW k \in Keys
                 PROVE  Session!Entry(k)' = IF Session!Entry(k) = Null \/ Session!Entry(k).until <= now'
                                           THEN Null ELSE Session!Entry(k)
      BY <1>1 DEF Lapses
    <3> DEFINE c == caches[k]
               d == ttls[k]
               u == IF d = 0 THEN MaxTime + MaxTime + 2 ELSE d
    <3>1. c # Null => d = 0 \/ d \in Int
      BY <1>2
    <3>2. /\ Session!Read(k) = IF c = Null \/ (d # 0 /\ d <= now) THEN Null ELSE c
          /\ Session!Read(k)' = IF c = Null \/ (d # 0 /\ d <= (now + 1)) THEN Null ELSE c
      BY <2>1, <3>1, <1>2 DEF Session!Read
    <3>3. /\ Session!Entry(k) = IF Session!Read(k) = Null THEN Null ELSE [value |-> Session!Read(k), until |-> u]
          /\ Session!Entry(k)' = IF Session!Read(k)' = Null THEN Null ELSE [value |-> Session!Read(k)', until |-> u]
      BY <2>1 DEF Session!Entry
    <3>4. c # Null => /\ u <= now' <=> (d # 0 /\ d <= (now + 1))
                      /\ (d # 0 /\ d <= now) => (d # 0 /\ d <= (now + 1))
      BY <1>2, <2>1, <3>1
    <3> HIDE DEF u, c, d
    <3>5. [value |-> c, until |-> u].until = u
      OBVIOUS
    <3> QED BY <3>2, <3>3, <3>4, <3>5
  <2> QED BY <1>10, <2>1, <2>2 DEF Session!Tick, Sees
<1> QED BY <1>5, <1>6, <1>7, <1>8, <1>9, <1>10 DEF Session!Next

\* Rows: they are read in the second of their deadline, too.
LEMMA DbSees ==
  ASSUME CacheConstants, driver = "db", driver' = driver, Db!TypeOK, Db!Next
  PROVE  Sees /\ Db!TypeOK'
<1>1. \A k \in Keys : Entry(k) = Db!Entry(k) /\ Entry(k)' = Db!Entry(k)'
  BY DEF Entry
<1>2. /\ now \in 1 .. MaxTime /\ MaxTime \in Nat
      /\ caches \in [Keys -> Values \union {Null}]
      /\ ttls \in [Keys -> 0 .. MaxTime + MaxTime \union {Null}]
      /\ \A k \in Keys : caches[k] = Null <=> ttls[k] = Null
      /\ Null \notin Values /\ Null \notin Int /\ Ttls \subseteq 0 .. MaxTime
  BY DEF Db!TypeOK, CacheConstants
<1>3. ASSUME NEW k \in Keys, NEW v \in Values, NEW ttl \in Ttls, NEW d,
             d \in {Db!Deadline(ttl), ttl + now}, Db!Write(k, v, d), now' = now
      PROVE  Becomes(k, v, ttl) /\ Db!TypeOK'
  <2>1. /\ caches' = [caches EXCEPT ![k] = v] /\ ttls' = [ttls EXCEPT ![k] = d]
    BY <1>3 DEF Db!Write
  <2>2. Others(k)
    BY <1>1, <1>2, <1>3, <2>1 DEF Others, Db!Entry, Db!Read
  <2>3. ttls'[k] = d /\ d \in 0 .. MaxTime + MaxTime /\ (ttl # 0 => d = ttl + now)
    BY <1>2, <1>3, <2>1 DEF Db!Deadline
  <2>4. caches'[k] = v
    BY <1>2, <2>1
  <2> DEFINE u == IF d = 0 THEN MaxTime + MaxTime + 2 ELSE d + 1
  <2>5. Entry(k)' = Null \/ Entry(k)' = [value |-> v, until |-> u]
    BY <1>1, <2>3, <2>4 DEF Db!Entry, Db!Read
  <2>6. u \in Int /\ 1 <= u /\ u <= MaxTime + MaxTime + 2 /\ (ttl # 0 => u <= now + ttl + 1)
    BY <1>2, <2>3
  <2>7. Entry(k)' \in Contract!Outcomes(v, ttl)
    <3> HIDE DEF u
    <3>1. [value |-> v, until |-> u] \in Contract!Outcomes(v, ttl)
      BY <1>2, <2>6, OutcomeOf
    <3> QED BY <2>5, <3>1 DEF Contract!Outcomes
  <2>8. Db!TypeOK'
    BY <1>2, <1>3, <2>1, <2>3 DEF Db!TypeOK
  <2> QED BY <2>2, <2>7, <2>8 DEF Becomes
<1>4. ASSUME UNCHANGED <<now, caches, ttls>>
      PROVE  Stays /\ Db!TypeOK'
  BY <1>1, <1>4 DEF Stays, Db!Entry, Db!Read, Db!TypeOK
<1>5. ASSUME NEW k \in Keys, NEW v \in Values, NEW ttl \in Ttls, Db!Set(k, v, ttl)
      PROVE  Sees /\ Db!TypeOK'
  <2>1. Db!Write(k, v, Db!Deadline(ttl)) /\ now' = now /\ last' = <<"set", k>>
    BY <1>5 DEF Db!Set
  <2>2. Becomes(k, v, ttl) /\ Db!TypeOK'
    BY <1>3, <2>1
  <2>3. Sees
    BY <2>1, <2>2 DEF Sees
  <2> QED BY <2>2, <2>3
<1>6. ASSUME NEW k \in Keys, NEW v \in Values, NEW ttl \in Ttls, Db!Add(k, v, ttl)
      PROVE  Sees /\ Db!TypeOK'
  <2>1. CASE caches[k] # Null
    <3>1. /\ UNCHANGED <<now, caches, ttls>> /\ last' = <<"add", k, FALSE>>
      BY <1>6, <2>1 DEF Db!Add
    <3>2. Stays /\ Db!TypeOK'
      BY <1>4, <3>1
    <3>3. Sees
      BY <3>1, <3>2 DEF Sees
    <3> QED BY <3>2, <3>3
  <2>2. CASE ~ (caches[k] # Null)
    <3>1. Entry(k) = Null
      BY <1>1, <2>2 DEF Db!Entry, Db!Read
    <3>2. Db!Write(k, v, ttl + now) /\ now' = now /\ last' = <<"add", k, TRUE>>
      BY <1>6, <2>2 DEF Db!Add
    <3>3. Becomes(k, v, ttl) /\ Db!TypeOK'
      BY <1>3, <3>2
    <3>4. Sees
      BY <3>1, <3>2, <3>3 DEF Sees
    <3> QED BY <3>3, <3>4
  <2> QED BY <2>1, <2>2
<1>7. ASSUME NEW k \in Keys, Db!Get(k)
      PROVE  Sees /\ Db!TypeOK'
  <2>1. Db!Read(k) = Answer(k)
    <3> DEFINE e == [value |-> Db!Read(k), until |-> IF ttls[k] = 0 THEN MaxTime + MaxTime + 2 ELSE ttls[k] + 1]
    <3>1. Db!Read(k) # Null => Db!Read(k) \in Values
      BY <1>2 DEF Db!Read
    <3>2. Db!Read(k) # Null => e \in [value : Values, until : Int]
      BY <1>2, <3>1 DEF Db!Read
    <3>3. Db!Read(k) # Null => Entry(k) = e /\ e # Null /\ e.value = Db!Read(k)
      BY <1>1, <3>2 DEF Db!Entry, CacheConstants
    <3> HIDE DEF e
    <3>4. Db!Read(k) = Null => Entry(k) = Null
      BY <1>1 DEF Db!Entry
    <3> QED BY <3>3, <3>4 DEF Answer
  <2> QED BY <1>4, <1>7, <2>1 DEF Db!Get, Sees
<1>8. ASSUME NEW k \in Keys, Db!Delete(k)
      PROVE  Sees /\ Db!TypeOK'
  <2>1. Db!TypeOK' /\ Entry(k)' = Null /\ Others(k)
    BY <1>1, <1>2, <1>8
       DEF Db!Delete, Others, Db!Entry, Db!Read, Db!TypeOK
  <2> QED BY <1>8, <2>1 DEF Db!Delete, Sees
<1>9. ASSUME Db!Flush
      PROVE  Sees /\ Db!TypeOK'
  <2>1. Db!TypeOK' /\ \A k \in Keys : Entry(k)' = Null
    BY <1>1, <1>2, <1>9 DEF Db!Flush, Db!Entry, Db!Read, Db!TypeOK
  <2> QED BY <1>9, <2>1 DEF Db!Flush, Sees
<1>10. ASSUME Db!Tick
       PROVE  Sees /\ Db!TypeOK'
  <2>1. Db!TypeOK' /\ now' = now + 1 /\ now < MaxTime /\ caches' = caches /\ ttls' = ttls
    BY <1>2, <1>10 DEF Db!Tick, Db!TypeOK
  <2>2. Lapses
    <3> SUFFICES ASSUME NEW k \in Keys
                 PROVE  Db!Entry(k)' = IF Db!Entry(k) = Null \/ Db!Entry(k).until <= now'
                                           THEN Null ELSE Db!Entry(k)
      BY <1>1 DEF Lapses
    <3> DEFINE c == caches[k]
               d == ttls[k]
               u == IF d = 0 THEN MaxTime + MaxTime + 2 ELSE d + 1
    <3>1. c # Null => d = 0 \/ d \in Int
      BY <1>2
    <3>2. /\ Db!Read(k) = IF c = Null \/ ~ (d = 0 \/ d >= now) THEN Null ELSE c
          /\ Db!Read(k)' = IF c = Null \/ ~ (d = 0 \/ d >= (now + 1)) THEN Null ELSE c
      BY <2>1, <3>1, <1>2 DEF Db!Read
    <3>3. /\ Db!Entry(k) = IF Db!Read(k) = Null THEN Null ELSE [value |-> Db!Read(k), until |-> u]
          /\ Db!Entry(k)' = IF Db!Read(k)' = Null THEN Null ELSE [value |-> Db!Read(k)', until |-> u]
      BY <2>1 DEF Db!Entry
    <3>4. c # Null => /\ u <= now' <=> ~ (d = 0 \/ d >= (now + 1))
                      /\ ~ (d = 0 \/ d >= now) => ~ (d = 0 \/ d >= (now + 1))
      BY <1>2, <2>1, <3>1
    <3> HIDE DEF u, c, d
    <3>5. [value |-> c, until |-> u].until = u
      OBVIOUS
    <3> QED BY <3>2, <3>3, <3>4, <3>5
  <2> QED BY <1>10, <2>1, <2>2 DEF Db!Tick, Sees
<1> QED BY <1>5, <1>6, <1>7, <1>8, <1>9, <1>10 DEF Db!Next

\* Files: a value and its deadline are written together.
LEMMA FileSees ==
  ASSUME CacheConstants, driver = "file", driver' = driver, File!TypeOK,
         File!Next, File!DeletesLive
  PROVE  Sees /\ File!TypeOK'
<1>0. /\ \A k \in Keys : File!ResolveKey(k) \in File!Files
      /\ \A k \in Keys : File!ResolveKey(File!ResolveKey(k)) \in File!Files
      /\ \A j, k \in Keys : j # k => /\ File!ResolveKey(j) # File!ResolveKey(k)
                                     /\ File!ResolveKey(j) # File!ResolveKey(File!ResolveKey(k))
  BY DEF Keys, File!Keys, File!ResolveKey, File!Files
<1>1. \A k \in Keys : Entry(k) = File!Entry(k) /\ Entry(k)' = File!Entry(k)'
  BY DEF Entry
<1>2. /\ now \in 1 .. MaxTime /\ MaxTime \in Nat
      /\ caches \in [File!Files -> Values \union {Null}]
      /\ ttls \in [File!Files -> 2 .. MaxTime + MaxTime \union {Null}]
      /\ Null \notin Values /\ Null \notin Int /\ Ttls \subseteq 0 .. MaxTime
  BY DEF File!TypeOK, CacheConstants
<1>3. ASSUME NEW k \in Keys, NEW v \in Values, NEW ttl \in Ttls,
             File!Store(k, v, ttl), now' = now
      PROVE  Becomes(k, v, ttl) /\ File!TypeOK'
  <2> DEFINE f == File!ResolveKey(k)
  <2>1. /\ caches' = [File!CachesWithout(f) EXCEPT ![f] = v]
        /\ ttls' = IF ttl = 0 THEN File!TtlsWithout(f)
                              ELSE [File!TtlsWithout(f) EXCEPT ![f] = ttl + now]
    BY <1>3 DEF File!Store
  <2>2. f \in File!Files /\ File!ResolveKey(f) \in File!Files
    BY <1>0
  <2>3. /\ caches' \in [File!Files -> Values \union {Null}] /\ caches'[f] = v
        /\ \A j \in Keys \ {k} : caches'[File!ResolveKey(j)] = caches[File!ResolveKey(j)]
    <3> HIDE DEF f
    <3>1. \A j \in Keys \ {k} : /\ File!ResolveKey(j) \in File!Files /\ File!ResolveKey(j) # f
                                /\ File!ResolveKey(j) # File!ResolveKey(f)
      BY <1>0 DEF f
    <3> QED BY <1>2, <2>1, <2>2, <3>1 DEF File!CachesWithout
  <2>4. /\ ttls' \in [File!Files -> 2 .. MaxTime + MaxTime \union {Null}]
        /\ ttl = 0 => ttls'[f] \in {Null, ttls[f]}
        /\ ttl # 0 => ttls'[f] = ttl + now
        /\ \A j \in Keys \ {k} : ttls'[File!ResolveKey(j)] = ttls[File!ResolveKey(j)]
    <3> HIDE DEF f
    <3>1. \A j \in Keys \ {k} : /\ File!ResolveKey(j) \in File!Files /\ File!ResolveKey(j) # f
                                /\ File!ResolveKey(j) # File!ResolveKey(f)
      BY <1>0 DEF f
    <3>2. ttl # 0 => ttl + now \in 2 .. MaxTime + MaxTime
      BY <1>2
    <3> QED BY <1>2, <2>1, <2>2, <3>1, <3>2 DEF File!TtlsWithout
  <2>5. Others(k)
    BY <1>1, <1>3, <2>3, <2>4 DEF Others, File!Entry, File!Read, File!GetSingleKeyValue, File!HasCacheFile
  <2> DEFINE u == IF ttls'[f] = Null THEN MaxTime + MaxTime + 2 ELSE ttls'[f]
  <2>6. Entry(k)' = Null \/ Entry(k)' = [value |-> v, until |-> u]
    BY <1>1, <2>3 DEF File!Entry, File!Read, File!GetSingleKeyValue, File!HasCacheFile, File!ResolveKey
  <2>7. u \in Int /\ 1 <= u /\ u <= MaxTime + MaxTime + 2 /\ (ttl # 0 => u <= now + ttl + 1)
    BY <1>2, <2>2, <2>4
  <2>8. Entry(k)' \in Contract!Outcomes(v, ttl)
    <3> HIDE DEF u
    <3>1. [value |-> v, until |-> u] \in Contract!Outcomes(v, ttl)
      BY <1>2, <2>7, OutcomeOf
    <3> QED BY <2>6, <3>1 DEF Contract!Outcomes
  <2> QED BY <1>2, <1>3, <2>3, <2>4, <2>5, <2>8 DEF Becomes, File!TypeOK
<1>4. ASSUME UNCHANGED <<now, caches, ttls>>
      PROVE  Stays /\ File!TypeOK'
  BY <1>1, <1>4 DEF Stays, File!Entry, File!Read, File!GetSingleKeyValue, File!HasCacheFile, File!ResolveKey, File!TypeOK
<1>5. ASSUME NEW k \in Keys, NEW v \in Values, NEW ttl \in Ttls, File!Set(k, v, ttl)
      PROVE  Sees /\ File!TypeOK'
  <2>1. File!Store(k, v, ttl) /\ now' = now /\ last' = <<"set", k>>
    BY <1>5 DEF File!Set
  <2>2. Becomes(k, v, ttl) /\ File!TypeOK'
    BY <1>3, <2>1
  <2>3. Sees
    BY <2>1, <2>2 DEF Sees
  <2> QED BY <2>2, <2>3
<1>6. ASSUME NEW k \in Keys, NEW v \in Values, NEW ttl \in Ttls, File!Add(k, v, ttl)
      PROVE  Sees /\ File!TypeOK'
  <2>1. CASE File!HasCacheFile(File!ResolveKey(k))
    <3>1. /\ UNCHANGED <<now, caches, ttls>> /\ last' = <<"add", k, FALSE>>
      BY <1>6, <2>1 DEF File!Add
    <3>2. Stays /\ File!TypeOK'
      BY <1>4, <3>1
    <3>3. Sees
      BY <3>1, <3>2 DEF Sees
    <3> QED BY <3>2, <3>3
  <2>2. CASE ~ (File!HasCacheFile(File!ResolveKey(k)))
    <3>1. Entry(k) = Null
      BY <1>1, <2>2 DEF File!Entry, File!Read, File!GetSingleKeyValue
    <3>2. File!Store(k, v, ttl) /\ now' = now /\ last' = <<"add", k, TRUE>>
      BY <1>6, <2>2 DEF File!Add
    <3>3. Becomes(k, v, ttl) /\ File!TypeOK'
      BY <1>3, <3>2
    <3>4. Sees
      BY <3>1, <3>2, <3>3 DEF Sees
    <3> QED BY <3>3, <3>4
  <2> QED BY <2>1, <2>2
<1>7. ASSUME NEW k \in Keys, File!Get(k)
      PROVE  Sees /\ File!TypeOK'
  <2>1. File!Read(k) = Answer(k)
    <3> DEFINE e == [value |-> File!Read(k), until |-> IF ttls[File!ResolveKey(k)] = Null THEN MaxTime + MaxTime + 2 ELSE ttls[File!ResolveKey(k)]]
    <3>1. File!Read(k) # Null => File!Read(k) \in Values
      BY <1>0, <1>2 DEF File!Read, File!GetSingleKeyValue, File!HasCacheFile
    <3>2. File!Read(k) # Null => e \in [value : Values, until : Int]
      BY <1>0, <1>2, <3>1 DEF File!Read, File!GetSingleKeyValue, File!HasCacheFile
    <3>3. File!Read(k) # Null => Entry(k) = e /\ e # Null /\ e.value = File!Read(k)
      BY <1>1, <3>2 DEF File!Entry, CacheConstants
    <3> HIDE DEF e
    <3>4. File!Read(k) = Null => Entry(k) = Null
      BY <1>1 DEF File!Entry
    <3> QED BY <3>3, <3>4 DEF Answer
  <2> QED BY <1>4, <1>7, <2>1 DEF File!Get, Sees
<1>8. ASSUME NEW k \in Keys, File!Delete(k)
      PROVE  Sees /\ File!TypeOK'
  <2> DEFINE f == File!ResolveKey(k)
  <2>0. caches[f] = File!Read(k)
    BY <1>8 DEF File!DeletesLive, Keys, File!Keys, PrefixedFile!Keys
  <2>1. /\ now' = now /\ last' = <<"delete", k>>
        /\ caches' = IF File!HasCacheFile(f) THEN [caches EXCEPT ![f] = Null] ELSE caches
        /\ ttls' = [ttls EXCEPT ![f] = Null]
    BY <1>8 DEF File!Delete, File!CachesWithout, File!TtlsWithout
  <2>2. f \in File!Files /\ \A j \in Keys \ {k} : File!ResolveKey(j) # f
    BY <1>0
  <2>3. caches'[f] = Null
    BY <1>2, <2>0, <2>1, <2>2 DEF File!Read, File!GetSingleKeyValue
  <2>4. \A j \in Keys \ {k} : /\ caches'[File!ResolveKey(j)] = caches[File!ResolveKey(j)]
                              /\ ttls'[File!ResolveKey(j)] = ttls[File!ResolveKey(j)]
    BY <1>2, <2>1, <2>2
  <2>5. Entry(k)' = Null
    BY <1>1, <2>3 DEF File!Entry, File!Read, File!GetSingleKeyValue, File!HasCacheFile, File!ResolveKey
  <2>6. Others(k)
    BY <1>1, <2>1, <2>4 DEF Others, File!Entry, File!Read, File!GetSingleKeyValue, File!HasCacheFile
  <2>7. File!TypeOK'
    BY <1>2, <2>1, <2>2 DEF File!TypeOK
  <2>8. Sees
    BY <2>1, <2>5, <2>6 DEF Sees
  <2> QED BY <2>7, <2>8
<1>9. ASSUME File!Flush
      PROVE  Sees /\ File!TypeOK'
  <2>1. File!TypeOK' /\ \A k \in Keys : Entry(k)' = Null
    BY <1>1, <1>0, <1>2, <1>9 DEF File!Flush, File!Entry, File!Read, File!GetSingleKeyValue, File!HasCacheFile, File!ResolveKey, File!TypeOK
  <2> QED BY <1>9, <2>1 DEF File!Flush, Sees
<1>10. ASSUME File!Tick
       PROVE  Sees /\ File!TypeOK'
  <2>1. File!TypeOK' /\ now' = now + 1 /\ now < MaxTime /\ caches' = caches /\ ttls' = ttls
    BY <1>0, <1>2, <1>10 DEF File!Tick, File!TypeOK
  <2>2. Lapses
    <3> SUFFICES ASSUME NEW k \in Keys
                 PROVE  File!Entry(k)' = IF File!Entry(k) = Null \/ File!Entry(k).until <= now'
                                           THEN Null ELSE File!Entry(k)
      BY <1>1 DEF Lapses
    <3> DEFINE c == caches[File!ResolveKey(k)]
               d == ttls[File!ResolveKey(k)]
               u == IF d = Null THEN MaxTime + MaxTime + 2 ELSE d
    <3>1. c # Null => d = Null \/ d \in Int
      BY <1>0, <1>2
    <3>2. /\ File!Read(k) = IF c = Null \/ (d # Null /\ d <= now) THEN Null ELSE c
          /\ File!Read(k)' = IF c = Null \/ (d # Null /\ d <= (now + 1)) THEN Null ELSE c
      BY <2>1, <3>1, <1>0, <1>2 DEF File!Read, File!GetSingleKeyValue, File!HasCacheFile, File!ResolveKey
    <3>3. /\ File!Entry(k) = IF File!Read(k) = Null THEN Null ELSE [value |-> File!Read(k), until |-> u]
          /\ File!Entry(k)' = IF File!Read(k)' = Null THEN Null ELSE [value |-> File!Read(k)', until |-> u]
      BY <2>1 DEF File!Entry, File!ResolveKey
    <3>4. c # Null => /\ u <= now' <=> (d # Null /\ d <= (now + 1))
                      /\ (d # Null /\ d <= now) => (d # Null /\ d <= (now + 1))
      BY <1>0, <1>2, <2>1, <3>1
    <3> HIDE DEF u, c, d
    <3>5. [value |-> c, until |-> u].until = u
      OBVIOUS
    <3> QED BY <3>2, <3>3, <3>4, <3>5
  <2> QED BY <1>10, <2>1, <2>2 DEF File!Tick, Sees
<1> QED BY <1>5, <1>6, <1>7, <1>8, <1>9, <1>10 DEF File!Next, Keys, File!Keys, PrefixedFile!Keys

\* Files under a prefix: set prefixes its key twice when it deletes.
LEMMA PrefixedFileSees ==
  ASSUME CacheConstants, driver = "prefixed_file", driver' = driver, PrefixedFile!TypeOK,
         PrefixedFile!Next, PrefixedFile!DeletesLive
  PROVE  Sees /\ PrefixedFile!TypeOK'
<1>0. /\ \A k \in Keys : PrefixedFile!ResolveKey(k) \in PrefixedFile!Files
      /\ \A k \in Keys : PrefixedFile!ResolveKey(PrefixedFile!ResolveKey(k)) \in PrefixedFile!Files
      /\ \A j, k \in Keys : j # k => /\ PrefixedFile!ResolveKey(j) # PrefixedFile!ResolveKey(k)
                                     /\ PrefixedFile!ResolveKey(j) # PrefixedFile!ResolveKey(PrefixedFile!ResolveKey(k))
  BY DEF Keys, File!Keys, PrefixedFile!ResolveKey, PrefixedFile!Files
<1>1. \A k \in Keys : Entry(k) = PrefixedFile!Entry(k) /\ Entry(k)' = PrefixedFile!Entry(k)'
  BY DEF Entry
<1>2. /\ now \in 1 .. MaxTime /\ MaxTime \in Nat
      /\ caches \in [PrefixedFile!Files -> Values \union {Null}]
      /\ ttls \in [PrefixedFile!Files -> 2 .. MaxTime + MaxTime \union {Null}]
      /\ Null \notin Values /\ Null \notin Int /\ Ttls \subseteq 0 .. MaxTime
  BY DEF PrefixedFile!TypeOK, CacheConstants
<1>3. ASSUME NEW k \in Keys, NEW v \in Values, NEW ttl \in Ttls,
             PrefixedFile!Store(k, v, ttl), now' = now
      PROVE  Becomes(k, v, ttl) /\ PrefixedFile!TypeOK'
  <2> DEFINE f == PrefixedFile!ResolveKey(k)
  <2>1. /\ caches' = [PrefixedFile!CachesWithout(f) EXCEPT ![f] = v]
        /\ ttls' = IF ttl = 0 THEN PrefixedFile!TtlsWithout(f)
                              ELSE [PrefixedFile!TtlsWithout(f) EXCEPT ![f] = ttl + now]
    BY <1>3 DEF PrefixedFile!Store
  <2>2. f \in PrefixedFile!Files /\ PrefixedFile!ResolveKey(f) \in PrefixedFile!Files
    BY <1>0
  <2>3. /\ caches' \in [PrefixedFile!Files -> Values \union {Null}] /\ caches'[f] = v
        /\ \A j \in Keys \ {k} : caches'[PrefixedFile!ResolveKey(j)] = caches[PrefixedFile!ResolveKey(j)]
    <3> HIDE DEF f
    <3>1. \A j \in Keys \ {k} : /\ PrefixedFile!ResolveKey(j) \in PrefixedFile!Files /\ PrefixedFile!ResolveKey(j) # f
                                /\ PrefixedFile!ResolveKey(j) # PrefixedFile!ResolveKey(f)
      BY <1>0 DEF f
    <3> QED BY <1>2, <2>1, <2>2, <3>1 DEF PrefixedFile!CachesWithout
  <2>4. /\ ttls' \in [PrefixedFile!Files -> 2 .. MaxTime + MaxTime \union {Null}]
        /\ ttl = 0 => ttls'[f] \in {Null, ttls[f]}
        /\ ttl # 0 => ttls'[f] = ttl + now
        /\ \A j \in Keys \ {k} : ttls'[PrefixedFile!ResolveKey(j)] = ttls[PrefixedFile!ResolveKey(j)]
    <3> HIDE DEF f
    <3>1. \A j \in Keys \ {k} : /\ PrefixedFile!ResolveKey(j) \in PrefixedFile!Files /\ PrefixedFile!ResolveKey(j) # f
                                /\ PrefixedFile!ResolveKey(j) # PrefixedFile!ResolveKey(f)
      BY <1>0 DEF f
    <3>2. ttl # 0 => ttl + now \in 2 .. MaxTime + MaxTime
      BY <1>2
    <3> QED BY <1>2, <2>1, <2>2, <3>1, <3>2 DEF PrefixedFile!TtlsWithout
  <2>5. Others(k)
    BY <1>1, <1>3, <2>3, <2>4 DEF Others, PrefixedFile!Entry, PrefixedFile!Read, PrefixedFile!GetSingleKeyValue, PrefixedFile!HasCacheFile
  <2> DEFINE u == IF ttls'[f] = Null THEN MaxTime + MaxTime + 2 ELSE ttls'[f]
  <2>6. Entry(k)' = Null \/ Entry(k)' = [value |-> v, until |-> u]
    BY <1>1, <2>3 DEF PrefixedFile!Entry, PrefixedFile!Read, PrefixedFile!GetSingleKeyValue, PrefixedFile!HasCacheFile, PrefixedFile!ResolveKey
  <2>7. u \in Int /\ 1 <= u /\ u <= MaxTime + MaxTime + 2 /\ (ttl # 0 => u <= now + ttl + 1)
    BY <1>2, <2>2, <2>4
  <2>8. Entry(k)' \in Contract!Outcomes(v, ttl)
    <3> HIDE DEF u
    <3>1. [value |-> v, until |-> u] \in Contract!Outcomes(v, ttl)
      BY <1>2, <2>7, OutcomeOf
    <3> QED BY <2>6, <3>1 DEF Contract!Outcomes
  <2> QED BY <1>2, <1>3, <2>3, <2>4, <2>5, <2>8 DEF Becomes, PrefixedFile!TypeOK
<1>4. ASSUME UNCHANGED <<now, caches, ttls>>
      PROVE  Stays /\ PrefixedFile!TypeOK'
  BY <1>1, <1>4 DEF Stays, PrefixedFile!Entry, PrefixedFile!Read, PrefixedFile!GetSingleKeyValue, PrefixedFile!HasCacheFile, PrefixedFile!ResolveKey, PrefixedFile!TypeOK
<1>5. ASSUME NEW k \in Keys, NEW v \in Values, NEW ttl \in Ttls, PrefixedFile!Set(k, v, ttl)
      PROVE  Sees /\ PrefixedFile!TypeOK'
  <2>1. PrefixedFile!Store(k, v, ttl) /\ now' = now /\ last' = <<"set", k>>
    BY <1>5 DEF PrefixedFile!Set
  <2>2. Becomes(k, v, ttl) /\ PrefixedFile!TypeOK'
    BY <1>3, <2>1
  <2>3. Sees
    BY <2>1, <2>2 DEF Sees
  <2> QED BY <2>2, <2>3
<1>6. ASSUME NEW k \in Keys, NEW v \in Values, NEW ttl \in Ttls, PrefixedFile!Add(k, v, ttl)
      PROVE  Sees /\ PrefixedFile!TypeOK'
  <2>1. CASE PrefixedFile!HasCacheFile(PrefixedFile!ResolveKey(k))
    <3>1. /\ UNCHANGED <<now, caches, ttls>> /\ last' = <<"add", k, FALSE>>
      BY <1>6, <2>1 DEF PrefixedFile!Add
    <3>2. Stays /\ PrefixedFile!TypeOK'
      BY <1>4, <3>1
    <3>3. Sees
      BY <3>1, <3>2 DEF Sees
    <3> QED BY <3>2, <3>3
  <2>2. CASE ~ (PrefixedFile!HasCacheFile(PrefixedFile!ResolveKey(k)))
    <3>1. Entry(k) = Null
      BY <1>1, <2>2 DEF PrefixedFile!Entry, PrefixedFile!Read, PrefixedFile!GetSingleKeyValue
    <3>2. PrefixedFile!Store(k, v, ttl) /\ now' = now /\ last' = <<"add", k, TRUE>>
      BY <1>6, <2>2 DEF PrefixedFile!Add
    <3>3. Becomes(k, v, ttl) /\ PrefixedFile!TypeOK'
      BY <1>3, <3>2
    <3>4. Sees
      BY <3>1, <3>2, <3>3 DEF Sees
    <3> QED BY <3>3, <3>4
  <2> QED BY <2>1, <2>2
<1>7. ASSUME NEW k \in Keys, PrefixedFile!Get(k)
      PROVE  Sees /\ PrefixedFile!TypeOK'
  <2>1. PrefixedFile!Read(k) = Answer(k)
    <3> DEFINE e == [value |-> PrefixedFile!Read(k), until |-> IF ttls[PrefixedFile!ResolveKey(k)] = Null THEN MaxTime + MaxTime + 2 ELSE ttls[PrefixedFile!ResolveKey(k)]]
    <3>1. PrefixedFile!Read(k) # Null => PrefixedFile!Read(k) \in Values
      BY <1>0, <1>2 DEF PrefixedFile!Read, PrefixedFile!GetSingleKeyValue, PrefixedFile!HasCacheFile
    <3>2. PrefixedFile!Read(k) # Null => e \in [value : Values, until : Int]
      BY <1>0, <1>2, <3>1 DEF PrefixedFile!Read, PrefixedFile!GetSingleKeyValue, PrefixedFile!HasCacheFile
    <3>3. PrefixedFile!Read(k) # Null => Entry(k) = e /\ e # Null /\ e.value = PrefixedFile!Read(k)
      BY <1>1, <3>2 DEF PrefixedFile!Entry, CacheConstants
    <3> HIDE DEF e
    <3>4. PrefixedFile!Read(k) = Null => Entry(k) = Null
      BY <1>1 DEF PrefixedFile!Entry
    <3> QED BY <3>3, <3>4 DEF Answer
  <2> QED BY <1>4, <1>7, <2>1 DEF PrefixedFile!Get, Sees
<1>8. ASSUME NEW k \in Keys, PrefixedFile!Delete(k)
      PROVE  Sees /\ PrefixedFile!TypeOK'
  <2> DEFINE f == PrefixedFile!ResolveKey(k)
  <2>0. caches[f] = PrefixedFile!Read(k)
    BY <1>8 DEF PrefixedFile!DeletesLive, Keys, File!Keys, PrefixedFile!Keys
  <2>1. /\ now' = now /\ last' = <<"delete", k>>
        /\ caches' = IF PrefixedFile!HasCacheFile(f) THEN [caches EXCEPT ![f] = Null] ELSE caches
        /\ ttls' = [ttls EXCEPT ![f] = Null]
    BY <1>8 DEF PrefixedFile!Delete, PrefixedFile!CachesWithout, PrefixedFile!TtlsWithout
  <2>2. f \in PrefixedFile!Files /\ \A j \in Keys \ {k} : PrefixedFile!ResolveKey(j) # f
    BY <1>0
  <2>3. caches'[f] = Null
    BY <1>2, <2>0, <2>1, <2>2 DEF PrefixedFile!Read, PrefixedFile!GetSingleKeyValue
  <2>4. \A j \in Keys \ {k} : /\ caches'[PrefixedFile!ResolveKey(j)] = caches[PrefixedFile!ResolveKey(j)]
                              /\ ttls'[PrefixedFile!ResolveKey(j)] = ttls[PrefixedFile!ResolveKey(j)]
    BY <1>2, <2>1, <2>2
  <2>5. Entry(k)' = Null
    BY <1>1, <2>3 DEF PrefixedFile!Entry, PrefixedFile!Read, PrefixedFile!GetSingleKeyValue, PrefixedFile!HasCacheFile, PrefixedFile!ResolveKey
  <2>6. Others(k)
    BY <1>1, <2>1, <2>4 DEF Others, PrefixedFile!Entry, PrefixedFile!Read, PrefixedFile!GetSingleKeyValue, PrefixedFile!HasCacheFile
  <2>7. PrefixedFile!TypeOK'
    BY <1>2, <2>1, <2>2 DEF PrefixedFile!TypeOK
  <2>8. Sees
    BY <2>1, <2>5, <2>6 DEF Sees
  <2> QED BY <2>7, <2>8
<1>9. ASSUME PrefixedFile!Flush
      PROVE  Sees /\ PrefixedFile!TypeOK'
  <2>1. PrefixedFile!TypeOK' /\ \A k \in Keys : Entry(k)' = Null
    BY <1>1, <1>0, <1>2, <1>9 DEF PrefixedFile!Flush, PrefixedFile!Entry, PrefixedFile!Read, PrefixedFile!GetSingleKeyValue, PrefixedFile!HasCacheFile, PrefixedFile!ResolveKey, PrefixedFile!TypeOK
  <2> QED BY <1>9, <2>1 DEF PrefixedFile!Flush, Sees
<1>10. ASSUME PrefixedFile!Tick
       PROVE  Sees /\ PrefixedFile!TypeOK'
  <2>1. PrefixedFile!TypeOK' /\ now' = now + 1 /\ now < MaxTime /\ caches' = caches /\ ttls' = ttls
    BY <1>0, <1>2, <1>10 DEF PrefixedFile!Tick, PrefixedFile!TypeOK
  <2>2. Lapses
    <3> SUFFICES ASSUME NEW k \in Keys
                 PROVE  PrefixedFile!Entry(k)' = IF PrefixedFile!Entry(k) = Null \/ PrefixedFile!Entry(k).until <= now'
                                           THEN Null ELSE PrefixedFile!Entry(k)
      BY <1>1 DEF Lapses
    <3> DEFINE c == caches[PrefixedFile!ResolveKey(k)]
               d == ttls[PrefixedFile!ResolveKey(k)]
               u == IF d = Null THEN MaxTime + MaxTime + 2 ELSE d
    <3>1. c # Null => d = Null \/ d \in Int
      BY <1>0, <1>2
    <3>2. /\ PrefixedFile!Read(k) = IF c = Null \/ (d # Null /\ d <= now) THEN Null ELSE c
          /\ PrefixedFile!Read(k)' = IF c = Null \/ (d # Null /\ d <= (now + 1)) THEN Null ELSE c
      BY <2>1, <3>1, <1>0, <1>2 DEF PrefixedFile!Read, PrefixedFile!GetSingleKeyValue, PrefixedFile!HasCacheFile, PrefixedFile!ResolveKey
    <3>3. /\ PrefixedFile!Entry(k) = IF PrefixedFile!Read(k) = Null THEN Null ELSE [value |-> PrefixedFile!Read(k), until |-> u]
          /\ PrefixedFile!Entry(k)' = IF PrefixedFile!Read(k)' = Null THEN Null ELSE [value |-> PrefixedFile!Read(k)', until |-> u]
      BY <2>1 DEF PrefixedFile!Entry, PrefixedFile!ResolveKey
    <3>4. c # Null => /\ u <= now' <=> (d # Null /\ d <= (now + 1))
                      /\ (d # Null /\ d <= now) => (d # Null /\ d <= (now + 1))
      BY <1>0, <1>2, <2>1, <3>1
    <3> HIDE DEF u, c, d
    <3>5. [value |-> c, until |-> u].until = u
      OBVIOUS
    <3> QED BY <3>2, <3>3, <3>4, <3>5
  <2> QED BY <1>10, <2>1, <2>2 DEF PrefixedFile!Tick, Sees
<1> QED BY <1>5, <1>6, <1>7, <1>8, <1>9, <1>10 DEF PrefixedFile!Next, Keys, File!Keys, PrefixedFile!Keys

-----------------------------------------------------------------------------
\* An entry is not null.
LEMMA EntryReads ==
  ASSUME CacheConstants, NEW v \in Values, NEW u \in Int
  PROVE  [value |-> v, until |-> u] # Null /\ [value |-> v, until |-> u].value = v
<1>1. [value |-> v, until |-> u] \in [value : Values, until : Int]
  OBVIOUS
<1> QED BY <1>1 DEF CacheConstants

\* What the step stores can be read in the same second.
ReadsNow(k, v) == Entry(k)' # Null /\ Entry(k)'.value = v

LEMMA MemoryReads ==
  ASSUME CacheConstants, driver = "memory", driver' = driver, Memory!TypeOK, now' = now,
         NEW k \in Keys, NEW v \in Values, NEW ttl \in Ttls, Memory!Store(k, v, ttl),
         ~ Overshadowed(k, ttl)
  PROVE  ReadsNow(k, v)
<1>1. /\ now \in 1 .. MaxTime /\ MaxTime \in Nat
      /\ Null \notin Values /\ Null \notin Int /\ Ttls \subseteq 0 .. MaxTime
  BY DEF Memory!TypeOK, CacheConstants
<1>2. caches'[k] = v /\ v # Null
  BY <1>1 DEF Memory!Store, Memory!Deadlines, Memory!TypeOK
<1>3. ttls'[k] = Null \/ (ttls'[k] \in Int /\ ttls'[k] > now)
  BY <1>1 DEF Memory!Store, Memory!Deadlines, Memory!TypeOK, Overshadowed
<1> DEFINE u == IF ttls'[k] = Null THEN MaxTime + MaxTime + 2 ELSE ttls'[k]
<1>4. u \in Int
  BY <1>1, <1>3
<1>5. Entry(k)' = Memory!Entry(k)'
  BY DEF Entry
<1>6. Memory!Read(k)' = v
  BY <1>1, <1>2, <1>3 DEF Memory!Read, Memory!Expired
<1>7. Entry(k)' = [value |-> v, until |-> u]
  BY <1>2, <1>5, <1>6 DEF Memory!Entry
<1> HIDE DEF u
<1> QED BY <1>4, <1>7, EntryReads DEF ReadsNow

LEMMA SessionReads ==
  ASSUME CacheConstants, driver = "session", driver' = driver, Session!TypeOK, now' = now,
         NEW k \in Keys, NEW v \in Values, NEW ttl \in Ttls, Session!Store(k, v, ttl)
  PROVE  ReadsNow(k, v)
<1>1. /\ now \in 1 .. MaxTime /\ MaxTime \in Nat
      /\ Null \notin Values /\ Null \notin Int /\ Ttls \subseteq 0 .. MaxTime
  BY DEF Session!TypeOK, CacheConstants
<1>2. caches'[k] = v /\ v # Null
  BY <1>1 DEF Session!Store, Session!Deadline, Session!TypeOK
<1>3. ttls'[k] = 0 \/ (ttls'[k] \in Int /\ ttls'[k] > now)
  BY <1>1 DEF Session!Store, Session!Deadline, Session!TypeOK
<1> DEFINE u == IF ttls'[k] = 0 THEN MaxTime + MaxTime + 2 ELSE ttls'[k]
<1>4. u \in Int
  BY <1>1, <1>3
<1>5. Entry(k)' = Session!Entry(k)'
  BY DEF Entry
<1>6. Session!Read(k)' = v
  BY <1>1, <1>2, <1>3 DEF Session!Read
<1>7. Entry(k)' = [value |-> v, until |-> u]
  BY <1>2, <1>5, <1>6 DEF Session!Entry
<1> HIDE DEF u
<1> QED BY <1>4, <1>7, EntryReads DEF ReadsNow

LEMMA DbReads ==
  ASSUME CacheConstants, driver = "db", driver' = driver, Db!TypeOK, now' = now,
         NEW k \in Keys, NEW v \in Values, NEW ttl \in Ttls, NEW d,
         d \in {Db!Deadline(ttl), ttl + now}, Db!Write(k, v, d)
  PROVE  ReadsNow(k, v)
<1>1. /\ now \in 1 .. MaxTime /\ MaxTime \in Nat
      /\ Null \notin Values /\ Null \notin Int /\ Ttls \subseteq 0 .. MaxTime
  BY DEF Db!TypeOK, CacheConstants
<1>2. caches'[k] = v /\ v # Null
  BY <1>1 DEF Db!Write, Db!Deadline, Db!TypeOK
<1>3. ttls'[k] = 0 \/ (ttls'[k] \in Int /\ ttls'[k] >= now)
  BY <1>1 DEF Db!Write, Db!Deadline, Db!TypeOK
<1> DEFINE u == IF ttls'[k] = 0 THEN MaxTime + MaxTime + 2 ELSE ttls'[k] + 1
<1>4. u \in Int
  BY <1>1, <1>3
<1>5. Entry(k)' = Db!Entry(k)'
  BY DEF Entry
<1>6. Db!Read(k)' = v
  BY <1>1, <1>2, <1>3 DEF Db!Read
<1>7. Entry(k)' = [value |-> v, until |-> u]
  BY <1>2, <1>5, <1>6 DEF Db!Entry
<1> HIDE DEF u
<1> QED BY <1>4, <1>7, EntryReads DEF ReadsNow

LEMMA FileReads ==
  ASSUME CacheConstants, driver = "file", driver' = driver, File!TypeOK, now' = now,
         NEW k \in Keys, NEW v \in Values, NEW ttl \in Ttls, File!Store(k, v, ttl),
         ~ Overshadowed(k, ttl)
  PROVE  ReadsNow(k, v)
<1>1. /\ now \in 1 .. MaxTime /\ MaxTime \in Nat
      /\ Null \notin Values /\ Null \notin Int /\ Ttls \subseteq 0 .. MaxTime
  BY DEF File!TypeOK, CacheConstants
<1>0. /\ File!ResolveKey(k) \in File!Files /\ File!ResolveKey(File!ResolveKey(k)) \in File!Files
      /\ driver = "file" => File!ResolveKey(File!ResolveKey(k)) = File!ResolveKey(k)
  BY DEF Keys, File!Keys, File!ResolveKey, File!Files
<1>2. caches'[File!ResolveKey(k)] = v /\ v # Null
  BY <1>1, <1>0 DEF File!Store, File!CachesWithout, File!TtlsWithout, File!TypeOK
<1>3. ttls'[File!ResolveKey(k)] = Null \/ (ttls'[File!ResolveKey(k)] \in Int /\ ttls'[File!ResolveKey(k)] > now)
  BY <1>1, <1>0 DEF File!Store, File!CachesWithout, File!TtlsWithout, File!TypeOK, Overshadowed
<1> DEFINE u == IF ttls'[File!ResolveKey(k)] = Null THEN MaxTime + MaxTime + 2 ELSE ttls'[File!ResolveKey(k)]
<1>4. u \in Int
  BY <1>1, <1>3
<1>5. Entry(k)' = File!Entry(k)'
  BY DEF Entry
<1>6. File!Read(k)' = v
  BY <1>1, <1>2, <1>3 DEF File!Read, File!GetSingleKeyValue, File!HasCacheFile, File!ResolveKey
<1>7. Entry(k)' = [value |-> v, until |-> u]
  BY <1>2, <1>5, <1>6 DEF File!Entry, File!ResolveKey
<1> HIDE DEF u
<1> QED BY <1>4, <1>7, EntryReads DEF ReadsNow

LEMMA PrefixedFileReads ==
  ASSUME CacheConstants, driver = "prefixed_file", driver' = driver, PrefixedFile!TypeOK, now' = now,
         NEW k \in Keys, NEW v \in Values, NEW ttl \in Ttls, PrefixedFile!Store(k, v, ttl),
         ~ Overshadowed(k, ttl)
  PROVE  ReadsNow(k, v)
<1>1. /\ now \in 1 .. MaxTime /\ MaxTime \in Nat
      /\ Null \notin Values /\ Null \notin Int /\ Ttls \subseteq 0 .. MaxTime
  BY DEF PrefixedFile!TypeOK, CacheConstants
<1>0. /\ PrefixedFile!ResolveKey(k) \in PrefixedFile!Files /\ PrefixedFile!ResolveKey(PrefixedFile!ResolveKey(k)) \in PrefixedFile!Files
      /\ driver = "file" => PrefixedFile!ResolveKey(PrefixedFile!ResolveKey(k)) = PrefixedFile!ResolveKey(k)
  BY DEF Keys, File!Keys, PrefixedFile!ResolveKey, PrefixedFile!Files
<1>2. caches'[PrefixedFile!ResolveKey(k)] = v /\ v # Null
  BY <1>1, <1>0 DEF PrefixedFile!Store, PrefixedFile!CachesWithout, PrefixedFile!TtlsWithout, PrefixedFile!TypeOK
<1>3. ttls'[PrefixedFile!ResolveKey(k)] = Null \/ (ttls'[PrefixedFile!ResolveKey(k)] \in Int /\ ttls'[PrefixedFile!ResolveKey(k)] > now)
  BY <1>1, <1>0 DEF PrefixedFile!Store, PrefixedFile!CachesWithout, PrefixedFile!TtlsWithout, PrefixedFile!TypeOK, Overshadowed
<1> DEFINE u == IF ttls'[PrefixedFile!ResolveKey(k)] = Null THEN MaxTime + MaxTime + 2 ELSE ttls'[PrefixedFile!ResolveKey(k)]
<1>4. u \in Int
  BY <1>1, <1>3
<1>5. Entry(k)' = PrefixedFile!Entry(k)'
  BY DEF Entry
<1>6. PrefixedFile!Read(k)' = v
  BY <1>1, <1>2, <1>3 DEF PrefixedFile!Read, PrefixedFile!GetSingleKeyValue, PrefixedFile!HasCacheFile, PrefixedFile!ResolveKey
<1>7. Entry(k)' = [value |-> v, until |-> u]
  BY <1>2, <1>5, <1>6 DEF PrefixedFile!Entry, PrefixedFile!ResolveKey
<1> HIDE DEF u
<1> QED BY <1>4, <1>7, EntryReads DEF ReadsNow

-----------------------------------------------------------------------------
\* The store of the chosen driver keeps its type.
LEMMA InitTypeOK == CacheConstants /\ Init => TypeOK
<1>1. CASE CacheConstants /\ driver = "file" /\ File!Init
  BY <1>1 DEF TypeOK, File!Init, File!TypeOK, CacheConstants
<1>2. CASE CacheConstants /\ driver = "prefixed_file" /\ PrefixedFile!Init
  BY <1>2 DEF TypeOK, PrefixedFile!Init, PrefixedFile!TypeOK, CacheConstants
<1>3. CASE CacheConstants /\ driver = "memory" /\ Memory!Init
  BY <1>3 DEF TypeOK, Memory!Init, Memory!TypeOK, CacheConstants
<1>4. CASE CacheConstants /\ driver = "db" /\ Db!Init
  BY <1>4 DEF TypeOK, Db!Init, Db!TypeOK, CacheConstants
<1>5. CASE CacheConstants /\ driver = "session" /\ Session!Init
  BY <1>5 DEF TypeOK, Session!Init, Session!TypeOK, CacheConstants
<1> QED BY <1>1, <1>2, <1>3, <1>4, <1>5 DEF Init

\* Every step is one the contract allows.
LEMMA NextSees ==
  ASSUME CacheConstants, TypeOK, Next
  PROVE  Sees /\ TypeOK'
<1>1. driver' = driver
  BY DEF Next
<1>2. CASE driver = "file" /\ File!Next /\ File!DeletesLive
  BY <1>1, <1>2, FileSees DEF TypeOK
<1>3. CASE driver = "prefixed_file" /\ PrefixedFile!Next /\ PrefixedFile!DeletesLive
  BY <1>1, <1>3, PrefixedFileSees DEF TypeOK
<1>4. CASE driver = "memory" /\ Memory!Next
  BY <1>1, <1>4, MemorySees DEF TypeOK
<1>5. CASE driver = "db" /\ Db!Next
  BY <1>1, <1>5, DbSees DEF TypeOK
<1>6. CASE driver = "session" /\ Session!Next
  BY <1>1, <1>6, SessionSees DEF TypeOK
<1> QED BY <1>2, <1>3, <1>4, <1>5, <1>6 DEF Next

\* Nothing a reader sees changes in a step that changes nothing.
LEMMA StutterStays ==
  ASSUME UNCHANGED vars
  PROVE  UNCHANGED Contract!vars
<1>1. driver' = driver /\ now' = now /\ caches' = caches /\ ttls' = ttls /\ last' = last
  BY DEF vars
<1>2. ASSUME NEW k \in Keys PROVE Entry(k)' = Entry(k)
  <2>1. File!Entry(k)' = File!Entry(k)
    BY <1>1 DEF File!Entry, File!Read, File!GetSingleKeyValue, File!HasCacheFile, File!ResolveKey
  <2>2. PrefixedFile!Entry(k)' = PrefixedFile!Entry(k)
    BY <1>1 DEF PrefixedFile!Entry, PrefixedFile!Read, PrefixedFile!GetSingleKeyValue,
                PrefixedFile!HasCacheFile, PrefixedFile!ResolveKey
  <2>3. Memory!Entry(k)' = Memory!Entry(k)
    BY <1>1 DEF Memory!Entry, Memory!Read, Memory!Expired
  <2>4. Db!Entry(k)' = Db!Entry(k) /\ Session!Entry(k)' = Session!Entry(k)
    BY <1>1 DEF Db!Entry, Db!Read, Session!Entry, Session!Read
  <2> QED BY <1>1, <2>1, <2>2, <2>3, <2>4 DEF Entry
<1> QED BY <1>1, <1>2 DEF Contract!vars

\* What a step stores can be read.
LEMMA NextReads ==
  ASSUME CacheConstants, TypeOK, Next,
         NEW k \in Keys, NEW v \in Values, NEW ttl \in Ttls,
         Sets(k, v, ttl), Stored(k), ~ Overshadowed(k, ttl)
  PROVE  ReadsNow(k, v)
<1>1. driver' = driver
  BY DEF Next
<1>2. last' # <<"add", k, FALSE>>
  <2>1. CASE last' = <<"set", k>>
    <3>1. <<"set", k>>[1] # <<"add", k, FALSE>>[1]
      OBVIOUS
    <3> QED BY <2>1, <3>1
  <2>2. CASE last' = <<"add", k, TRUE>>
    <3>1. <<"add", k, TRUE>>[3] # <<"add", k, FALSE>>[3]
      OBVIOUS
    <3> QED BY <2>2, <3>1
  <2> QED BY <2>1, <2>2 DEF Stored
<1>3. CASE driver = "file"
  <2>1. File!TypeOK /\ (File!Set(k, v, ttl) \/ File!Add(k, v, ttl))
    BY <1>3 DEF TypeOK, Sets
  <2>2. File!Store(k, v, ttl) /\ now' = now
    BY <1>2, <2>1 DEF File!Set, File!Add
  <2> QED BY <1>1, <1>3, <2>1, <2>2, FileReads
<1>4. CASE driver = "prefixed_file"
  <2>1. PrefixedFile!TypeOK /\ (PrefixedFile!Set(k, v, ttl) \/ PrefixedFile!Add(k, v, ttl))
    BY <1>4 DEF TypeOK, Sets
  <2>2. PrefixedFile!Store(k, v, ttl) /\ now' = now
    BY <1>2, <2>1 DEF PrefixedFile!Set, PrefixedFile!Add
  <2> QED BY <1>1, <1>4, <2>1, <2>2, PrefixedFileReads
<1>5. CASE driver = "memory"
  <2>1. Memory!TypeOK /\ (Memory!Set(k, v, ttl) \/ Memory!Add(k, v, ttl))
    BY <1>5 DEF TypeOK, Sets
  <2>2. Memory!Store(k, v, ttl) /\ now' = now
    BY <1>2, <2>1 DEF Memory!Set, Memory!Add
  <2> QED BY <1>1, <1>5, <2>1, <2>2, MemoryReads
<1>6. CASE driver = "db"
  <2>1. Db!TypeOK /\ (Db!Set(k, v, ttl) \/ Db!Add(k, v, ttl))
    BY <1>6 DEF TypeOK, Sets
  <2>2. (Db!Write(k, v, Db!Deadline(ttl)) \/ Db!Write(k, v, ttl + now)) /\ now' = now
    BY <1>2, <2>1 DEF Db!Set, Db!Add
  <2> QED BY <1>1, <1>6, <2>1, <2>2, DbReads
<1>7. CASE driver = "session"
  <2>1. Session!TypeOK /\ (Session!Set(k, v, ttl) \/ Session!Add(k, v, ttl))
    BY <1>7 DEF TypeOK, Sets
  <2>2. Session!Store(k, v, ttl) /\ now' = now
    BY <1>2, <2>1 DEF Session!Set, Session!Add
  <2> QED BY <1>1, <1>7, <2>1, <2>2, SessionReads
<1> QED BY <1>3, <1>4, <1>5, <1>6, <1>7 DEF Next

\* The store of every driver stays well-formed.
THEOREM DriversTypeCorrect ==
  ASSUME CacheConstants
  PROVE  Spec => []TypeOK
<1>1. TypeOK /\ UNCHANGED vars => TypeOK'
  BY DEF vars, TypeOK, File!TypeOK, PrefixedFile!TypeOK, Memory!TypeOK, Db!TypeOK, Session!TypeOK
<1>2. TypeOK /\ [Next]_vars => TypeOK'
  BY <1>1, NextSees
<1> QED BY InitTypeOK, <1>2, PTL DEF Spec

\* Whatever keys and lifetimes its callers use, and whatever deadlines a driver leaves
\* behind, a reader never gets a value that was deleted, flushed, overwritten or has
\* expired, and gets what was just stored unless an older deadline hides it.
THEOREM DriversServeAlways ==
  ASSUME CacheConstants
  PROVE  Spec => DriversServe
<1> DEFINE Reads == \A k \in Keys, v \in Values, ttl \in Ttls :
                      Sets(k, v, ttl) /\ Stored(k) /\ ~ Overshadowed(k, ttl)
                        => Entry(k)' # Null /\ Entry(k)'.value = v
<1>1. Init => Contract!Init
  <2>1. ASSUME Init, NEW k \in Keys PROVE Entry(k) = Null
    <3>1. /\ k \in File!Files /\ File!ResolveKey(k) \in File!Files
          /\ PrefixedFile!ResolveKey(k) \in PrefixedFile!Files
      BY DEF Keys, File!Keys, File!ResolveKey, File!Files, PrefixedFile!ResolveKey, PrefixedFile!Files
    <3>2. CASE driver = "file" /\ File!Init
      BY <3>1, <3>2 DEF Entry, File!Init, File!Entry, File!Read, File!GetSingleKeyValue, File!HasCacheFile
    <3>3. CASE driver = "prefixed_file" /\ PrefixedFile!Init
      BY <3>1, <3>3 DEF Entry, PrefixedFile!Init, PrefixedFile!Entry, PrefixedFile!Read,
                        PrefixedFile!GetSingleKeyValue, PrefixedFile!HasCacheFile
    <3>4. CASE driver = "memory" /\ Memory!Init
      BY <3>4 DEF Entry, Memory!Init, Memory!Entry, Memory!Read
    <3>5. CASE driver = "db" /\ Db!Init
      BY <3>5 DEF Entry, Db!Init, Db!Entry, Db!Read
    <3>6. CASE driver = "session" /\ Session!Init
      BY <3>6 DEF Entry, Session!Init, Session!Entry, Session!Read
    <3> QED BY <2>1, <3>2, <3>3, <3>4, <3>5, <3>6 DEF Init
  <2>2. Init => now = 1 /\ last = Null
    BY DEF Init, File!Init, PrefixedFile!Init, Memory!Init, Db!Init, Session!Init
  <2> QED BY <2>1, <2>2 DEF Contract!Init
<1>2. TypeOK /\ [Next]_vars => [Contract!Next]_Contract!vars
  BY NextSees, SeesIsContract, StutterStays
<1>3. TypeOK /\ [Next]_vars => [Reads]_vars
  <2>1. TypeOK /\ Next => Reads
    BY NextReads DEF ReadsNow
  <2> HIDE DEF Reads
  <2> QED BY <2>1
<1> HIDE DEF Reads
<1>4. Spec => ImplementsContract
  BY <1>1, <1>2, DriversTypeCorrect, PTL DEF Spec, ImplementsContract, Contract!Spec
<1>5. Spec => ReadsBack
  BY <1>3, DriversTypeCorrect, PTL DEF Spec, ReadsBack, Reads
<1> QED BY <1>4, <1>5 DEF DriversServe

-----------------------------------------------------------------------------
\* The steps of a call in the table.
Statements == {"get", "lock", "set", "unlock", "add"}

\* In the table, whoever is between lock and unlock has the row.
InTable ==
  store = "db" =>
    \A p \in Processes :
      /\ call[p] # Null => call[p].pc \in Statements
      /\ \A k \in Counters : Holds(p, k) => "entry" \in lock[k]

\* The inductive invariant.
IInv == CounterTypeOK /\ InTable /\ Exclusive

\* A step of p changes nothing in the calls of the others.
OnlyMoves(p) == call' = [call EXCEPT ![p] = call'[p]]

\* A step of p after which call is well typed, and in the table at a statement.
Moves(p) ==
  /\ call' \in [Processes -> Calls \union {Null}] /\ OnlyMoves(p) /\ store' = store
  /\ store = "db" /\ call'[p] # Null => call'[p].pc \in Statements

-----------------------------------------------------------------------------
\* incrementing and decrementing with a floor stay among the natural numbers.
LEMMA AppliedType ==
  ASSUME NEW op, NEW n \in Nat
  PROVE  Applied(op, n) \in Nat
BY DEF Applied

\* A call goes on, or it returns.
LEMMA GoToType ==
  ASSUME CounterTypeOK, NEW p \in Processes, call[p] # Null, NEW pc \in Steps, GoTo(p, pc)
  PROVE  /\ call' \in [Processes -> Calls \union {Null}] /\ OnlyMoves(p)
         /\ call'[p] = [call[p] EXCEPT !.pc = pc] /\ call'[p].pc = pc
         /\ call'[p].key = call[p].key /\ call'[p].op = call[p].op /\ call'[p].seen = call[p].seen
BY DEF CounterTypeOK, GoTo, Calls, OnlyMoves

LEMMA ReturnType ==
  ASSUME CounterTypeOK, NEW p \in Processes, call[p] # Null, store' = store,
         NEW falsy \in BOOLEAN, Return(p, falsy)
  PROVE  /\ Moves(p)
         /\ \A k \in Counters : ~ Holds(p, k)'
<1>1. CASE falsy /\ call[p].safe /\ ~ call[p].again
  <2>1. GoTo(p, "add")
    BY <1>1 DEF Return
  <2>2. call' \in [Processes -> Calls \union {Null}] /\ OnlyMoves(p) /\ call'[p].pc = "add"
    BY <2>1, GoToType DEF Steps
  <2> QED
    BY <2>2 DEF Holds, At, Moves, Statements
<1>2. CASE ~ (falsy /\ call[p].safe /\ ~ call[p].again)
  BY <1>2 DEF Return, Holds, At, CounterTypeOK, OnlyMoves, Moves
<1> QED
  BY <1>1, <1>2

\* A step of p that in the table takes no lock and changes none.
LEMMA NoLockTaken ==
  ASSUME IInv, NEW p \in Processes, Moves(p), CounterTypeOK',
         store = "db" => lock' = lock /\ \A k \in Counters : Holds(p, k)' => Holds(p, k)
  PROVE  IInv'
<1> SUFFICES ASSUME store = "db" PROVE InTable' /\ OneHolder'
  BY DEF IInv, Exclusive, InTable, Moves
<1>1. ASSUME NEW q \in Processes \ {p} PROVE call'[q] = call[q]
  BY DEF Moves, OnlyMoves, IInv, CounterTypeOK
<1>2. \A q \in Processes, k \in Counters : Holds(q, k)' => Holds(q, k)
  BY <1>1 DEF Holds, At
<1>3. OneHolder'
  BY <1>2 DEF IInv, Exclusive, OneHolder
<1>4. InTable'
  BY <1>1, <1>2 DEF IInv, InTable, Moves
<1> QED
  BY <1>3, <1>4

-----------------------------------------------------------------------------
\* No counter is locked in an empty store.
LEMMA InitIInv == CounterInit => IInv
BY DEF CounterInit, IInv, CounterTypeOK, InTable, Exclusive, OneHolder, Holds, At

\* A call begins far from the lock.
LEMMA StartIInv ==
  ASSUME IInv, NEW p \in Processes, NEW k \in Counters, NEW op \in {"inc", "dec"},
         NEW safe \in BOOLEAN, Start(p, k, op, safe)
  PROVE  IInv'
<1>1. CounterTypeOK' /\ Moves(p) /\ lock' = lock
  BY DEF Start, IInv, CounterTypeOK, Calls, Steps, Statements, OnlyMoves, Moves
<1>2. \A l \in Counters : ~ Holds(p, l)'
  BY DEF Start, IInv, CounterTypeOK, Holds, At
<1> QED
  BY <1>1, <1>2, NoLockTaken

\* The counter is read, or the call returns.
LEMMA GetCounterIInv ==
  ASSUME IInv, NEW p \in Processes, NEW k \in Counters, GetCounter(p, k)
  PROVE  IInv'
<1>1. Moves(p) /\ \A l \in Counters : ~ Holds(p, l)'
  <2>1. CASE counter[k] \in {Null, Lapsed}
    BY <2>1, ReturnType DEF GetCounter, At, IInv
  <2>2. CASE counter[k] \notin {Null, Lapsed}
    <3>1. /\ call[p] \in Calls /\ call[p] # Null /\ counter[k] \in Nat /\ store' = store
          /\ call' = [call EXCEPT ![p].pc = "lock", ![p].seen = counter[k]]
      BY <2>2 DEF GetCounter, At, IInv, CounterTypeOK
    <3>2. call' \in [Processes -> Calls \union {Null}] /\ OnlyMoves(p) /\ call'[p].pc = "lock"
      BY <3>1 DEF IInv, CounterTypeOK, Calls, Steps, OnlyMoves
    <3> QED
      BY <3>1, <3>2 DEF Moves, Statements, Holds, At
  <2> QED
    BY <2>1, <2>2
<1>2. CounterTypeOK' /\ lock' = lock
  BY <1>1 DEF GetCounter, IInv, CounterTypeOK, Moves
<1> QED
  BY <1>1, <1>2, NoLockTaken

\* INSERT makes a row where there is none, so that nobody held it.
LEMMA TakeLockIInv ==
  ASSUME IInv, NEW p \in Processes, NEW k \in Counters, TakeLock(p, k)
  PROVE  IInv'
<1>1. call[p] # Null /\ call[p] \in Calls /\ store' = store
  BY DEF TakeLock, At, IInv, CounterTypeOK
<1>2. CASE ~ Lockable(k)
  <2>1. Moves(p) /\ \A l \in Counters : ~ Holds(p, l)'
    BY <1>1, <1>2, ReturnType DEF TakeLock, IInv
  <2>2. CounterTypeOK' /\ lock' = lock
    BY <1>2, <2>1 DEF TakeLock, IInv, CounterTypeOK, Moves
  <2> QED
    BY <2>1, <2>2, NoLockTaken
<1>3. CASE Lockable(k) /\ store # "db"
  <2>1. GoTo(p, "rm_lock") /\ lock' = lock
    BY <1>3 DEF TakeLock
  <2>2. Moves(p)
    BY <1>1, <1>3, <2>1, GoToType DEF IInv, Steps, Moves
  <2>3. CounterTypeOK'
    BY <2>1, <2>2 DEF TakeLock, IInv, CounterTypeOK, Moves
  <2> QED
    BY <1>3, <2>2, <2>3, NoLockTaken
<1>4. CASE Lockable(k) /\ store = "db"
  <2>1. GoTo(p, "set") /\ lock' = [lock EXCEPT ![k] = {"entry", "ttl"}]
    BY <1>4 DEF TakeLock
  <2>2. call' \in [Processes -> Calls \union {Null}] /\ OnlyMoves(p)
        /\ call'[p].pc = "set" /\ call'[p].key = call[p].key
    BY <1>1, <2>1, GoToType DEF IInv, Steps
  <2>3. \A q \in Processes : ~ Holds(q, k)
    BY <1>4 DEF Lockable, IInv, InTable
  <2>4. CounterTypeOK'
    BY <2>1, <2>2 DEF TakeLock, IInv, CounterTypeOK
  <2>5. \A l \in Counters : Holds(p, l)' => l = k
    BY <2>2 DEF TakeLock, At, Holds
  <2>6. \A q \in Processes \ {p} : call'[q] = call[q]
    BY <2>2 DEF OnlyMoves, IInv, CounterTypeOK
  <2>7. \A q \in Processes \ {p}, l \in Counters : Holds(q, l)' => Holds(q, l)
    BY <2>6 DEF Holds, At
  <2>8. InTable'
    <3>1. \A l \in Counters \ {k} : lock'[l] = lock[l]
      BY <2>1 DEF IInv, CounterTypeOK
    <3>2. "entry" \in lock'[k]
      BY <2>1 DEF IInv, CounterTypeOK
    <3> QED
      BY <1>1, <1>4, <2>2, <2>3, <2>5, <2>6, <2>7, <3>1, <3>2 DEF InTable, IInv, Statements
  <2>9. Exclusive'
    BY <1>1, <1>4, <2>3, <2>5, <2>7 DEF Exclusive, OneHolder, IInv
  <2> QED
    BY <2>4, <2>8, <2>9 DEF IInv
<1> QED
  BY <1>2, <1>3, <1>4

\* The files of the lock are no concern of the table.
LEMMA PutLockIInv ==
  ASSUME IInv, NEW p \in Processes, NEW k \in Counters, PutLock(p, k)
  PROVE  IInv'
<1>1. /\ call[p] # Null /\ call[p].pc \in {"rm_lock", "rm_ttl", "put_ttl", "put_lock"}
      /\ store' = store /\ UNCHANGED <<counter, fleeting>>
      /\ \E pc \in {"rm_ttl", "put_ttl", "put_lock", "set"} : GoTo(p, pc)
      /\ \E X \in SUBSET {"entry", "ttl", "over"} : lock' = [lock EXCEPT ![k] = X]
  BY DEF PutLock, At, IInv, CounterTypeOK
<1>2. store # "db"
  BY <1>1 DEF IInv, InTable, Statements
<1>3. Moves(p)
  BY <1>1, <1>2, GoToType DEF IInv, Steps, Moves
<1>4. CounterTypeOK'
  BY <1>1, <1>3 DEF IInv, CounterTypeOK, Moves
<1> QED
  BY <1>2, <1>3, <1>4, NoLockTaken

\* The holder writes the counter, and still holds the lock.
LEMMA SetCounterIInv ==
  ASSUME IInv, NEW p \in Processes, NEW k \in Counters, SetCounter(p, k)
  PROVE  IInv'
<1>1. /\ call[p] # Null /\ call[p] \in Calls /\ call[p].pc \in {"set", "write"}
      /\ store' = store /\ lock' = lock /\ fleeting' = fleeting \ {k}
      /\ \E pc \in {"write", "unlock"} : GoTo(p, pc) /\ (store = "db" => pc = "unlock")
      /\ counter' = [counter EXCEPT ![k] = counter'[k]]
      /\ counter'[k] \in {Null, Applied(call[p].op, call[p].seen)}
  <2>1. call[p] # Null /\ call[p] \in Calls /\ call[p].pc \in {"set", "write"}
    BY DEF SetCounter, At, IInv, CounterTypeOK
  <2>2. store = "db" => call[p].pc = "set"
    BY <2>1 DEF IInv, InTable, Statements
  <2> QED
    BY <2>1, <2>2 DEF SetCounter, At, IInv, CounterTypeOK
<1>2. PICK pc \in {"write", "unlock"} : GoTo(p, pc) /\ (store = "db" => pc = "unlock")
  BY <1>1
<1>3. /\ call' \in [Processes -> Calls \union {Null}] /\ OnlyMoves(p)
      /\ call'[p].pc = pc /\ call'[p].key = call[p].key
  BY <1>1, <1>2, GoToType DEF IInv, Steps
<1>4. Moves(p)
  BY <1>1, <1>2, <1>3 DEF Moves, Statements
<1>5. \A l \in Counters : Holds(p, l)' => Holds(p, l)
  BY <1>1, <1>3 DEF Holds, At
<1>6. Applied(call[p].op, call[p].seen) \in Nat
  BY <1>1, AppliedType DEF Calls
<1>7. CounterTypeOK'
  BY <1>1, <1>4, <1>6 DEF IInv, CounterTypeOK, Moves
<1> QED
  BY <1>1, <1>4, <1>5, <1>7, NoLockTaken

\* The holder gives the row up, and nobody else has it.
LEMMA UnlockIInv ==
  ASSUME IInv, NEW p \in Processes, NEW k \in Counters, Unlock(p, k)
  PROVE  IInv'
<1>1. call[p] # Null /\ call[p] \in Calls /\ store' = store /\ UNCHANGED <<counter, fleeting>>
  BY DEF Unlock, At, IInv, CounterTypeOK
<1>2. CASE At(p, k, "unlock") /\ store = "file"
  <2>1. GoTo(p, "unlock_ttl")
        /\ \E X \in SUBSET {"entry", "ttl", "over"} : lock' = [lock EXCEPT ![k] = X]
    BY <1>2 DEF Unlock, At, IInv, CounterTypeOK
  <2>2. Moves(p)
    BY <1>1, <1>2, <2>1, GoToType DEF IInv, Steps, Moves
  <2>3. CounterTypeOK'
    BY <1>1, <2>1, <2>2 DEF IInv, CounterTypeOK, Moves
  <2> QED
    BY <1>2, <2>2, <2>3, NoLockTaken
<1>3. CASE ~ (At(p, k, "unlock") /\ store = "file")
  <2>1. /\ Return(p, Applied(call[p].op, call[p].seen) = 0)
        /\ \/ At(p, k, "unlock") /\ store = "db" /\ lock' = [lock EXCEPT ![k] = {}]
           \/ At(p, k, "unlock_ttl") /\ lock' = [lock EXCEPT ![k] = lock[k] \ {"ttl", "over"}]
    BY <1>3 DEF Unlock, At, IInv, CounterTypeOK
  <2>2. Moves(p) /\ \A l \in Counters : ~ Holds(p, l)'
    BY <1>1, <2>1, ReturnType DEF IInv
  <2>3. CounterTypeOK'
    BY <1>1, <2>1, <2>2 DEF IInv, CounterTypeOK, Moves
  <2>4. CASE store # "db"
    BY <2>2, <2>3, <2>4, NoLockTaken
  <2>5. CASE store = "db"
    <3>1. Holds(p, k) /\ lock' = [lock EXCEPT ![k] = {}]
      BY <2>1, <2>5 DEF At, Holds, IInv, InTable, Statements
    <3>2. \A q \in Processes \ {p} : call'[q] = call[q]
      BY <2>2 DEF Moves, OnlyMoves, IInv, CounterTypeOK
    <3>3. \A q \in Processes \ {p}, l \in Counters : Holds(q, l)' => Holds(q, l)
      BY <3>2 DEF Holds, At
    <3>4. \A q \in Processes \ {p} : ~ Holds(q, k)
      BY <2>5, <3>1 DEF IInv, Exclusive, OneHolder
    <3>5. \A l \in Counters \ {k} : lock'[l] = lock[l]
      BY <3>1 DEF IInv, CounterTypeOK
    <3>6. InTable'
      BY <1>1, <2>2, <2>5, <3>2, <3>3, <3>4, <3>5 DEF InTable, IInv, Moves
    <3>7. Exclusive'
      BY <2>2, <2>5, <3>3 DEF Exclusive, OneHolder, IInv
    <3> QED
      BY <2>3, <3>6, <3>7 DEF IInv
  <2> QED
    BY <2>4, <2>5
<1> QED
  BY <1>2, <1>3

\* A safe call adds the counter and tries again.
LEMMA AddCounterIInv ==
  ASSUME IInv, NEW p \in Processes, NEW k \in Counters, AddCounter(p, k)
  PROVE  IInv'
<1>1. /\ call[p] # Null /\ call[p] \in Calls /\ call[p].pc \in {"add", "rm", "zero"}
      /\ store' = store /\ lock' = lock
  BY DEF AddCounter, At, IInv, CounterTypeOK
<1>2. /\ \/ (\E pc \in {"rm", "zero"} : GoTo(p, pc)) /\ store # "db"
         \/ call' = [call EXCEPT ![p].pc = "get", ![p].again = TRUE]
      /\ counter' \in [Counters -> Nat \union {Null, Lapsed}] /\ fleeting' \in SUBSET Counters
  <2>1. CASE At(p, k, "add") /\ store = "db" /\ CreateCounter(k)
             /\ call' = [call EXCEPT ![p].pc = "get", ![p].again = TRUE]
    BY <2>1 DEF CreateCounter, IInv, CounterTypeOK
  <2>2. CASE At(p, k, "rm") /\ GoTo(p, "zero")
             /\ counter' = [counter EXCEPT ![k] = Null] /\ UNCHANGED fleeting
    BY <2>2 DEF At, IInv, InTable, Statements, CounterTypeOK
  <2> QED
    BY <2>1, <2>2 DEF AddCounter, IInv, CounterTypeOK
<1>3. Moves(p) /\ \A l \in Counters : ~ Holds(p, l)'
  <2>1. CASE (\E pc \in {"rm", "zero"} : GoTo(p, pc)) /\ store # "db"
    <3>1. call' \in [Processes -> Calls \union {Null}] /\ OnlyMoves(p)
          /\ call'[p].pc \in {"rm", "zero"}
      BY <1>1, <2>1, GoToType DEF IInv, Steps
    <3> QED BY <1>1, <2>1, <3>1 DEF Moves, Holds, At
  <2>2. CASE call' = [call EXCEPT ![p].pc = "get", ![p].again = TRUE]
    <3>1. call' \in [Processes -> Calls \union {Null}] /\ OnlyMoves(p) /\ call'[p].pc = "get"
      BY <1>1, <2>2 DEF IInv, CounterTypeOK, Calls, Steps, OnlyMoves
    <3> QED BY <1>1, <3>1 DEF Moves, Statements, Holds, At
  <2> QED BY <1>2, <2>1, <2>2
<1>4. CounterTypeOK'
  BY <1>1, <1>2, <1>3 DEF IInv, CounterTypeOK, Moves
<1> QED
  BY <1>1, <1>3, <1>4, NoLockTaken

\* A process that dies holds nothing; its lock entry stays.
LEMMA DieIInv ==
  ASSUME IInv, NEW p \in Processes, Die(p)
  PROVE  IInv'
<1>1. Moves(p) /\ call'[p] = Null
  BY DEF Die, IInv, CounterTypeOK, OnlyMoves, Moves
<1>2. \A l \in Counters : ~ Holds(p, l)'
  BY <1>1 DEF Holds, At
<1>3. CounterTypeOK' /\ lock' = lock
  BY <1>1 DEF Die, IInv, CounterTypeOK, Moves
<1> QED
  BY <1>1, <1>2, <1>3, NoLockTaken

\* Time passes: rows of counters lapse and locks expire, but their rows stay.
LEMMA TimeIInv ==
  ASSUME IInv, NEW k \in Counters, Lapse(k) \/ Expire(k)
  PROVE  IInv'
<1>1. UNCHANGED <<store, call>> /\ CounterTypeOK'
  BY DEF Lapse, Expire, IInv, CounterTypeOK
<1>2. \A l \in Counters : "entry" \in lock[l] => "entry" \in lock'[l]
  BY DEF Lapse, Expire, IInv, CounterTypeOK
<1>3. \A p \in Processes, l \in Counters : Holds(p, l)' = Holds(p, l)
  BY <1>1 DEF Holds, At
<1> QED
  BY <1>1, <1>2, <1>3 DEF IInv, InTable, Exclusive, OneHolder

-----------------------------------------------------------------------------
\* Every step keeps the invariant.
LEMMA CallStepIInv ==
  ASSUME IInv, NEW p \in Processes, NEW k \in Counters, CallStep(p, k)
  PROVE  IInv'
BY GetCounterIInv, TakeLockIInv, PutLockIInv, SetCounterIInv, UnlockIInv, AddCounterIInv
   DEF CallStep

LEMMA StillIInv ==
  ASSUME IInv, UNCHANGED counterVars
  PROVE  IInv'
BY DEF counterVars, IInv, CounterTypeOK, InTable, Exclusive, OneHolder, Holds, At

LEMMA NextIInv == IInv /\ [CounterNext]_counterVars => IInv'
<1> SUFFICES ASSUME IInv, [CounterNext]_counterVars PROVE IInv'
  OBVIOUS
<1>1. ASSUME NEW p \in Processes, NEW k \in Counters, NEW op \in {"inc", "dec"},
             NEW safe \in BOOLEAN, Start(p, k, op, safe)
      PROVE  IInv'
  BY <1>1, StartIInv
<1>2. ASSUME NEW p \in Processes, Die(p) PROVE IInv'
  BY <1>2, DieIInv
<1>3. ASSUME NEW k \in Counters, Lapse(k) \/ Expire(k) PROVE IInv'
  BY <1>3, TimeIInv
<1> QED
  BY <1>1, <1>2, <1>3, CallStepIInv, StillIInv DEF CounterNext

\* The inductive invariant holds in every state.
THEOREM Invariance == CounterSpec => []IInv
BY InitIInv, NextIInv, PTL DEF CounterSpec

\* A counter is a natural number, in files and in the table, in whatever order
\* processes read and write it, file by file, and wherever they die.
THEOREM CounterTypeCorrect == CounterSpec => []CounterTypeOK
<1>1. IInv => CounterTypeOK
  BY DEF IInv
<1> QED
  BY <1>1, Invariance, PTL

\* However many processes there are, and however slow a holder is, no two are between
\* lock and unlock of one counter in the table.
THEOREM ExclusiveAlways == CounterSpec => []Exclusive
<1>1. IInv => Exclusive
  BY DEF IInv
<1> QED
  BY <1>1, Invariance, PTL

-----------------------------------------------------------------------------

Versions == [Tags -> Nat \union {Null}]
WriteJobs == [op : {"add", "set"}, key : EntryKeys, tags : SUBSET Tags, unread : SUBSET Tags,
              seen : Versions, id : Nat, gone : {{}}]
GetJobs == [op : {"get"}, key : EntryKeys, tags : SUBSET Tags, unread : SUBSET Tags,
            seen : Versions, id : Nat, versions : Versions, gone : SUBSET Nat]

\* A container has the tags it was begun with, and a version of each.
EntriesOK ==
  /\ entry \in [EntryKeys -> Containers \union {Null}]
  /\ \A k \in EntryKeys : entry[k] # Null =>
       /\ entry[k].id \in DOMAIN begun /\ entry[k].tags = begun[entry[k].id]
       /\ \A t \in entry[k].tags : entry[k].versions[t] \in Nat

\* So has the container of a process that stores or reads one.
JobsOK ==
  /\ job \in [Processes -> WriteJobs \union GetJobs \union {Null}]
  /\ \A p \in Processes : job[p] # Null =>
       /\ job[p].id \in DOMAIN begun /\ job[p].tags = begun[job[p].id]
       /\ job[p].unread \subseteq job[p].tags
       /\ job[p].op = "get" => \A t \in job[p].tags : job[p].versions[t] \in Nat

HistoryOK ==
  /\ begun \in Seq(SUBSET Tags)
  /\ target \in [Processes -> SUBSET DOMAIN begun] /\ dead \in SUBSET DOMAIN begun

\* Only a writer in files replaces one, and the entry's only with a version of each tag.
FilingOK ==
  /\ filing \in [Processes -> Replacements \union {Null}]
  /\ \A p \in Processes : filing[p] # Null =>
       /\ store = "file" /\ Writes(p)
       /\ filing[p].tag = Null => \A t \in job[p].tags : job[p].seen[t] # Null

Base == IInv /\ EntriesOK /\ JobsOK /\ HistoryOK /\ FilingOK

-----------------------------------------------------------------------------
\* A counter that a writer adds or removes, in no call of its own.
LEMMA CounterPut ==
  ASSUME IInv, UNCHANGED <<store, lock, call>>,
         counter' \in [Counters -> Nat \union {Null, Lapsed}], fleeting' \in SUBSET Counters
  PROVE  IInv'
<1>1. CounterTypeOK'
  BY DEF IInv, CounterTypeOK
<1> QED
  BY <1>1 DEF IInv, InTable, Exclusive, OneHolder, Holds, At

\* The counters of the store are those of CacheCounter, in every step.
LEMMA CountersKept ==
  ASSUME Base, [TaggedNext]_taggedVars
  PROVE  IInv'
<1>1. ASSUME UNCHANGED counterVars PROVE IInv'
  BY <1>1, StillIInv DEF Base
<1>2. ASSUME NEW p \in Processes, NEW t \in Tags, AddTag(p, t) PROVE IInv'
  BY <1>2, CounterPut DEF AddTag, CreateCounter, Base, IInv, CounterTypeOK, Tags
<1>3. ASSUME NEW p \in Processes, RemoveFile(p) \/ WriteFile(p) PROVE IInv'
  <2>1. /\ UNCHANGED <<store, fleeting, lock, call>> /\ filing[p].tag \in Tags \union {Null}
        /\ \/ counter' = counter
           \/ \E v \in {Null, 0} : counter' = [counter EXCEPT ![filing[p].tag] = v]
    BY <1>3 DEF RemoveFile, WriteFile, Base, FilingOK, Replacements
  <2> QED BY <2>1, CounterPut DEF Base, IInv, CounterTypeOK, Tags
<1>4. ASSUME NEW p \in Processes, NEW t \in Tags, StartDeleteByTag(p, t) PROVE IInv'
  BY <1>4, StartIInv DEF StartDeleteByTag, Base, Tags
<1>5. ASSUME NEW p \in Processes, NEW t \in Tags, StepDeleteByTag(p, t) PROVE IInv'
  BY <1>5, CallStepIInv DEF StepDeleteByTag, Base, Tags
<1>6. ASSUME NEW p \in Processes, Flush(p) PROVE IInv'
  <2>1. \A q \in Processes : call'[q] = Null
    BY <1>6 DEF Flush, Idle
  <2>2. CounterTypeOK'
    BY <1>6 DEF Flush, Base, IInv, CounterTypeOK, Tags
  <2> QED
    BY <2>1, <2>2 DEF IInv, InTable, Exclusive, OneHolder, Holds, At
<1>7. ASSUME NEW t \in Tags, Lapse(t) \/ Expire(t) PROVE IInv'
  BY <1>7, TimeIInv DEF Base, Tags
<1> QED
  BY <1>1, <1>2, <1>3, <1>4, <1>5, <1>6, <1>7
     DEF TaggedNext, taggedVars, StartWrite, StartGet, Put, Delete, ReadTag, Hit, Miss, JobDies

-----------------------------------------------------------------------------
\* A job in which a version is read, or made.
Seen(j, u, v) == [[j EXCEPT !.unread = u] EXCEPT !.seen = v]
SeenLike(j, u, v, i) ==
  /\ i.op = j.op /\ i.key = j.key /\ i.tags = j.tags /\ i.id = j.id /\ i.gone = j.gone
  /\ i.unread = u /\ i.seen = v

LEMMA SeenWrite ==
  ASSUME NEW j \in WriteJobs, NEW u \in SUBSET Tags, NEW v \in Versions
  PROVE  Seen(j, u, v) \in WriteJobs /\ SeenLike(j, u, v, Seen(j, u, v))
BY DEF WriteJobs, Seen, SeenLike

LEMMA SeenGet ==
  ASSUME NEW j \in GetJobs, NEW u \in SUBSET Tags, NEW v \in Versions
  PROVE  /\ Seen(j, u, v) \in GetJobs /\ SeenLike(j, u, v, Seen(j, u, v))
         /\ Seen(j, u, v).versions = j.versions
BY DEF GetJobs, Seen, SeenLike

\* Reading a version changes what has been seen and what is unread, no more.
ReadVersion(t) == IF counter[t] = Lapsed THEN Null ELSE counter[t]
LEMMA ReadTagJob ==
  ASSUME Base, NEW p \in Processes, NEW t \in Tags, ReadTag(p, t)
  PROVE  LET v == [job[p].seen EXCEPT ![t] = ReadVersion(t)]
             u == job[p].unread \ {t}
         IN /\ job' = [job EXCEPT ![p] = Seen(job[p], u, v)]
            /\ job[p] \in WriteJobs \union GetJobs /\ u \in SUBSET Tags /\ v \in Versions
<1>1. job[p] # Null /\ job[p] \in WriteJobs \union GetJobs
  BY DEF ReadTag, Base, JobsOK
<1>2. job[p].seen \in Versions /\ job[p].unread \in SUBSET Tags
  BY <1>1 DEF WriteJobs, GetJobs
<1>3. ReadVersion(t) \in Nat \union {Null}
  BY DEF Base, IInv, CounterTypeOK, Tags, ReadVersion
<1>4. [[job[p] EXCEPT !.unread = job[p].unread \ {t}] EXCEPT !.seen[t] = ReadVersion(t)]
        = Seen(job[p], job[p].unread \ {t}, [job[p].seen EXCEPT ![t] = ReadVersion(t)])
  <2>1. [job[p] EXCEPT !.unread = job[p].unread \ {t}].seen = job[p].seen
    BY <1>1 DEF WriteJobs, GetJobs
  <2> QED BY <2>1 DEF Seen
<1>5. job' = [job EXCEPT ![p] =
        [[job[p] EXCEPT !.unread = job[p].unread \ {t}] EXCEPT !.seen[t] = ReadVersion(t)]]
  BY DEF ReadTag, ReadVersion
<1> QED BY <1>1, <1>2, <1>3, <1>4, <1>5 DEF Versions

\* What such a step does to the jobs.
JobSeen(p, u, v) ==
  /\ job' \in [Processes -> WriteJobs \union GetJobs \union {Null}]
  /\ \A q \in Processes \ {p} : job'[q] = job[q]
  /\ SeenLike(job[p], u, v, job'[p])
  /\ job[p] \in WriteJobs => job'[p] \in WriteJobs
  /\ job[p] \in GetJobs => job'[p] \in GetJobs /\ job'[p].versions = job[p].versions

LEMMA ReadTagSeen ==
  ASSUME Base, NEW p \in Processes, NEW t \in Tags, ReadTag(p, t)
  PROVE  JobSeen(p, job[p].unread \ {t}, [job[p].seen EXCEPT ![t] = ReadVersion(t)])
<1> DEFINE v == [job[p].seen EXCEPT ![t] = ReadVersion(t)]
           u == job[p].unread \ {t}
<1>1. /\ job' = [job EXCEPT ![p] = Seen(job[p], u, v)]
      /\ job[p] \in WriteJobs \union GetJobs /\ u \in SUBSET Tags /\ v \in Versions
  BY ReadTagJob
<1>2. job \in [Processes -> WriteJobs \union GetJobs \union {Null}]
  BY DEF Base, JobsOK
<1> HIDE DEF u, v
<1>3. SeenLike(job[p], u, v, Seen(job[p], u, v))
  BY <1>1, SeenWrite, SeenGet
<1>4. job[p] \in WriteJobs => Seen(job[p], u, v) \in WriteJobs
  BY <1>1, SeenWrite
<1>5. job[p] \in GetJobs => /\ Seen(job[p], u, v) \in GetJobs
                            /\ Seen(job[p], u, v).versions = job[p].versions
  BY <1>1, SeenGet
<1>6. JobSeen(p, u, v)
  BY <1>1, <1>2, <1>3, <1>4, <1>5 DEF JobSeen
<1> QED BY <1>6 DEF u, v

\* So does adding version 0.
LEMMA ZeroSeen ==
  ASSUME Base, NEW p \in Processes, NEW t \in Tags, Writes(p),
         job' = [job EXCEPT ![p].seen[t] = 0]
  PROVE  /\ JobSeen(p, job[p].unread, [job[p].seen EXCEPT ![t] = 0])
         /\ job[p] \in WriteJobs
<1>1. job[p] # Null /\ job[p] \in WriteJobs
  BY DEF Writes, Base, JobsOK, GetJobs
<1>2. job[p].seen \in Versions /\ [job[p].seen EXCEPT ![t] = 0] \in Versions
  BY <1>1 DEF WriteJobs, Versions
<1> DEFINE v == [job[p].seen EXCEPT ![t] = 0]
           i == [job[p] EXCEPT !.seen = v]
<1>3. job' = [job EXCEPT ![p] = i]
  OBVIOUS
<1> HIDE DEF v
<1>4. i \in WriteJobs /\ SeenLike(job[p], job[p].unread, v, i)
  BY <1>1, <1>2 DEF WriteJobs, SeenLike, v
<1>5. job[p] \notin GetJobs
  BY <1>1 DEF WriteJobs, GetJobs
<1> HIDE DEF i
<1>6. JobSeen(p, job[p].unread, v)
  BY <1>1, <1>3, <1>4, <1>5 DEF JobSeen, Base, JobsOK
<1> QED BY <1>1, <1>6 DEF v

-----------------------------------------------------------------------------
\* The jobs of a step that begins or stores nothing.
LEMMA JobSeenKeeps ==
  ASSUME Base, NEW p \in Processes, NEW u, NEW v, JobSeen(p, u, v), job[p] # Null,
         u \subseteq job[p].unread, begun' = begun
  PROVE  JobsOK'
<1>1. job[p] \in WriteJobs \union GetJobs
  BY DEF Base, JobsOK
<1>2. job[p].op = "get" <=> job[p] \in GetJobs
  BY <1>1 DEF WriteJobs, GetJobs
<1> QED BY <1>1, <1>2 DEF JobSeen, SeenLike, Base, JobsOK

LEMMA FinishKeeps ==
  ASSUME Base, NEW p \in Processes, Finish(p), begun' = begun
  PROVE  JobsOK'
BY DEF Finish, Base, JobsOK

\* A container is begun under a number of its own.
LEMMA BegunGrows ==
  ASSUME Base, NEW T \in SUBSET Tags, begun' = Append(begun, T)
  PROVE  /\ begun' \in Seq(SUBSET Tags) /\ Len(begun) + 1 \in DOMAIN begun'
         /\ begun'[Len(begun) + 1] = T /\ DOMAIN begun \subseteq DOMAIN begun'
         /\ \A i \in DOMAIN begun : begun'[i] = begun[i]
         /\ Len(begun) + 1 \in Nat /\ Len(begun) + 1 \notin DOMAIN begun
BY DEF Base, HistoryOK

LEMMA StartWriteKeeps ==
  ASSUME Base, NEW p \in Processes, NEW k \in EntryKeys, NEW op \in {"add", "set"},
         NEW T \in SUBSET Tags, StartWrite(p, k, op, T)
  PROVE  EntriesOK' /\ JobsOK' /\ HistoryOK'
<1> DEFINE j == [op |-> op, key |-> k, tags |-> T, unread |-> T, seen |-> NothingSeen,
                 id |-> Len(begun) + 1, gone |-> {}]
<1>1. /\ begun' \in Seq(SUBSET Tags) /\ Len(begun) + 1 \in DOMAIN begun'
      /\ begun'[Len(begun) + 1] = T /\ DOMAIN begun \subseteq DOMAIN begun'
      /\ \A i \in DOMAIN begun : begun'[i] = begun[i]
      /\ Len(begun) + 1 \in Nat
  BY BegunGrows DEF StartWrite
<1>2. job' = [job EXCEPT ![p] = j] /\ entry' = entry /\ target' = target /\ dead' = dead
  BY DEF StartWrite
<1>3. j \in WriteJobs
  BY <1>1 DEF WriteJobs, NothingSeen, Versions
<1>4. j.id = Len(begun) + 1 /\ j.tags = T /\ j.unread = T /\ j.op # "get"
  OBVIOUS
<1> HIDE DEF j
<1>5. EntriesOK'
  BY <1>1, <1>2 DEF Base, EntriesOK
<1>6. JobsOK'
  BY <1>1, <1>2, <1>3, <1>4 DEF Base, JobsOK
<1>7. HistoryOK'
  BY <1>1, <1>2 DEF Base, HistoryOK
<1> QED BY <1>5, <1>6, <1>7

LEMMA StartGetKeeps ==
  ASSUME Base, NEW p \in Processes, NEW k \in EntryKeys, StartGet(p, k)
  PROVE  JobsOK'
<1> DEFINE j == [op |-> "get", key |-> k, tags |-> entry[k].tags,
                 unread |-> entry[k].tags, seen |-> NothingSeen,
                 id |-> entry[k].id, versions |-> entry[k].versions, gone |-> dead]
<1>1. job' = [job EXCEPT ![p] = j] /\ begun' = begun /\ entry[k] # Null
  BY DEF StartGet, history
<1>2. /\ entry[k] \in Containers /\ entry[k].id \in DOMAIN begun
      /\ entry[k].tags = begun[entry[k].id]
      /\ \A t \in entry[k].tags : entry[k].versions[t] \in Nat
  BY <1>1 DEF Base, EntriesOK
<1>3. dead \in SUBSET Nat
  BY DEF Base, HistoryOK
<1>4. j \in GetJobs
  BY <1>2, <1>3 DEF Containers, GetJobs, NothingSeen, Versions
<1>5. /\ j.id = entry[k].id /\ j.tags = entry[k].tags /\ j.unread = entry[k].tags
      /\ j.versions = entry[k].versions
  OBVIOUS
<1> HIDE DEF j
<1> QED BY <1>1, <1>2, <1>4, <1>5 DEF Base, JobsOK

\* What is stored has a version of each tag.
LEMMA StoredKeeps ==
  ASSUME Base, NEW p \in Processes, NEW k \in EntryKeys, Filled(p, k), Writes(p),
         \A t \in job[p].tags : job[p].seen[t] # Null, begun' = begun
  PROVE  EntriesOK'
<1> DEFINE e == [id |-> job[p].id, tags |-> job[p].tags, versions |-> job[p].seen]
<1>1. job[p] # Null /\ job[p] \in WriteJobs
  BY DEF Writes, Base, JobsOK, GetJobs
<1>2. e \in Containers
  BY <1>1 DEF WriteJobs, Containers, Versions
<1>3. \A t \in job[p].tags : job[p].seen[t] \in Nat
  BY <1>1 DEF WriteJobs, Versions
<1>4. job[p].id \in DOMAIN begun /\ job[p].tags = begun[job[p].id]
  BY <1>1 DEF Base, JobsOK
<1>5. e.id = job[p].id /\ e.tags = job[p].tags /\ e.versions = job[p].seen
  OBVIOUS
<1>6. entry' = [entry EXCEPT ![k] = e]
  BY DEF Filled
<1> HIDE DEF e
<1> QED BY <1>2, <1>3, <1>4, <1>5, <1>6 DEF Base, EntriesOK

\* Entries that go leave the others as they are.
LEMMA EntriesGo ==
  ASSUME Base, NEW S \in SUBSET EntryKeys, begun' = begun,
         entry' = [k \in EntryKeys |-> IF k \in S THEN Null ELSE entry[k]]
  PROVE  EntriesOK'
BY DEF Base, EntriesOK

\* Whoever is not replacing a file may do what it likes.
LEMMA FilingStays ==
  ASSUME Base, NEW p \in Processes, filing[p] = Null, filing' = filing, store' = store,
         \A q \in Processes \ {p} : job'[q] = job[q]
  PROVE  FilingOK'
BY DEF Base, FilingOK, Writes

\* A file that is to be replaced.
LEMMA FileKeeps ==
  ASSUME Base, NEW p \in Processes, NEW t \in Tags \union {Null}, Replace(p, t), job' = job,
         store' = store, store = "file", Writes(p),
         t = Null => \A s \in job[p].tags : job[p].seen[s] # Null
  PROVE  FilingOK'
<1> DEFINE f == [tag |-> t, removed |-> FALSE]
<1>1. f \in Replacements /\ f.tag = t
  BY DEF Replacements
<1>2. filing' = [filing EXCEPT ![p] = f]
  BY DEF Replace
<1> HIDE DEF f
<1> QED BY <1>1, <1>2 DEF Base, FilingOK, Writes

\* It is removed, and it is written.
LEMMA RemoveFileKeeps ==
  ASSUME Base, NEW p \in Processes, RemoveFile(p)
  PROVE  EntriesOK' /\ FilingOK'
<1>1. /\ filing[p] \in Replacements /\ UNCHANGED <<store, job, begun>>
      /\ filing' = [filing EXCEPT ![p].removed = TRUE]
      /\ entry' = entry \/ entry' = [entry EXCEPT ![job[p].key] = Null]
  BY DEF RemoveFile, Base, FilingOK, history
<1>2. [filing[p] EXCEPT !.removed = TRUE] \in Replacements
      /\ [filing[p] EXCEPT !.removed = TRUE].tag = filing[p].tag
  BY <1>1 DEF Replacements
<1>3. /\ filing' \in [Processes -> Replacements \union {Null}]
      /\ \A q \in Processes : filing'[q] # Null =>
            filing[q] # Null /\ filing'[q].tag = filing[q].tag
  BY <1>1, <1>2 DEF RemoveFile, Base, FilingOK
<1>4. FilingOK'
  BY <1>1, <1>3 DEF Base, FilingOK, Writes
<1> QED BY <1>1, <1>4 DEF Base, EntriesOK

LEMMA WriteFileKeeps ==
  ASSUME Base, NEW p \in Processes, WriteFile(p)
  PROVE  EntriesOK' /\ JobsOK' /\ FilingOK'
<1>1. /\ filing[p] \in Replacements /\ filing[p] # Null /\ UNCHANGED <<store, begun>>
      /\ filing' = [filing EXCEPT ![p] = Null] /\ Writes(p)
  BY DEF WriteFile, Base, FilingOK, history
<1>2. CASE filing[p].tag = Null
  <2>1. job[p].key \in EntryKeys
    BY <1>1 DEF Writes, Base, JobsOK, WriteJobs, GetJobs
  <2>2. Filled(p, job[p].key) /\ Finish(p)
    BY <1>2 DEF WriteFile
  <2>3. EntriesOK'
    BY <1>1, <1>2, <2>1, <2>2, StoredKeeps DEF Base, FilingOK
  <2>4. JobsOK'
    BY <1>1, <2>2, FinishKeeps
  <2>5. FilingOK'
    BY <1>1, <2>2 DEF Finish, Base, FilingOK, JobsOK, Writes
  <2> QED BY <2>3, <2>4, <2>5
<1>3. CASE filing[p].tag # Null
  <2>1. /\ filing[p].tag \in Tags /\ entry' = entry
        /\ job' = [job EXCEPT ![p].seen[filing[p].tag] = 0]
    BY <1>1, <1>3 DEF WriteFile, Replacements
  <2>2. JobSeen(p, job[p].unread, [job[p].seen EXCEPT ![filing[p].tag] = 0])
    BY <1>1, <2>1, ZeroSeen
  <2>3. JobsOK'
    BY <1>1, <2>2, JobSeenKeeps DEF Writes
  <2>4. FilingOK'
    BY <1>1, <2>2 DEF JobSeen, Base, FilingOK, Writes
  <2>5. EntriesOK'
    BY <1>1, <2>1 DEF Base, EntriesOK
  <2> QED BY <2>3, <2>4, <2>5
<1> QED BY <1>2, <1>3

\* The two ways of putting a container.
LEMMA PutKeeps ==
  ASSUME Base, NEW p \in Processes, NEW k \in EntryKeys, Put(p, k)
  PROVE  EntriesOK' /\ JobsOK' /\ FilingOK'
<1>1. /\ begun' = begun /\ store' = store /\ filing[p] = Null /\ Writes(p)
      /\ \A t \in job[p].tags : job[p].seen[t] # Null
  BY DEF Put, Prepared, history, counterVars
<1>2. CASE Finish(p) /\ filing' = filing /\ (entry' = entry \/ Filled(p, k))
  <2>1. \A q \in Processes \ {p} : job'[q] = job[q]
    BY <1>2 DEF Finish, Base, JobsOK
  <2>2. entry' = entry => EntriesOK'
    BY <1>1 DEF Base, EntriesOK
  <2> QED BY <1>1, <1>2, <2>1, <2>2, FinishKeeps, StoredKeeps, FilingStays
<1>3. CASE store = "file" /\ Replace(p, Null) /\ UNCHANGED <<entry, job>>
  BY <1>1, <1>3, FileKeeps DEF Base, EntriesOK, JobsOK
<1> QED BY <1>2, <1>3 DEF Put

LEMMA AddTagKeeps ==
  ASSUME Base, NEW p \in Processes, NEW t \in Tags, AddTag(p, t)
  PROVE  EntriesOK' /\ JobsOK' /\ FilingOK'
<1>1. /\ begun' = begun /\ store' = store /\ filing[p] = Null /\ Writes(p) /\ entry' = entry
  BY DEF AddTag, history
<1>2. EntriesOK'
  BY <1>1 DEF Base, EntriesOK
<1>3. CASE store = "file" /\ Replace(p, t) /\ job' = job
  BY <1>1, <1>2, <1>3, FileKeeps, TaggableCacheConstants DEF Base, JobsOK
<1>4. CASE job' = [job EXCEPT ![p].seen[t] = 0] /\ filing' = filing
  <2>1. JobSeen(p, job[p].unread, [job[p].seen EXCEPT ![t] = 0])
    BY <1>1, <1>4, ZeroSeen
  <2> QED BY <1>1, <1>2, <1>4, <2>1, JobSeenKeeps, FilingStays DEF JobSeen, Writes
<1> QED BY <1>3, <1>4 DEF AddTag

-----------------------------------------------------------------------------
\* Nothing is stored or under way at first.
LEMMA InitBase == TaggedInit => Base
BY InitIInv DEF TaggedInit, Base, EntriesOK, JobsOK, HistoryOK, FilingOK

\* A cache keeps its driver.
LEMMA StoreKept ==
  ASSUME [TaggedNext]_taggedVars
  PROVE  store' = store
<1>1. ASSUME NEW p \in Processes, NEW t \in Tags, CallStep(p, t) PROVE store' = store
  BY <1>1 DEF CallStep, GetCounter, TakeLock, PutLock, SetCounter, Unlock, AddCounter
<1>2. ASSUME NEW p \in Processes, NEW t \in Tags,
             ReadTag(p, t) \/ AddTag(p, t) \/ StartDeleteByTag(p, t)
      PROVE  store' = store
  BY <1>2 DEF ReadTag, AddTag, StartDeleteByTag, Start, counterVars
<1>3. ASSUME NEW p \in Processes,
             Hit(p) \/ Miss(p) \/ Flush(p) \/ JobDies(p) \/ RemoveFile(p) \/ WriteFile(p)
      PROVE  store' = store
  BY <1>3 DEF Hit, Miss, Flush, JobDies, RemoveFile, WriteFile, counterVars
<1>4. ASSUME NEW p \in Processes, NEW k \in EntryKeys, StartGet(p, k) \/ Put(p, k) \/ Delete(p, k)
      PROVE  store' = store
  BY <1>4 DEF StartGet, Put, Delete, counterVars
<1>5. ASSUME NEW p, NEW k, NEW op, NEW T, StartWrite(p, k, op, T) PROVE store' = store
  BY <1>5 DEF StartWrite, counterVars
<1>6. CASE UNCHANGED taggedVars
  BY <1>6 DEF taggedVars, counterVars
<1>7. ASSUME NEW t \in Tags, Lapse(t) \/ Expire(t) PROVE store' = store
  BY <1>7 DEF Lapse, Expire
<1> QED
  BY <1>1, <1>2, <1>3, <1>4, <1>5, <1>6, <1>7 DEF TaggedNext, StepDeleteByTag

\* Every step keeps containers and jobs well formed.
Formed == EntriesOK /\ JobsOK /\ HistoryOK /\ FilingOK

LEMMA StepBase == Base /\ [TaggedNext]_taggedVars => Base'
<1> SUFFICES ASSUME Base, [TaggedNext]_taggedVars PROVE Formed'
  BY CountersKept DEF Base, Formed
<1>0. /\ UNCHANGED <<begun, target, dead>> => HistoryOK'
      /\ UNCHANGED <<begun, entry>> => EntriesOK'
      /\ UNCHANGED <<begun, job>> => JobsOK'
      /\ UNCHANGED <<job, filing>> => FilingOK'
  BY StoreKept DEF Base, EntriesOK, JobsOK, HistoryOK, FilingOK, Writes
<1>1. ASSUME NEW p \in Processes, NEW k \in EntryKeys, NEW op \in {"add", "set"},
             NEW T \in SUBSET Tags, StartWrite(p, k, op, T)
      PROVE  Formed'
  <2>1. filing[p] = Null /\ filing' = filing /\ \A q \in Processes \ {p} : job'[q] = job[q]
    BY <1>1 DEF StartWrite, Idle, Base, FilingOK, Writes, JobsOK
  <2> QED BY <1>1, <2>1, StartWriteKeeps, FilingStays, StoreKept DEF Formed
<1>2. ASSUME NEW p \in Processes, NEW k \in EntryKeys, StartGet(p, k)
      PROVE  Formed'
  <2>1. filing[p] = Null /\ filing' = filing /\ \A q \in Processes \ {p} : job'[q] = job[q]
    BY <1>2 DEF StartGet, Idle, Base, FilingOK, Writes, JobsOK
  <2> QED BY <1>0, <1>2, <2>1, StartGetKeeps, FilingStays, StoreKept DEF StartGet, history, Formed
<1>3. ASSUME NEW p \in Processes, NEW k \in EntryKeys, Put(p, k)
      PROVE  Formed'
  BY <1>0, <1>3, PutKeeps DEF Put, history, Formed
<1>4. ASSUME NEW p \in Processes, NEW k \in EntryKeys, Delete(p, k)
      PROVE  Formed'
  <2>1. entry' = [l \in EntryKeys |-> IF l \in {k} THEN Null ELSE entry[l]]
    BY <1>4 DEF Delete, Base, EntriesOK
  <2> QED BY <1>0, <1>4, <2>1, EntriesGo DEF Delete, history, Formed
<1>5. ASSUME NEW p \in Processes, NEW t \in Tags, ReadTag(p, t)
      PROVE  Formed'
  <2>1. JobSeen(p, job[p].unread \ {t}, [job[p].seen EXCEPT ![t] = ReadVersion(t)])
    BY <1>5, ReadTagSeen
  <2>2. filing[p] = Null /\ filing' = filing
    BY <1>5 DEF ReadTag, Base, FilingOK, Writes
  <2>3. /\ job[p] # Null /\ UNCHANGED <<entry, begun, target, dead>>
        /\ job[p].unread \ {t} \subseteq job[p].unread
    BY <1>5 DEF ReadTag, history
  <2>4. JobsOK'
    BY <2>1, <2>3, JobSeenKeeps
  <2>5. FilingOK'
    BY <2>1, <2>2, FilingStays, StoreKept DEF JobSeen
  <2> QED BY <1>0, <2>3, <2>4, <2>5 DEF Formed
<1>6. ASSUME NEW p \in Processes, NEW t \in Tags, AddTag(p, t)
      PROVE  Formed'
  BY <1>0, <1>6, AddTagKeeps DEF AddTag, history, Formed
<1>7. ASSUME NEW p \in Processes, NEW t \in Tags, StartDeleteByTag(p, t)
      PROVE  Formed'
  <2>1. {entry[k].id : k \in {l \in EntryKeys : entry[l] # Null /\ t \in entry[l].tags}}
          \subseteq DOMAIN begun
    BY DEF Base, EntriesOK
  <2>2. HistoryOK'
    BY <1>7, <2>1 DEF StartDeleteByTag, Base, HistoryOK
  <2> QED BY <1>0, <1>7, <2>2 DEF StartDeleteByTag, Formed
<1>8. ASSUME NEW p \in Processes, NEW t \in Tags, StepDeleteByTag(p, t)
      PROVE  Formed'
  <2>1. HistoryOK'
    BY <1>8 DEF StepDeleteByTag, Base, HistoryOK
  <2> QED BY <1>0, <1>8, <2>1 DEF StepDeleteByTag, Formed
<1>9. ASSUME NEW p \in Processes, Hit(p)
      PROVE  Formed'
  <2>1. filing[p] = Null /\ filing' = filing /\ \A q \in Processes \ {p} : job'[q] = job[q]
    BY <1>9 DEF Hit, Compares, Finish, Base, FilingOK, Writes, JobsOK
  <2> QED BY <1>0, <1>9, <2>1, FinishKeeps, FilingStays, StoreKept DEF Hit, history, Formed
<1>10. ASSUME NEW p \in Processes, Miss(p)
       PROVE  Formed'
  <2>1. entry' = [l \in EntryKeys |-> IF l \in {job[p].key} THEN Null ELSE entry[l]]
    BY <1>10 DEF Miss, Base, EntriesOK
  <2>2. {job[p].key} \in SUBSET EntryKeys
    BY <1>10 DEF Miss, Compares, Base, JobsOK, WriteJobs, GetJobs
  <2>3. EntriesOK'
    BY <1>10, <2>1, <2>2, EntriesGo DEF Miss, history
  <2>4. filing[p] = Null /\ filing' = filing /\ \A q \in Processes \ {p} : job'[q] = job[q]
    BY <1>10 DEF Miss, Compares, Finish, Base, FilingOK, Writes, JobsOK
  <2> QED BY <1>0, <1>10, <2>3, <2>4, FinishKeeps, FilingStays, StoreKept DEF Miss, history, Formed
<1>11. ASSUME NEW p \in Processes, Flush(p)
       PROVE  Formed'
  <2>1. EntriesOK'
    BY <1>11 DEF Flush, EntriesOK
  <2> QED BY <1>0, <1>11, <2>1 DEF Flush, history, Formed
<1>12. ASSUME NEW t \in Tags, UNCHANGED <<entry, job, filing, history>>
       PROVE  Formed'
  BY <1>0, <1>12 DEF history, Formed
<1>13. CASE UNCHANGED taggedVars
  BY <1>0, <1>13 DEF taggedVars, history, Formed
<1>14. ASSUME NEW p \in Processes, JobDies(p)
       PROVE  Formed'
  <2>1. FilingOK'
    BY <1>14, StoreKept DEF JobDies, Finish, Base, FilingOK, Writes, JobsOK
  <2> QED BY <1>0, <1>14, <2>1, FinishKeeps DEF JobDies, history, Formed
<1>15. ASSUME NEW p \in Processes, RemoveFile(p)
       PROVE  Formed'
  BY <1>0, <1>15, RemoveFileKeeps DEF RemoveFile, history, Formed
<1>16. ASSUME NEW p \in Processes, WriteFile(p)
       PROVE  Formed'
  BY <1>0, <1>16, WriteFileKeeps DEF WriteFile, history, Formed
<1> QED
  BY <1>1, <1>2, <1>3, <1>4, <1>5, <1>6, <1>7, <1>8, <1>9, <1>10, <1>11, <1>12, <1>13, <1>14,
     <1>15, <1>16 DEF TaggedNext

(* The tagged cache is well-typed and its jobs are sound in every state. *)
THEOREM BaseInvariance == TaggedSpec => []Base
BY InitBase, StepBase, PTL DEF TaggedSpec

\* Whatever the keys, tags and processes, a container in the store has a version of
\* each of its tags, and a reader compares the tags of what it has read.
THEOREM TaggedTypeCorrect == TaggedSpec => []TaggedTypeOK
<1>1. Base => TaggedTypeOK
  BY DEF Base, IInv, EntriesOK, JobsOK, TaggedTypeOK, WriteJobs, GetJobs
<1> QED BY <1>1, BaseInvariance, PTL

-----------------------------------------------------------------------------
\* In the table, a call of the store is one statement, and no file is replaced.
LEMMA TableSteps ==
  ASSUME Base, store = "db", NEW p \in Processes
  PROVE  /\ ~ RemoveFile(p) /\ ~ WriteFile(p)
         /\ \A t \in Tags : ~ PutLock(p, t)
BY DEF Base, FilingOK, RemoveFile, WriteFile, PutLock, At, IInv, InTable, Statements

LEMMA TableSets ==
  ASSUME Base, store = "db", NEW p \in Processes, NEW t \in Tags, SetCounter(p, t)
  PROVE  /\ At(p, t, "set") /\ GoTo(p, "unlock") /\ lock' = lock
         /\ counter' = [counter EXCEPT ![t] = Applied(call[p].op, call[p].seen)]
BY DEF Base, SetCounter, At, IInv, InTable, Statements

LEMMA TableUnlocks ==
  ASSUME Base, store = "db", NEW p \in Processes, NEW t \in Tags, Unlock(p, t)
  PROVE  /\ At(p, t, "unlock") /\ Return(p, Applied(call[p].op, call[p].seen) = 0)
         /\ lock' = [lock EXCEPT ![t] = {}] /\ counter' = counter
BY DEF Base, Unlock, At, IInv, InTable, Statements

LEMMA TableAdds ==
  ASSUME Base, store = "db", NEW p \in Processes, NEW t \in Tags
  PROVE  /\ AddCounter(p, t) =>
              /\ At(p, t, "add") /\ CreateCounter(t) /\ lock' = lock
              /\ call' = [call EXCEPT ![p].pc = "get", ![p].again = TRUE]
         /\ AddTag(p, t) => CreateCounter(t) /\ job' = [job EXCEPT ![p].seen[t] = 0]
<1>1. AddTag(p, t) => CreateCounter(t) /\ job' = [job EXCEPT ![p].seen[t] = 0]
  BY DEF AddTag
<1>2. AddCounter(p, t) => call[p].pc \in Statements
  BY DEF Base, AddCounter, At, IInv, InTable
<1> QED BY <1>1, <1>2 DEF AddCounter, At, Statements

LEMMA TablePuts ==
  ASSUME Base, store = "db", NEW p \in Processes, NEW k \in EntryKeys, Put(p, k)
  PROVE  Finish(p) /\ (entry' = entry \/ Filled(p, k))
BY DEF Put

-----------------------------------------------------------------------------
\* While a tag is invalidated, all containers that have it are suspect.
CallsSuspect ==
  \A p \in Processes, id \in DOMAIN begun :
    call[p] # Null /\ call[p].key \in begun[id] => id \in suspect

\* The versions of a container that is not suspect are those of its tags, or
\* become them, as long as they have not lapsed.
EntryQuiet(k) ==
  entry[k] # Null /\ entry[k].id \notin suspect =>
    \A t \in entry[k].tags : counter[t] \in {entry[k].versions[t], Lapsed}

JobQuiet(p) ==
  job[p] # Null /\ job[p].id \notin suspect =>
    \A t \in job[p].tags : counter[t] # Lapsed =>
      /\ job[p].op = "get" => job[p].versions[t] = counter[t]
      /\ t \notin job[p].unread =>
           \/ job[p].seen[t] = counter[t]
           \/ job[p].op # "get" /\ job[p].seen[t] = Null /\ counter[t] \in {Null, 0}

Quiet ==
  /\ CallsSuspect
  /\ \A k \in EntryKeys : EntryQuiet(k)
  /\ \A p \in Processes : JobQuiet(p)

\* A step that gives the tags of such a container at most a first version.
FirstVersion(t) ==
  counter'[t] \in {counter[t], Lapsed} \/ (counter[t] = Null /\ counter'[t] = 0)

Quietly ==
  /\ suspect \subseteq suspect' /\ DOMAIN begun \subseteq DOMAIN begun'
  /\ \A id \in DOMAIN begun : begun'[id] = begun[id]
  /\ \A id \in DOMAIN begun \ suspect' : \A t \in begun[id] : FirstVersion(t)

LEMMA EntryStaysQuiet ==
  ASSUME Base, Quietly, NEW k \in EntryKeys, EntryQuiet(k), entry'[k] \in {entry[k], Null}
  PROVE  EntryQuiet(k)'
<1> SUFFICES ASSUME entry[k] # Null, entry'[k] = entry[k], entry[k].id \notin suspect',
                    NEW t \in entry[k].tags
             PROVE  counter'[t] \in {entry[k].versions[t], Lapsed}
  BY DEF EntryQuiet
<1>1. FirstVersion(t) /\ counter[t] \in {entry[k].versions[t], Lapsed} /\ entry[k].versions[t] \in Nat
  BY DEF Quietly, Base, EntriesOK, EntryQuiet
<1> QED BY <1>1, CacheCounterConstants DEF FirstVersion

LEMMA JobStaysQuiet ==
  ASSUME Base, Quietly, NEW p \in Processes, JobQuiet(p), job'[p] \in {job[p], Null}
  PROVE  JobQuiet(p)'
<1> SUFFICES ASSUME job[p] # Null, job'[p] = job[p], job[p].id \notin suspect',
                    NEW t \in job[p].tags, counter'[t] # Lapsed
             PROVE  /\ job[p].op = "get" => job[p].versions[t] = counter'[t]
                    /\ t \notin job[p].unread =>
                         \/ job[p].seen[t] = counter'[t]
                         \/ /\ job[p].op # "get" /\ job[p].seen[t] = Null
                            /\ counter'[t] \in {Null, 0}
  BY DEF JobQuiet
<1>1. FirstVersion(t) /\ counter[t] # Lapsed
  BY CacheCounterConstants DEF Quietly, Base, JobsOK, FirstVersion
<1>2. job[p].op = "get" => job[p].versions[t] = counter[t] /\ job[p].versions[t] \in Nat
  BY <1>1 DEF Quietly, Base, JobsOK, JobQuiet
<1>3. t \notin job[p].unread =>
        \/ job[p].seen[t] = counter[t]
        \/ job[p].op # "get" /\ job[p].seen[t] = Null /\ counter[t] \in {Null, 0}
  BY <1>1 DEF Quietly, JobQuiet
<1> QED BY <1>1, <1>2, <1>3, CacheCounterConstants DEF FirstVersion

\* The steps of calls touch the counter of the tag alone, and those of others
\* leave a process's call as it is.
LEMMA CallTouches ==
  ASSUME Base, NEW p \in Processes, NEW t \in Tags, CallStep(p, t)
  PROVE  /\ call[p] # Null /\ call[p].key = t
         /\ \A u \in Tags \ {t} : counter'[u] = counter[u]
         /\ \A q \in Processes : call'[q] # Null => call[q] # Null /\ call'[q].key = call[q].key
<1>1. call \in [Processes -> Calls \union {Null}] /\ counter \in [Tags -> Nat \union {Null, Lapsed}]
  BY DEF Base, IInv, CounterTypeOK, Tags
<1>2. call[p] # Null /\ call[p].key = t /\ call[p] \in Calls
  BY <1>1 DEF CallStep, GetCounter, TakeLock, PutLock, SetCounter, Unlock, AddCounter, At
<1>3. \A u \in Tags \ {t} : counter'[u] = counter[u]
  BY <1>1 DEF CallStep, GetCounter, TakeLock, PutLock, SetCounter, Unlock, AddCounter, CreateCounter
<1>4. \A q \in Processes \ {p} : call'[q] = call[q]
  BY <1>1 DEF CallStep, GetCounter, TakeLock, PutLock, SetCounter, Unlock, AddCounter, Return, GoTo
<1>5. call'[p] # Null => call'[p].key = call[p].key
  <2>1. CASE GetCounter(p, t)
    BY <1>1, <1>2, <2>1 DEF GetCounter, Return, GoTo, Calls
  <2>2. CASE TakeLock(p, t)
    BY <1>1, <1>2, <2>2 DEF TakeLock, Return, GoTo, Calls
  <2>3. CASE SetCounter(p, t)
    BY <1>1, <1>2, <2>3 DEF SetCounter, GoTo, Calls
  <2>4. CASE Unlock(p, t)
    BY <1>1, <1>2, <2>4 DEF Unlock, Return, GoTo, Calls
  <2>5. CASE AddCounter(p, t)
    BY <1>1, <1>2, <2>5 DEF AddCounter, GoTo, Calls
  <2>6. CASE PutLock(p, t)
    BY <1>1, <1>2, <2>6 DEF PutLock, GoTo, Calls
  <2> QED BY <2>1, <2>2, <2>3, <2>4, <2>5, <2>6 DEF CallStep
<1> QED BY <1>2, <1>3, <1>4, <1>5

\* A step that changes neither counters nor history.
LEMMA StillQuietly ==
  ASSUME UNCHANGED <<counter, history>>
  PROVE  Quietly
BY DEF Quietly, FirstVersion, history

\* Jobs and entries that go, and steps of calls, leave the rest quiet.
LEMMA QuietWhenNothingComes ==
  ASSUME Base, Quiet, Quietly, CallsSuspect',
         \A k \in EntryKeys : entry'[k] \in {entry[k], Null},
         \A p \in Processes : job'[p] \in {job[p], Null}
  PROVE  Quiet'
BY EntryStaysQuiet, JobStaysQuiet DEF Quiet

LEMMA StartWriteQuiet ==
  ASSUME Base, Quiet, NEW p \in Processes, NEW k \in EntryKeys, NEW op \in {"add", "set"},
         NEW T \in SUBSET Tags, StartWrite(p, k, op, T)
  PROVE  Quiet'
<1> DEFINE j == [op |-> op, key |-> k, tags |-> T, unread |-> T, seen |-> NothingSeen,
                 id |-> Len(begun) + 1, gone |-> {}]
<1>1. /\ begun' \in Seq(SUBSET Tags) /\ Len(begun) + 1 \in DOMAIN begun'
      /\ begun'[Len(begun) + 1] = T /\ DOMAIN begun \subseteq DOMAIN begun'
      /\ \A i \in DOMAIN begun : begun'[i] = begun[i]
      /\ Len(begun) + 1 \in Nat
  BY BegunGrows DEF StartWrite
<1>2. /\ job' = [job EXCEPT ![p] = j] /\ entry' = entry
      /\ UNCHANGED <<store, counter, fleeting, call>>
      /\ suspect' = IF Invalidated(T) THEN suspect \union {Len(begun) + 1} ELSE suspect
  BY DEF StartWrite, counterVars
<1>3. Quietly
  BY <1>1, <1>2 DEF Quietly, FirstVersion
<1>5. CallsSuspect'
  <2> SUFFICES ASSUME NEW q \in Processes, NEW id \in DOMAIN begun',
                      call[q] # Null, call[q].key \in begun'[id]
               PROVE  id \in suspect'
    BY <1>2 DEF CallsSuspect
  <2>1. id \in DOMAIN begun \/ id = Len(begun) + 1
    BY DEF StartWrite, Base, HistoryOK
  <2> QED BY <1>1, <1>2, <2>1 DEF Quiet, CallsSuspect, Invalidated
<1>6. j.tags = T /\ j.unread = T /\ j.op # "get"
  OBVIOUS
<1> HIDE DEF j
<1>7. \A l \in EntryKeys : EntryQuiet(l)'
  BY <1>2, <1>3, EntryStaysQuiet DEF Quiet
<1>8. \A q \in Processes : JobQuiet(q)'
  <2>1. \A q \in Processes \ {p} : job'[q] = job[q]
    BY <1>2 DEF Base, JobsOK
  <2>2. job'[p] = j
    BY <1>2 DEF Base, JobsOK
  <2>3. JobQuiet(p)'
    BY <1>6, <2>2 DEF JobQuiet
  <2> QED BY <1>3, <2>1, <2>3, JobStaysQuiet DEF Quiet
<1> QED BY <1>5, <1>7, <1>8 DEF Quiet

LEMMA StartGetQuiet ==
  ASSUME Base, Quiet, NEW p \in Processes, NEW k \in EntryKeys, StartGet(p, k)
  PROVE  Quiet'
<1> DEFINE j == [op |-> "get", key |-> k, tags |-> entry[k].tags,
                 unread |-> entry[k].tags, seen |-> NothingSeen,
                 id |-> entry[k].id, versions |-> entry[k].versions, gone |-> dead]
<1>1. /\ job' = [job EXCEPT ![p] = j] /\ entry[k] # Null
      /\ UNCHANGED <<store, counter, fleeting, call, entry, history>>
  BY DEF StartGet, counterVars
<1>2. Quietly
  BY <1>1, StillQuietly
<1>3. /\ j.id = entry[k].id /\ j.tags = entry[k].tags /\ j.unread = entry[k].tags
      /\ j.versions = entry[k].versions
  OBVIOUS
<1> HIDE DEF j
<1>4. CallsSuspect'
  BY <1>1 DEF Quiet, CallsSuspect, history
<1>5. /\ \A q \in Processes \ {p} : job'[q] = job[q]
      /\ job'[p] = j
  BY <1>1 DEF Base, JobsOK
<1>6. JobQuiet(p)'
  BY <1>1, <1>3, <1>5 DEF Quiet, EntryQuiet, JobQuiet, history
<1> QED BY <1>1, <1>2, <1>4, <1>5, <1>6, JobStaysQuiet, EntryStaysQuiet DEF Quiet

\* What is read is the version of the tag.
LEMMA ReadTagQuiet ==
  ASSUME Base, store = "db", Quiet, NEW p \in Processes, NEW t \in Tags, ReadTag(p, t)
  PROVE  Quiet'
<1> DEFINE v == [job[p].seen EXCEPT ![t] = ReadVersion(t)]
           u == job[p].unread \ {t}
<1>1. JobSeen(p, u, v)
  BY ReadTagSeen
<1>2. job[p] # Null /\ job[p].seen \in Versions
      /\ UNCHANGED <<store, counter, fleeting, call, entry, history>>
  BY DEF ReadTag, Base, JobsOK, WriteJobs, GetJobs, counterVars
<1>3. /\ counter[t] # Lapsed => v[t] = counter[t]
      /\ \A s \in Tags \ {t} : v[s] = job[p].seen[s]
  BY <1>2 DEF ReadVersion, Versions
<1>4. /\ \A s \in Tags : s \notin u => s = t \/ s \notin job[p].unread
      /\ job[p].tags \subseteq Tags
  BY <1>2 DEF Base, JobsOK, WriteJobs, GetJobs
<1> HIDE DEF u, v
<1>5. Quietly
  BY <1>2, StillQuietly
<1>6. CallsSuspect'
  BY <1>2 DEF Quiet, CallsSuspect, history
<1>7. JobQuiet(p)'
  <2>1. job[p].op = "get" => job'[p].versions = job[p].versions
    BY <1>1, <1>2 DEF JobSeen, Base, JobsOK, WriteJobs
  <2> QED BY <1>1, <1>2, <1>3, <1>4, <2>1 DEF Quiet, JobQuiet, JobSeen, SeenLike, history
<1>8. \A q \in Processes \ {p} : JobQuiet(q)'
  BY <1>1, <1>5, JobStaysQuiet DEF Quiet, JobSeen
<1>9. \A k \in EntryKeys : EntryQuiet(k)'
  BY <1>2, <1>5, EntryStaysQuiet DEF Quiet
<1> QED BY <1>6, <1>7, <1>8, <1>9 DEF Quiet

\* A tag of a container that is not suspect had no version, or has version 0.
LEMMA AddTagQuiet ==
  ASSUME Base, store = "db", Quiet, NEW p \in Processes, NEW t \in Tags, AddTag(p, t)
  PROVE  Quiet'
<1> DEFINE v == [job[p].seen EXCEPT ![t] = 0]
<1>1. JobSeen(p, job[p].unread, v) /\ job[p] \in WriteJobs
  BY ZeroSeen, TableAdds DEF AddTag
<1>2. /\ job[p] # Null /\ job[p].seen \in Versions /\ t \in job[p].tags
      /\ job[p].unread = {} /\ job[p].seen[t] = Null /\ job[p].op # "get"
      /\ CreateCounter(t)
      /\ UNCHANGED <<call, entry, history>>
  BY <1>1, TableAdds DEF AddTag, Writes, WriteJobs
<1>3. counter \in [Tags -> Nat \union {Null, Lapsed}]
  BY DEF Base, IInv, CounterTypeOK, Tags
<1>4. /\ \A s \in Tags : FirstVersion(s)
      /\ counter[t] \in {Null, 0} => counter'[t] = 0
      /\ counter[t] = Lapsed => counter'[t] = Lapsed
  BY <1>2, <1>3, CacheCounterConstants DEF CreateCounter, FirstVersion
<1>5. v[t] = 0 /\ \A s \in Tags \ {t} : v[s] = job[p].seen[s]
  BY <1>2 DEF Versions
<1> HIDE DEF v
<1>6. Quietly
  BY <1>2, <1>4 DEF Quietly, history, Base, HistoryOK
<1>7. CallsSuspect'
  BY <1>2 DEF Quiet, CallsSuspect, history
<1>8. JobQuiet(p)'
  <2> SUFFICES ASSUME job[p].id \notin suspect, NEW s \in job[p].tags, counter'[s] # Lapsed
               PROVE  v[s] = counter'[s] \/ (v[s] = Null /\ counter'[s] \in {Null, 0})
    BY <1>1, <1>2 DEF JobQuiet, JobSeen, SeenLike, history
  <2>2. s \in Tags
    BY <1>1 DEF WriteJobs
  <2>5. counter[s] # Lapsed
    BY <1>2, <1>3, <2>2, CacheCounterConstants DEF CreateCounter
  <2>1. \/ job[p].seen[s] = counter[s]
        \/ job[p].seen[s] = Null /\ counter[s] \in {Null, 0}
    BY <1>2, <2>5 DEF Quiet, JobQuiet
  <2>3. CASE s = t
    BY <1>2, <1>4, <1>5, <2>1, <2>3
  <2>4. CASE s # t
    <3>1. counter'[s] = counter[s]
      BY <1>2, <1>3, <2>2, <2>4 DEF CreateCounter
    <3> QED BY <1>5, <2>1, <2>2, <2>4, <3>1
  <2> QED BY <2>3, <2>4
<1>9. \A q \in Processes \ {p} : JobQuiet(q)'
  BY <1>1, <1>6, JobStaysQuiet DEF Quiet, JobSeen
<1>10. \A k \in EntryKeys : EntryQuiet(k)'
  BY <1>2, <1>6, EntryStaysQuiet DEF Quiet
<1> QED BY <1>7, <1>8, <1>9, <1>10 DEF Quiet

\* A container is stored with the versions it has read.
LEMMA PutQuiet ==
  ASSUME Base, store = "db", Quiet, NEW p \in Processes, NEW k \in EntryKeys, Put(p, k)
  PROVE  Quiet'
<1>1. /\ job[p] # Null /\ job[p] \in WriteJobs /\ Finish(p) /\ job[p].unread = {}
      /\ \A t \in job[p].tags : job[p].seen[t] # Null
      /\ UNCHANGED <<store, counter, fleeting, call, history>>
  BY TablePuts DEF Put, Prepared, Writes, Base, JobsOK, GetJobs, counterVars
<1>2. Quietly
  BY <1>1, StillQuietly
<1>3. CallsSuspect'
  BY <1>1 DEF Quiet, CallsSuspect, history
<1>4. \A q \in Processes : JobQuiet(q)'
  BY <1>1, <1>2, JobStaysQuiet DEF Quiet, Finish, Base, JobsOK
<1>5. \A l \in EntryKeys \ {k} : EntryQuiet(l)'
  BY <1>2, EntryStaysQuiet, TablePuts DEF Quiet, Filled, Base, EntriesOK
<1>6. EntryQuiet(k)'
  <2>1. CASE entry' = entry
    BY <1>2, <2>1, EntryStaysQuiet DEF Quiet
  <2>2. CASE Filled(p, k)
    <3>1. /\ entry'[k].id = job[p].id /\ entry'[k].tags = job[p].tags
          /\ entry'[k].versions = job[p].seen
      BY <2>2 DEF Filled, Base, EntriesOK
    <3>2. \A t \in job[p].tags : t \in Tags /\ job[p].seen[t] \in Nat
      BY <1>1 DEF WriteJobs, Versions
    <3> QED BY <1>1, <3>1, <3>2 DEF Quiet, JobQuiet, EntryQuiet, history
  <2> QED BY <2>1, <2>2, TablePuts
<1> QED BY <1>3, <1>4, <1>5, <1>6 DEF Quiet

\* What a deleteByTag invalidates is suspect from its first step.
LEMMA StartDeleteQuiet ==
  ASSUME Base, Quiet, NEW p \in Processes, NEW t \in Tags, StartDeleteByTag(p, t)
  PROVE  Quiet'
<1>1. /\ Start(p, t, "inc", TRUE)
      /\ suspect' = suspect \union {id \in DOMAIN begun : t \in begun[id]}
      /\ UNCHANGED <<entry, job, begun, counter, fleeting>>
  BY DEF StartDeleteByTag, Start
<1>2. Quietly
  BY <1>1 DEF Quietly, FirstVersion
<1>4. \A q \in Processes : call'[q] = call[q] \/ call'[q].key = t
  BY <1>1 DEF Start, Base, IInv, CounterTypeOK
<1>5. CallsSuspect'
  BY <1>1, <1>4 DEF Quiet, CallsSuspect
<1> QED BY <1>1, <1>2, <1>5, QuietWhenNothingComes

LEMMA StepDeleteQuiet ==
  ASSUME Base, store = "db", Quiet, NEW p \in Processes, NEW t \in Tags,
         StepDeleteByTag(p, t)
  PROVE  Quiet'
<1>1. CallStep(p, t) /\ UNCHANGED <<entry, job, begun, suspect>>
  BY DEF StepDeleteByTag
<1>2. /\ call[p] # Null /\ call[p].key = t
      /\ \A u \in Tags \ {t} : counter'[u] = counter[u]
      /\ \A q \in Processes : call'[q] # Null => call[q] # Null /\ call'[q].key = call[q].key
  BY <1>1, CallTouches DEF Quiet
<1>3. CallsSuspect'
  BY <1>1, <1>2 DEF Quiet, CallsSuspect
<1>4. Quietly
  BY <1>1, <1>2 DEF Quietly, FirstVersion, Quiet, CallsSuspect, Base, HistoryOK
<1> QED BY <1>1, <1>2, <1>3, <1>4, QuietWhenNothingComes

\* An empty store, and nobody in it.
LEMMA FlushQuiet ==
  ASSUME Base, NEW p \in Processes, Flush(p)
  PROVE  Quiet'
BY CacheCounterConstants
   DEF Flush, Idle, Quiet, CallsSuspect, EntryQuiet, JobQuiet

\* What a reader misses has been invalidated, or a version of it has lapsed.
LEMMA MissSuspect ==
  ASSUME Base, Quiet, NEW p \in Processes, Miss(p)
  PROVE  job[p].id \in suspect \/ \E t \in job[p].tags : counter[t] = Lapsed
<1>1. /\ job[p] # Null /\ job[p].op = "get" /\ job[p].unread = {} /\ ~ Valid(p)
      /\ \A t \in job[p].tags : job[p].versions[t] \in Nat
  BY DEF Miss, Compares, Base, JobsOK
<1> QED BY <1>1, CacheCounterConstants DEF Quiet, JobQuiet, Valid

-----------------------------------------------------------------------------
QuietInTable == store = "db" => Quiet

LEMMA InitQuiet == TaggedInit => QuietInTable
BY CacheCounterConstants
   DEF TaggedInit, CounterInit, QuietInTable, Quiet, CallsSuspect, EntryQuiet, JobQuiet, Tags

LEMMA StepQuiet == Base /\ QuietInTable /\ [TaggedNext]_taggedVars => QuietInTable'
<1> SUFFICES ASSUME Base, store = "db", Quiet, [TaggedNext]_taggedVars PROVE Quiet'
  BY StoreKept DEF QuietInTable
<1>1. ASSUME UNCHANGED <<counter, call, history>>,
             \A k \in EntryKeys : entry'[k] \in {entry[k], Null},
             \A p \in Processes : job'[p] \in {job[p], Null}
      PROVE  Quiet'
  <2>1. CallsSuspect' /\ Quietly
    BY <1>1, StillQuietly DEF Quiet, CallsSuspect, history
  <2> QED BY <1>1, <2>1, QuietWhenNothingComes
<1>2. ASSUME NEW p \in Processes, NEW k \in EntryKeys, Delete(p, k) PROVE Quiet'
  BY <1>1, <1>2 DEF Delete, counterVars, Base, EntriesOK
<1>3. ASSUME NEW p \in Processes, Hit(p) \/ Miss(p) \/ JobDies(p) PROVE Quiet'
  BY <1>1, <1>3 DEF Hit, Miss, JobDies, Finish, counterVars, Base, EntriesOK, JobsOK
<1>4. CASE UNCHANGED taggedVars
  BY <1>1, <1>4 DEF taggedVars, counterVars
<1>5. ASSUME NEW t \in Tags, Lapse(t), UNCHANGED <<entry, job, history>> PROVE Quiet'
  <2>1. \A s \in Tags : counter'[s] \in {counter[s], Lapsed}
    BY <1>5 DEF Lapse, Base, IInv, CounterTypeOK, Tags
  <2>2. Quietly /\ CallsSuspect'
    BY <1>5, <2>1 DEF Lapse, Quietly, FirstVersion, history, Base, HistoryOK, Quiet, CallsSuspect
  <2> QED BY <1>5, <2>2, QuietWhenNothingComes
<1>6. ASSUME NEW t \in Tags, Expire(t), UNCHANGED <<entry, job, history>> PROVE Quiet'
  BY <1>1, <1>6 DEF Expire
<1> QED
  BY <1>2, <1>3, <1>4, <1>5, <1>6, TableSteps, StartWriteQuiet, StartGetQuiet, PutQuiet,
     ReadTagQuiet, AddTagQuiet, StartDeleteQuiet, StepDeleteQuiet, FlushQuiet DEF TaggedNext

\* In the table no entry is missed that nobody has invalidated and whose versions are
\* there, however many processes store, read, invalidate, flush and die.
THEOREM NoNeedlessMissAlways == TaggedSpec => NoNeedlessMiss
<1>1. Base /\ QuietInTable /\ [TaggedNext]_taggedVars =>
        [store = "db" => \A p \in Processes :
           Miss(p) => job[p].id \in suspect \/ \E t \in job[p].tags : counter[t] = Lapsed
        ]_taggedVars
  BY MissSuspect DEF QuietInTable
<1> QED
  BY <1>1, InitBase, StepBase, InitQuiet, StepQuiet, PTL DEF TaggedSpec, NoNeedlessMiss

-----------------------------------------------------------------------------
\* One process at most invalidates.
OneInvalidates == \A p, q \in Invalidators : p = q

\* A deleteByTag under way increments what the counter still is, unless it has
\* lapsed, and holds its lock alone.
Deletes(p) ==
  call[p] # Null =>
    /\ p \in Invalidators /\ call[p].op = "inc"
    /\ \A id \in target[p] : call[p].key \in begun[id]
    /\ call[p].pc \in {"lock", "set"} => counter[call[p].key] \in {Lapsed, call[p].seen}

LocksHeld == \A t \in Tags : lock[t] = {} \/ \E p \in Processes : Holds(p, t)

\* A version that the tag has had: no counter of it is below, nor will be.
Bounded(v, t) ==
  /\ counter[t] # Null
  /\ counter[t] \in Nat => v <= counter[t]
  /\ \A p \in Processes : At(p, t, "lock") \/ At(p, t, "set") => v <= call[p].seen

\* A version that no reader takes for that of the tag.
Older(v, t) == counter[t] \in Nat => v < counter[t]

EntrySound(k) ==
  entry[k] # Null =>
    /\ \A t \in entry[k].tags : Bounded(entry[k].versions[t], t)
    /\ entry[k].id \in dead => \E t \in entry[k].tags : Older(entry[k].versions[t], t)

Writing(p) == job[p] # Null /\ job[p].op # "get"
Reading(p) == job[p] # Null /\ job[p].op = "get"

JobSound(p) ==
  /\ Writing(p) => \A t \in job[p].tags : job[p].seen[t] \in Nat => Bounded(job[p].seen[t], t)
  /\ Reading(p) =>
       /\ \A t \in job[p].tags : Bounded(job[p].versions[t], t)
       /\ job[p].id \in job[p].gone =>
            \E t \in job[p].tags :
              IF t \in job[p].unread THEN Older(job[p].versions[t], t)
                                     ELSE job[p].seen[t] # job[p].versions[t]

\* What a deleteByTag is meant for is older once it has written the counter.
TargetOlder(p) ==
  \A k \in EntryKeys :
    /\ call[p] # Null /\ call[p].pc = "unlock"
    /\ entry[k] # Null /\ entry[k].id \in target[p]
    => Older(entry[k].versions[call[p].key], call[p].key)

\* A container is stored once, and nothing is known of it before.
Fresh ==
  \A p \in Processes : Writing(p) =>
    /\ job[p].id \notin dead /\ \A q \in Processes : job[p].id \notin target[q]
    /\ \A k \in EntryKeys : entry[k] # Null => entry[k].id # job[p].id
    /\ \A q \in Processes \ {p} : Writing(q) => job[q].id # job[p].id

CallsSound == LocksHeld /\ \A p \in Processes : Deletes(p) /\ TargetOlder(p)
Sound ==
  /\ CallsSound /\ Fresh
  /\ \A k \in EntryKeys : EntrySound(k)
  /\ \A p \in Processes : JobSound(p)

\* A step after which versions are still bounded, and older ones still older.
Keeps ==
  \A t \in Tags, v \in Nat : Bounded(v, t) => Bounded(v, t)' /\ (Older(v, t) => Older(v, t)')

LEMMA EntryStaysSound ==
  ASSUME Base, Keeps, NEW k \in EntryKeys, EntrySound(k), entry'[k] \in {entry[k], Null}, dead' = dead
  PROVE  EntrySound(k)'
<1> SUFFICES ASSUME entry[k] # Null, entry'[k] = entry[k] PROVE EntrySound(k)'
  BY DEF EntrySound
<1>1. \A t \in entry[k].tags : t \in Tags /\ entry[k].versions[t] \in Nat
  BY DEF Base, EntriesOK, Containers
<1> QED BY <1>1 DEF Keeps, EntrySound

LEMMA JobStaysSound ==
  ASSUME Base, Keeps, NEW p \in Processes, JobSound(p), job'[p] \in {job[p], Null}
  PROVE  JobSound(p)'
<1> SUFFICES ASSUME job[p] # Null, job'[p] = job[p] PROVE JobSound(p)'
  BY DEF JobSound, Writing, Reading
<1>1. \A t \in job[p].tags : t \in Tags
  BY DEF Base, JobsOK, WriteJobs, GetJobs
<1>2. Reading(p) => \A t \in job[p].tags : job[p].versions[t] \in Nat
  BY DEF Base, JobsOK, Reading
<1>3. CASE Writing(p)
  BY <1>1, <1>3 DEF Keeps, JobSound, Writing, Reading
<1>4. CASE Reading(p)
  BY <1>1, <1>2, <1>4 DEF Keeps, JobSound, Writing, Reading
<1> QED BY <1>3, <1>4 DEF Writing, Reading

LEMMA StaysFresh ==
  ASSUME Base, Fresh,
         \A p \in Processes : \/ job'[p] = Null
                              \/ job[p] # Null /\ job'[p].op = job[p].op /\ job'[p].id = job[p].id,
         \A id \in dead' : id \in dead \/ \E q \in Processes : id \in target[q],
         \A q \in Processes : \A id \in target'[q] :
           id \in target[q] \/ \E k \in EntryKeys : entry[k] # Null /\ entry[k].id = id,
         \A k \in EntryKeys : entry'[k] \in {entry[k], Null}
  PROVE  Fresh'
<1>1. \A p \in Processes : Writing(p)' => Writing(p) /\ job'[p].id = job[p].id
  BY DEF Writing
<1> QED BY <1>1 DEF Fresh

LEMMA TargetStaysOlder ==
  ASSUME Base, Keeps, NEW p \in Processes, TargetOlder(p), Deletes(p), EntriesOK,
         \A k \in EntryKeys : EntrySound(k),
         call'[p] = call[p], target'[p] = target[p],
         \A k \in EntryKeys : entry'[k] \in {entry[k], Null} \/ entry'[k].id \notin target[p]
  PROVE  TargetOlder(p)'
<1> SUFFICES ASSUME NEW k \in EntryKeys, call[p] # Null, call[p].pc = "unlock",
                    entry[k] # Null, entry'[k] = entry[k], entry[k].id \in target[p]
             PROVE  Older(entry[k].versions[call[p].key], call[p].key)'
  BY DEF TargetOlder
<1>1. call[p].key \in entry[k].tags
  BY DEF Deletes, EntriesOK
<1>2. call[p].key \in Tags /\ entry[k].versions[call[p].key] \in Nat
  BY <1>1 DEF EntriesOK, Containers
<1>3. /\ Bounded(entry[k].versions[call[p].key], call[p].key)
      /\ Older(entry[k].versions[call[p].key], call[p].key)
  BY <1>1 DEF EntrySound, TargetOlder
<1> DEFINE v == entry[k].versions[call[p].key]
           t == call[p].key
<1>4. Older(v, t)'
  BY <1>2, <1>3 DEF Keeps
<1> QED BY <1>4

-----------------------------------------------------------------------------
\* Steps that write no counter and no call keep all versions as they are.
LEMMA StillKeeps ==
  ASSUME UNCHANGED <<counter, call>>
  PROVE  Keeps
BY DEF Keeps, Bounded, Older, At

\* A version that lapses is nobody's.
LEMMA LapseKeeps ==
  ASSUME Base, NEW t \in Tags, Lapse(t)
  PROVE  Keeps
<1>1. counter' = [counter EXCEPT ![t] = Lapsed] /\ call' = call
  BY DEF Lapse
<1>2. counter \in [Tags -> Nat \union {Null, Lapsed}]
  BY DEF Base, IInv, CounterTypeOK, Tags
<1> QED BY <1>1, <1>2, CacheCounterConstants DEF Keeps, Bounded, Older, At

\* add leaves a counter that there is.
LEMMA CreateKeeps ==
  ASSUME Base, NEW t \in Tags, CreateCounter(t),
         \A p \in Processes, u \in Tags :
           At(p, u, "lock")' \/ At(p, u, "set")' => call'[p] = call[p]
  PROVE  Keeps
<1>1. counter \in [Tags -> Nat \union {Null, Lapsed}]
  BY DEF Base, IInv, CounterTypeOK, Tags
<1>2. \A u \in Tags : counter[u] # Null => counter'[u] = counter[u]
  BY <1>1 DEF CreateCounter
<1> SUFFICES ASSUME NEW u \in Tags, NEW v \in Nat, Bounded(v, u)
             PROVE  Bounded(v, u)' /\ (Older(v, u) => Older(v, u)')
  BY DEF Keeps
<1>3. counter'[u] = counter[u]
  BY <1>2 DEF Bounded
<1>4. \A p \in Processes : At(p, u, "lock")' \/ At(p, u, "set")' => v <= call'[p].seen
  BY DEF Bounded, At
<1> QED BY <1>3, <1>4 DEF Bounded, Older

\* A call begins, far from writing.
LEMMA StartKeeps ==
  ASSUME Base, NEW p \in Processes, NEW t \in Tags, Start(p, t, "inc", TRUE)
  PROVE  Keeps
<1>1. /\ counter' = counter
      /\ call' = [call EXCEPT ![p] = [key |-> t, op |-> "inc", safe |-> TRUE, again |-> FALSE,
                                      pc |-> "get", seen |-> 0]]
  BY DEF Start
<1>2. call'[p].pc = "get" /\ \A q \in Processes \ {p} : call'[q] = call[q]
  BY <1>1 DEF Base, IInv, CounterTypeOK
<1> QED BY <1>1, <1>2 DEF Keeps, Bounded, Older, At

\* The steps of an increment, one by one: what the process has seen is no less than
\* any version, and it writes one more.
LEMMA GetKeeps ==
  ASSUME Base, NEW p \in Processes, NEW t \in Tags, GetCounter(p, t)
  PROVE  Keeps
<1>1. /\ call \in [Processes -> Calls \union {Null}] /\ call[p] \in Calls /\ call[p].key = t
      /\ counter \in [Tags -> Nat \union {Null, Lapsed}] /\ call[p].pc = "get"
  BY DEF Base, IInv, CounterTypeOK, Tags, GetCounter, At
<1>2. CASE counter[t] \in {Null, Lapsed}
  <2>1. call'[p] # Null => call'[p].pc = "add"
    BY <1>1, <1>2 DEF GetCounter, Return, GoTo, Calls
  <2>2. counter' = counter /\ \A q \in Processes \ {p} : call'[q] = call[q]
    BY <1>1, <1>2 DEF GetCounter, Return, GoTo
  <2> QED BY <2>1, <2>2 DEF Keeps, Bounded, Older, At
<1>3. CASE counter[t] \notin {Null, Lapsed}
  <2>1. /\ call'[p].key = t /\ call'[p].seen = counter[t] /\ counter' = counter
        /\ \A q \in Processes \ {p} : call'[q] = call[q]
        /\ counter[t] \in Nat
    BY <1>1, <1>3 DEF GetCounter, Calls
  <2> QED BY <2>1 DEF Keeps, Bounded, Older, At
<1> QED BY <1>2, <1>3

LEMMA LockKeeps ==
  ASSUME Base, store = "db", NEW p \in Processes, NEW t \in Tags, TakeLock(p, t) \/ Unlock(p, t)
  PROVE  Keeps
<1>1. /\ call \in [Processes -> Calls \union {Null}] /\ call[p] \in Calls /\ call[p].key = t
      /\ call[p] # Null /\ counter' = counter
  BY TableUnlocks DEF Base, IInv, CounterTypeOK, Tags, TakeLock, At
<1>2. \A q \in Processes \ {p} : call'[q] = call[q]
  BY <1>1, TableUnlocks DEF TakeLock, Return, GoTo
<1>3. call'[p] # Null => \/ call'[p].pc = "add"
                         \/ /\ call'[p].pc = "set" /\ call[p].pc = "lock"
                            /\ call'[p].key = t /\ call'[p].seen = call[p].seen
  <2>1. CASE TakeLock(p, t)
    BY <1>1, <2>1 DEF TakeLock, Return, GoTo, Calls, At
  <2>2. CASE Unlock(p, t)
    BY <1>1, <2>2, TableUnlocks DEF Return, GoTo, Calls
  <2> QED BY <2>1, <2>2
<1> QED BY <1>1, <1>2, <1>3 DEF Keeps, Bounded, Older, At

LEMMA SetKeeps ==
  ASSUME Base, store = "db", OneInvalidates, \A q \in Processes : Deletes(q),
         NEW p \in Processes, NEW t \in Tags, SetCounter(p, t)
  PROVE  Keeps
<1>1. /\ call \in [Processes -> Calls \union {Null}] /\ call[p] \in Calls
      /\ call[p] # Null /\ call[p].key = t /\ call[p].pc = "set"
      /\ counter \in [Tags -> Nat \union {Null, Lapsed}]
  BY TableSets DEF Base, IInv, CounterTypeOK, Tags, At
<1>2. \A q \in Processes \ {p} : call'[q] = call[q] /\ call[q] = Null
  BY <1>1, TableSets DEF Deletes, OneInvalidates, GoTo
<1>3. call'[p].pc = "unlock"
  BY <1>1, TableSets DEF GoTo, Calls
<1>4. counter' = [counter EXCEPT ![t] = call[p].seen + 1] /\ call[p].seen \in Nat
  BY <1>1, TableSets DEF Applied, Deletes, Calls
<1> SUFFICES ASSUME NEW u \in Tags, NEW v \in Nat, Bounded(v, u)
             PROVE  Bounded(v, u)' /\ (Older(v, u) => Older(v, u)')
  BY DEF Keeps
<1>5. \A q \in Processes : ~ At(q, u, "lock")' /\ ~ At(q, u, "set")'
  BY <1>2, <1>3 DEF At
<1>6. CASE u = t
  <2>1. v <= call[p].seen
    BY <1>1, <1>6 DEF Bounded, At
  <2>2. counter'[u] = call[p].seen + 1
    BY <1>1, <1>4, <1>6
  <2> QED BY <1>4, <1>5, <2>1, <2>2, CacheCounterConstants DEF Bounded, Older
<1>7. CASE u # t
  <2>1. counter'[u] = counter[u]
    BY <1>1, <1>4, <1>7
  <2> QED BY <1>5, <2>1 DEF Bounded, Older
<1> QED BY <1>6, <1>7

LEMMA AddKeeps ==
  ASSUME Base, store = "db", NEW p \in Processes, NEW t \in Tags, AddCounter(p, t)
  PROVE  Keeps
<1>1. CreateCounter(t) /\ call[p] # Null
      /\ call' = [call EXCEPT ![p].pc = "get", ![p].again = TRUE]
  BY TableAdds DEF At
<1>2. call'[p].pc = "get" /\ \A q \in Processes \ {p} : call'[q] = call[q]
  BY <1>1 DEF Base, IInv, CounterTypeOK, Calls
<1> QED BY <1>1, <1>2, CreateKeeps DEF At

\* Every step but a flush, which leaves nothing that has a version.
LEMMA StepKeeps ==
  ASSUME Base, store = "db", OneInvalidates, \A q \in Processes : Deletes(q),
         [TaggedNext]_taggedVars, \A q \in Processes : ~ Flush(q)
  PROVE  Keeps
<1>1. ASSUME NEW p \in Processes, NEW t \in Tags, AddTag(p, t) PROVE Keeps
  BY <1>1, CreateKeeps, TableAdds DEF AddTag
<1>2. ASSUME NEW p \in Processes, NEW t \in Tags, StartDeleteByTag(p, t) PROVE Keeps
  BY <1>2, StartKeeps DEF StartDeleteByTag
<1>3. ASSUME NEW p \in Processes, NEW t \in Tags, StepDeleteByTag(p, t) PROVE Keeps
  BY <1>3, TableSteps, GetKeeps, LockKeeps, SetKeeps, AddKeeps DEF StepDeleteByTag, CallStep
<1>4. ASSUME UNCHANGED counterVars PROVE Keeps
  BY <1>4, StillKeeps DEF counterVars
<1>5. ASSUME NEW t \in Tags, Expire(t) PROVE Keeps
  BY <1>5, StillKeeps DEF Expire
<1> QED
  BY <1>1, <1>2, <1>3, <1>4, <1>5, LapseKeeps, TableSteps
     DEF TaggedNext, taggedVars, StartWrite, StartGet, Put, Delete, ReadTag, Hit, Miss, JobDies

-----------------------------------------------------------------------------
\* What jobs do leaves a deleteByTag under way as it is.
LEMMA CallsStaySound ==
  ASSUME Base, Sound, Keeps, UNCHANGED <<call, lock, target>>,
         DOMAIN begun \subseteq DOMAIN begun', \A id \in DOMAIN begun : begun'[id] = begun[id],
         \A t \in Tags : counter'[t] \in {counter[t], Lapsed} \/ counter[t] = Null,
         \A k \in EntryKeys : \/ entry'[k] \in {entry[k], Null}
                         \/ \A p \in Processes : entry'[k].id \notin target[p]
  PROVE  CallsSound'
<1>1. LocksHeld'
  BY DEF Sound, CallsSound, LocksHeld, Holds, At
<1>2. ASSUME NEW p \in Processes PROVE Deletes(p)'
  <2> SUFFICES ASSUME call[p] # Null PROVE Deletes(p)'
    BY DEF Deletes
  <2>1. /\ p \in Invalidators /\ call[p].op = "inc"
        /\ \A id \in target[p] : call[p].key \in begun[id]
        /\ call[p].pc \in {"lock", "set"} => counter[call[p].key] \in {Lapsed, call[p].seen}
    BY DEF Sound, CallsSound, Deletes
  <2>2. call[p].key \in Tags /\ call[p].seen \in Nat
    BY DEF Base, IInv, CounterTypeOK, Calls, Tags
  <2>3. \A id \in target[p] : id \in DOMAIN begun
    BY DEF Base, HistoryOK
  <2> QED BY <2>1, <2>2, <2>3, CacheCounterConstants DEF Deletes
<1>3. ASSUME NEW p \in Processes PROVE TargetOlder(p)'
  BY TargetStaysOlder DEF Base, Sound, CallsSound
<1> QED BY <1>1, <1>2, <1>3 DEF CallsSound

\* Jobs and entries that go leave the rest sound.
LEMMA SoundWhenNothingComes ==
  ASSUME Base, Sound, Keeps, UNCHANGED <<call, lock, history>>,
         \A t \in Tags : counter'[t] \in {counter[t], Lapsed} \/ counter[t] = Null,
         \A k \in EntryKeys : entry'[k] \in {entry[k], Null},
         \A p \in Processes : job'[p] \in {job[p], Null}
  PROVE  Sound'
<1>1. UNCHANGED <<begun, target, dead>>
  BY DEF history
<1>2. CallsSound'
  BY <1>1, CallsStaySound
<1>3. Fresh'
  BY <1>1, StaysFresh DEF Sound
<1> QED BY <1>1, <1>2, <1>3, EntryStaysSound, JobStaysSound DEF Sound

LEMMA StartWriteSound ==
  ASSUME Base, Sound, NEW p \in Processes, NEW k \in EntryKeys, NEW op \in {"add", "set"},
         NEW T \in SUBSET Tags, StartWrite(p, k, op, T)
  PROVE  Sound'
<1> DEFINE j == [op |-> op, key |-> k, tags |-> T, unread |-> T, seen |-> NothingSeen,
                 id |-> Len(begun) + 1, gone |-> {}]
<1>1. /\ Len(begun) + 1 \notin DOMAIN begun /\ DOMAIN begun \subseteq DOMAIN begun'
      /\ \A i \in DOMAIN begun : begun'[i] = begun[i]
  BY BegunGrows DEF StartWrite
<1>2. /\ job' = [job EXCEPT ![p] = j] /\ entry' = entry /\ target' = target /\ dead' = dead
      /\ UNCHANGED <<counter, call, lock>>
  BY DEF StartWrite, counterVars
<1>3. /\ j.id = Len(begun) + 1 /\ j.op # "get" /\ j.tags = T
      /\ \A t \in T : j.seen[t] \notin Nat
  BY CacheCounterConstants DEF NothingSeen
<1> HIDE DEF j
<1>4. job'[p] = j /\ \A q \in Processes \ {p} : job'[q] = job[q]
  BY <1>2 DEF Base, JobsOK
<1>5. Keeps
  BY <1>2, StillKeeps
<1>6. CallsSound'
  BY <1>1, <1>2, <1>5, CallsStaySound
<1>7. JobSound(p)'
  BY <1>3, <1>4 DEF JobSound, Writing, Reading
<1>8. Fresh'
  <2>1. \A i \in dead : i \in DOMAIN begun
    BY DEF Base, HistoryOK
  <2>2. \A q \in Processes : \A i \in target[q] : i \in DOMAIN begun
    BY DEF Base, HistoryOK
  <2>3. \A l \in EntryKeys : entry[l] # Null => entry[l].id \in DOMAIN begun
    BY DEF Base, EntriesOK
  <2>4. \A q \in Processes : job[q] # Null => job[q].id \in DOMAIN begun
    BY DEF Base, JobsOK
  <2> QED BY <1>1, <1>2, <1>3, <1>4, <2>1, <2>2, <2>3, <2>4 DEF Fresh, Sound, Writing
<1> QED
  BY <1>2, <1>4, <1>5, <1>6, <1>7, <1>8, EntryStaysSound, JobStaysSound DEF Sound

\* A reader takes an entry whose container is dead with an older version.
LEMMA StartGetSound ==
  ASSUME Base, Sound, NEW p \in Processes, NEW k \in EntryKeys, StartGet(p, k)
  PROVE  Sound'
<1> DEFINE j == [op |-> "get", key |-> k, tags |-> entry[k].tags,
                 unread |-> entry[k].tags, seen |-> NothingSeen,
                 id |-> entry[k].id, versions |-> entry[k].versions, gone |-> dead]
<1>1. /\ job' = [job EXCEPT ![p] = j] /\ entry[k] # Null
      /\ UNCHANGED <<counter, call, lock, entry, history>>
      /\ UNCHANGED <<begun, target, dead>>
  BY DEF StartGet, counterVars, history
<1>2. /\ j.id = entry[k].id /\ j.tags = entry[k].tags /\ j.unread = entry[k].tags
      /\ j.versions = entry[k].versions /\ j.gone = dead /\ j.op = "get"
  OBVIOUS
<1> HIDE DEF j
<1>3. job'[p] = j /\ \A q \in Processes \ {p} : job'[q] = job[q]
  BY <1>1 DEF Base, JobsOK
<1>4. Keeps
  BY <1>1, StillKeeps
<1>5. CallsSound'
  BY <1>1, <1>4, CallsStaySound
<1>6. JobSound(p)'
  <2>1. /\ \A t \in entry[k].tags : Bounded(entry[k].versions[t], t)
        /\ entry[k].id \in dead => \E t \in entry[k].tags : Older(entry[k].versions[t], t)
    BY <1>1 DEF Sound, EntrySound
  <2>2. \A v, t : /\ Bounded(v, t) => Bounded(v, t)'
                  /\ Older(v, t) => Older(v, t)'
    BY <1>1 DEF Bounded, Older, At
  <2> QED BY <1>2, <1>3, <2>1, <2>2 DEF JobSound, Writing, Reading
<1>7. Fresh'
  <2>1. \A q \in Processes : Writing(q)' => Writing(q) /\ job'[q] = job[q]
    BY <1>2, <1>3 DEF Writing
  <2> QED BY <1>1, <2>1 DEF Sound, Fresh
<1> QED
  BY <1>1, <1>3, <1>4, <1>5, <1>6, <1>7, EntryStaysSound, JobStaysSound DEF Sound

\* What a reader reads of an older version is not that version.
LEMMA ReadTagSound ==
  ASSUME Base, Sound, NEW p \in Processes, NEW t \in Tags, ReadTag(p, t)
  PROVE  Sound'
<1> DEFINE v == [job[p].seen EXCEPT ![t] = ReadVersion(t)]
           u == job[p].unread \ {t}
<1>1. JobSeen(p, u, v)
  BY ReadTagSeen
<1>2. /\ job[p] # Null /\ job[p].seen \in Versions /\ job[p].tags \subseteq Tags
      /\ UNCHANGED <<counter, call, lock, entry, history>>
      /\ UNCHANGED <<begun, target, dead>>
  BY DEF ReadTag, Base, JobsOK, WriteJobs, GetJobs, counterVars, history
<1>3. v[t] = ReadVersion(t) /\ \A s \in Tags \ {t} : v[s] = job[p].seen[s]
  BY <1>2 DEF Versions
<1>4. \A s \in Tags : s \in u <=> s \in job[p].unread /\ s # t
  BY DEF u
<1> HIDE DEF u, v
<1>5. Keeps
  BY <1>2, StillKeeps
<1>6. CallsSound'
  BY <1>2, <1>5, CallsStaySound
<1>7. \A w, s : /\ Bounded(w, s) => Bounded(w, s)'
                /\ Older(w, s) => Older(w, s)'
  BY <1>2 DEF Bounded, Older, At
<1>8. counter[t] \in Nat \union {Null, Lapsed}
  BY DEF Base, IInv, CounterTypeOK, Tags
<1>9. ASSUME Writing(p) PROVE JobSound(p)'
  <2>1. ReadVersion(t) \in Nat => Bounded(ReadVersion(t), t)
    <3> SUFFICES ASSUME ReadVersion(t) \in Nat PROVE Bounded(ReadVersion(t), t)
      OBVIOUS
    <3>1. ReadVersion(t) = counter[t] /\ counter[t] \in Nat
      BY CacheCounterConstants DEF ReadVersion
    <3>2. \A q \in Processes : At(q, t, "lock") \/ At(q, t, "set") => call[q].seen = counter[t]
      BY <3>1, CacheCounterConstants DEF Sound, CallsSound, Deletes, At
    <3> QED BY <3>1, <3>2, CacheCounterConstants DEF Bounded
  <2>2. \A s \in job[p].tags : v[s] \in Nat => Bounded(v[s], s)
    BY <1>2, <1>3, <1>9, <2>1 DEF Sound, JobSound
  <2> QED BY <1>1, <1>7, <1>9, <2>2 DEF JobSound, Writing, Reading, JobSeen, SeenLike
<1>10. ASSUME Reading(p) PROVE JobSound(p)'
  <2>1. job[p] \in GetJobs
    BY <1>10 DEF Reading, Base, JobsOK, WriteJobs
  <2>2. /\ job'[p].versions = job[p].versions /\ job'[p].tags = job[p].tags
        /\ job'[p].id = job[p].id /\ job'[p].gone = job[p].gone /\ job'[p].op = "get"
        /\ job'[p].unread = u /\ job'[p].seen = v
    BY <1>1, <1>10, <2>1 DEF JobSeen, SeenLike, Reading
  <2>3. /\ \A s \in job[p].tags : Bounded(job[p].versions[s], s) /\ job[p].versions[s] \in Nat
        /\ job[p].id \in job[p].gone =>
             \E s \in job[p].tags :
               IF s \in job[p].unread THEN Older(job[p].versions[s], s)
                                      ELSE job[p].seen[s] # job[p].versions[s]
    BY <1>10 DEF Sound, JobSound, Reading, Base, JobsOK
  <2>4. t \in job[p].unread /\ t \in job[p].tags
    BY DEF ReadTag, Base, JobsOK
  <2>5. Older(job[p].versions[t], t) => v[t] # job[p].versions[t]
    BY <1>3, <1>8, <2>3, <2>4, CacheCounterConstants DEF Older, ReadVersion
  <2>6. job[p].id \in job[p].gone =>
          \E s \in job[p].tags :
            IF s \in u THEN Older(job[p].versions[s], s)
                       ELSE v[s] # job[p].versions[s]
    BY <1>2, <1>3, <1>4, <2>3, <2>4, <2>5
  <2> QED BY <1>7, <2>2, <2>3, <2>6 DEF JobSound, Writing, Reading
<1>11. JobSound(p)'
  BY <1>2, <1>9, <1>10 DEF Writing, Reading
<1>12. Fresh'
  BY <1>1, <1>2, StaysFresh DEF JobSeen, SeenLike, Sound
<1> QED
  BY <1>1, <1>2, <1>5, <1>6, <1>11, <1>12, EntryStaysSound, JobStaysSound DEF Sound, JobSeen

\* Version 0 is below all.
LEMMA AddTagSound ==
  ASSUME Base, store = "db", Sound, NEW p \in Processes, NEW t \in Tags, AddTag(p, t)
  PROVE  Sound'
<1> DEFINE v == [job[p].seen EXCEPT ![t] = 0]
<1>1. JobSeen(p, job[p].unread, v) /\ job[p] \in WriteJobs
  BY ZeroSeen, TableAdds DEF AddTag
<1>2. /\ job[p] # Null /\ job[p].seen \in Versions /\ job[p].tags \subseteq Tags
      /\ CreateCounter(t) /\ UNCHANGED <<call, lock, entry, history>>
      /\ UNCHANGED <<begun, target, dead>> /\ job[p].op # "get"
  BY <1>1, TableAdds DEF AddTag, Writes, WriteJobs, history
<1>3. v[t] = 0 /\ \A s \in Tags \ {t} : v[s] = job[p].seen[s]
  BY <1>2 DEF Versions
<1> HIDE DEF v
<1>4. Keeps
  BY <1>2, CreateKeeps
<1>5. counter \in [Tags -> Nat \union {Null, Lapsed}]
  BY DEF Base, IInv, CounterTypeOK, Tags
<1>6. /\ counter'[t] \in Nat \union {Lapsed}
      /\ \A s \in Tags : counter'[s] = counter[s] \/ counter[s] = Null
  BY <1>2, <1>5, CacheCounterConstants DEF CreateCounter
<1>7. CallsSound'
  BY <1>2, <1>4, <1>6, CallsStaySound
<1>8. Bounded(0, t)'
  <2>1. \A q \in Processes : call[q] # Null => call[q].seen \in Nat
    BY DEF Base, IInv, CounterTypeOK, Calls
  <2> QED BY <1>2, <1>6, <2>1, CacheCounterConstants DEF Bounded, At
<1>9. JobSound(p)'
  <2>1. ASSUME NEW s \in job[p].tags, NEW w \in Nat, w = v[s] PROVE Bounded(w, s)'
    <3>1. CASE s = t
      BY <1>3, <1>8, <2>1, <3>1
    <3>2. CASE s # t
      <4>1. Bounded(w, s)
        BY <1>2, <1>3, <2>1, <3>2 DEF Sound, JobSound, Writing
      <4> QED BY <1>2, <1>4, <4>1 DEF Keeps
    <3> QED BY <3>1, <3>2
  <2>2. /\ job'[p].seen = v /\ job'[p].tags = job[p].tags /\ job'[p].op # "get"
    BY <1>1, <1>2 DEF JobSeen, SeenLike
  <2> QED BY <2>1, <2>2 DEF JobSound, Writing, Reading
<1>10. Fresh'
  BY <1>1, <1>2, StaysFresh DEF JobSeen, SeenLike, Sound
<1> QED
  BY <1>1, <1>2, <1>4, <1>7, <1>9, <1>10, EntryStaysSound, JobStaysSound DEF Sound, JobSeen

\* A container is stored with versions that are bounded; nothing waits for its death.
LEMMA PutSound ==
  ASSUME Base, store = "db", Sound, NEW p \in Processes, NEW k \in EntryKeys, Put(p, k)
  PROVE  Sound'
<1>1. CASE entry' = entry
  <2>1. UNCHANGED <<counter, call, lock, entry, history>> /\ Finish(p)
    BY <1>1, TablePuts DEF Put, counterVars
  <2> QED
    BY <2>1, StillKeeps, SoundWhenNothingComes DEF Finish, Base, JobsOK
<1>2. CASE Filled(p, k)
  <2>1. /\ job[p] # Null /\ job[p] \in WriteJobs /\ Writing(p) /\ Finish(p)
        /\ \A t \in job[p].tags : job[p].seen[t] \in Nat /\ t \in Tags
        /\ UNCHANGED <<counter, call, lock, history>>
        /\ UNCHANGED <<begun, target, dead>>
    BY TablePuts DEF Put, Prepared, Writes, Writing, WriteJobs, GetJobs, Versions, Base, JobsOK,
           counterVars, history
  <2>2. /\ entry'[k].id = job[p].id /\ entry'[k].tags = job[p].tags
        /\ entry'[k].versions = job[p].seen
        /\ \A l \in EntryKeys \ {k} : entry'[l] = entry[l]
    BY <1>2 DEF Filled, Base, EntriesOK
  <2>3. job'[p] = Null /\ \A q \in Processes \ {p} : job'[q] = job[q]
    BY <2>1 DEF Finish, Base, JobsOK
  <2>4. Keeps
    BY <2>1, StillKeeps
  <2>5. job[p].id \notin dead /\ \A q \in Processes : job[p].id \notin target[q]
    BY <2>1 DEF Sound, Fresh
  <2>6. CallsSound'
    BY <2>1, <2>2, <2>4, <2>5, CallsStaySound
  <2>7. EntrySound(k)'
    BY <2>1, <2>2, <2>4, <2>5 DEF EntrySound, Sound, JobSound, Keeps
  <2>8. Fresh'
    BY <2>1, <2>2, <2>3 DEF Sound, Fresh, Writing
  <2> QED
    BY <2>1, <2>2, <2>3, <2>4, <2>6, <2>7, <2>8, EntryStaysSound, JobStaysSound DEF Sound
<1> QED BY <1>1, <1>2, TablePuts

\* A deleteByTag is meant for what is in the store when it begins.
LEMMA StartDeleteSound ==
  ASSUME Base, OneInvalidates, Sound, NEW p \in Processes, NEW t \in Tags,
         StartDeleteByTag(p, t)
  PROVE  Sound'
<1> DEFINE ids == {entry[k].id : k \in {l \in EntryKeys : entry[l] # Null /\ t \in entry[l].tags}}
<1>1. /\ Start(p, t, "inc", TRUE) /\ p \in Invalidators /\ call[p] = Null
      /\ call' = [call EXCEPT ![p] = [key |-> t, op |-> "inc", safe |-> TRUE, again |-> FALSE,
                                      pc |-> "get", seen |-> 0]]
      /\ target' = [target EXCEPT ![p] = ids]
      /\ UNCHANGED <<entry, job, begun, dead, counter, lock>>
  BY DEF StartDeleteByTag, Start
<1>2. /\ \A i \in ids : \E k \in EntryKeys : entry[k] # Null /\ entry[k].id = i
      /\ \A i \in ids : t \in begun[i]
  BY DEF Base, EntriesOK
<1> HIDE DEF ids
<1>3. /\ call'[p].key = t /\ call'[p].op = "inc" /\ call'[p].pc = "get"
      /\ \A q \in Processes \ {p} : call'[q] = call[q]
      /\ target'[p] = ids /\ \A q \in Processes \ {p} : target'[q] = target[q]
  BY <1>1 DEF Base, IInv, CounterTypeOK, HistoryOK
<1>4. Keeps
  BY <1>1, StartKeeps
<1>5. LocksHeld'
  BY <1>1, <1>3 DEF Sound, CallsSound, LocksHeld, Holds, At
<1>6. ASSUME NEW q \in Processes PROVE Deletes(q)'
  BY <1>1, <1>2, <1>3 DEF Sound, CallsSound, Deletes
<1>7. ASSUME NEW q \in Processes PROVE TargetOlder(q)'
  <2>1. CASE q = p
    BY <1>3, <2>1 DEF TargetOlder
  <2>2. CASE q # p
    BY <1>1, <1>3, <1>4, <2>2, TargetStaysOlder DEF Base, Sound, CallsSound
  <2> QED BY <2>1, <2>2
<1>8. Fresh'
  <2>1. \A q \in Processes : \A i \in target'[q] :
          i \in target[q] \/ \E k \in EntryKeys : entry[k] # Null /\ entry[k].id = i
    BY <1>2, <1>3
  <2> QED BY <1>1, <2>1, StaysFresh DEF Sound
<1> QED
  BY <1>1, <1>4, <1>5, <1>6, <1>7, <1>8, EntryStaysSound, JobStaysSound DEF Sound, CallsSound

\* What a step of the increment must do for the versions in the store: whatever the
\* call writes is more than they are, and it does not return before.
StepSound(p, t) ==
  /\ \A q \in Processes \ {p} : call'[q] = call[q]
  /\ call'[p] # Null =>
       /\ call'[p].key = call[p].key /\ call'[p].op = call[p].op
       /\ call'[p].pc \in {"lock", "set"} => counter'[t] \in {Lapsed, call'[p].seen}
       /\ call'[p].pc = "unlock" => \A v \in Nat : Bounded(v, t) => Older(v, t)'
  /\ call'[p] = Null =>
       \A k \in EntryKeys :
         entry[k] # Null /\ entry[k].id \in target[p] /\ counter'[t] \in Nat
         => entry[k].versions[t] < counter'[t]
  /\ LocksHeld'

\* The one call there is.
LEMMA OneCall ==
  ASSUME Base, store = "db", OneInvalidates, CallsSound, NEW p \in Processes, NEW t \in Tags, NEW pc,
         At(p, t, pc)
  PROVE  /\ call[p] # Null /\ call[p] \in Calls /\ call[p].key = t /\ call[p].pc = pc
         /\ call[p].op = "inc" /\ call[p].seen \in Nat
         /\ call \in [Processes -> Calls \union {Null}]
         /\ counter \in [Tags -> Nat \union {Null, Lapsed}]
         /\ lock \in [Tags -> SUBSET {"entry", "ttl", "over"}]
         /\ \A q \in Processes \ {p} : call[q] = Null
         /\ \A u \in Tags : lock[u] = {} \/ (u = t /\ pc \in {"set", "write", "unlock"})
<1>1. /\ call \in [Processes -> Calls \union {Null}]
      /\ counter \in [Tags -> Nat \union {Null, Lapsed}]
      /\ lock \in [Tags -> SUBSET {"entry", "ttl", "over"}]
  BY DEF Base, IInv, CounterTypeOK, Tags
<1>2. /\ call[p] # Null /\ call[p] \in Calls /\ call[p].key = t /\ call[p].pc = pc
      /\ call[p].seen \in Nat
  BY <1>1 DEF At, Calls
<1>3. call[p].op = "inc" /\ \A q \in Processes \ {p} : call[q] = Null
  BY <1>2 DEF CallsSound, Deletes, OneInvalidates
<1>4. \A u \in Tags : lock[u] = {} \/ (u = t /\ pc \in {"set", "write", "unlock"})
  BY <1>2, <1>3 DEF CallsSound, LocksHeld, Holds, At
<1> QED BY <1>1, <1>2, <1>3, <1>4

LEMMA GetSound ==
  ASSUME Base, store = "db", OneInvalidates, CallsSound, NEW p \in Processes, NEW t \in Tags,
         GetCounter(p, t)
  PROVE  StepSound(p, t)
<1>1. At(p, t, "get") /\ UNCHANGED <<counter, lock>>
  BY DEF GetCounter
<1>2. /\ call[p] # Null /\ call[p] \in Calls /\ call[p].key = t
      /\ call \in [Processes -> Calls \union {Null}]
      /\ counter \in [Tags -> Nat \union {Null, Lapsed}]
      /\ \A u \in Tags : lock[u] = {}
  BY <1>1, OneCall
<1>3. CASE counter[t] \in {Null, Lapsed}
  <2>1. /\ \A q \in Processes \ {p} : call'[q] = call[q]
        /\ call'[p] # Null => /\ call'[p].key = call[p].key /\ call'[p].op = call[p].op
                              /\ call'[p].pc = "add"
    BY <1>2, <1>3 DEF GetCounter, Return, GoTo, Calls
  <2> QED BY <1>1, <1>2, <1>3, <2>1, CacheCounterConstants DEF StepSound, LocksHeld
<1>4. CASE counter[t] \notin {Null, Lapsed}
  <2>1. call' = [call EXCEPT ![p].pc = "lock", ![p].seen = counter[t]] /\ counter[t] \in Nat
    BY <1>2, <1>4 DEF GetCounter
  <2>2. call'[p] \in Calls
    BY <1>2, <2>1 DEF Calls, Steps
  <2>3. /\ \A q \in Processes \ {p} : call'[q] = call[q]
        /\ call'[p].key = call[p].key /\ call'[p].op = call[p].op
        /\ call'[p].pc = "lock" /\ call'[p].seen = counter[t]
    BY <1>2, <2>1 DEF Calls
  <2> QED BY <1>1, <1>2, <2>2, <2>3, TaggableCacheConstants DEF StepSound, LocksHeld
<1> QED BY <1>3, <1>4

LEMMA TakeLockSound ==
  ASSUME Base, store = "db", OneInvalidates, CallsSound, NEW p \in Processes, NEW t \in Tags,
         TakeLock(p, t)
  PROVE  StepSound(p, t)
<1>1. At(p, t, "lock") /\ UNCHANGED counter
  BY DEF TakeLock
<1>2. /\ call[p] # Null /\ call[p] \in Calls /\ call[p].key = t /\ call[p].pc = "lock"
      /\ call \in [Processes -> Calls \union {Null}]
      /\ lock \in [Tags -> SUBSET {"entry", "ttl", "over"}]
      /\ \A u \in Tags : lock[u] = {}
  BY <1>1, OneCall
<1>3. GoTo(p, "set") /\ lock' = [lock EXCEPT ![t] = {"entry", "ttl"}]
  BY <1>2 DEF TakeLock, Lockable
<1>4. call'[p] \in Calls
  BY <1>2, <1>3 DEF GoTo, Calls, Steps
<1>5. /\ \A q \in Processes \ {p} : call'[q] = call[q]
      /\ call'[p].key = call[p].key /\ call'[p].op = call[p].op
      /\ call'[p].pc = "set" /\ call'[p].seen = call[p].seen
  BY <1>2, <1>3 DEF GoTo, Calls
<1>6. counter[t] \in {Lapsed, call[p].seen}
  BY <1>2 DEF CallsSound, Deletes
<1>7. call'[p] # Null
  BY <1>4, TaggableCacheConstants
<1>8. LocksHeld'
  BY <1>2, <1>3, <1>5, <1>7 DEF LocksHeld, Holds, At
<1> QED BY <1>1, <1>5, <1>6, <1>7, <1>8 DEF StepSound

LEMMA SetSound ==
  ASSUME Base, store = "db", OneInvalidates, CallsSound, NEW p \in Processes, NEW t \in Tags,
         SetCounter(p, t)
  PROVE  StepSound(p, t)
<1>1. At(p, t, "set") /\ UNCHANGED lock /\ GoTo(p, "unlock")
  BY TableSets
<1>2. /\ call[p] # Null /\ call[p] \in Calls /\ call[p].key = t /\ call[p].op = "inc"
      /\ call[p].seen \in Nat
      /\ call \in [Processes -> Calls \union {Null}]
      /\ counter \in [Tags -> Nat \union {Null, Lapsed}]
      /\ \A u \in Tags \ {t} : lock[u] = {}
  BY <1>1, OneCall
<1>3. call'[p] \in Calls
  BY <1>1, <1>2 DEF GoTo, Calls, Steps
<1>4. /\ \A q \in Processes \ {p} : call'[q] = call[q]
      /\ call'[p].key = call[p].key /\ call'[p].op = call[p].op
      /\ call'[p].pc = "unlock"
  BY <1>1, <1>2 DEF GoTo, Calls
<1>5. call'[p] # Null
  BY <1>3, TaggableCacheConstants
<1>6. counter'[t] = call[p].seen + 1
  BY <1>2, TableSets DEF Applied
<1>7. \A v \in Nat : Bounded(v, t) => Older(v, t)'
  BY <1>1, <1>2, <1>6 DEF Bounded, Older
<1>8. LocksHeld'
  BY <1>1, <1>2, <1>4, <1>5 DEF LocksHeld, Holds, At
<1> QED BY <1>4, <1>5, <1>7, <1>8 DEF StepSound

LEMMA UnlockSound ==
  ASSUME Base, store = "db", OneInvalidates, CallsSound, NEW p \in Processes, NEW t \in Tags,
         Unlock(p, t)
  PROVE  StepSound(p, t)
<1>1. At(p, t, "unlock") /\ UNCHANGED counter
  BY TableUnlocks
<1>2. /\ call[p] # Null /\ call[p] \in Calls /\ call[p].key = t /\ call[p].pc = "unlock"
      /\ call \in [Processes -> Calls \union {Null}]
      /\ lock \in [Tags -> SUBSET {"entry", "ttl", "over"}]
      /\ \A u \in Tags \ {t} : lock[u] = {}
  BY <1>1, OneCall
<1>3. lock' = [lock EXCEPT ![t] = {}]
  BY TableUnlocks
<1>4. /\ \A q \in Processes \ {p} : call'[q] = call[q]
      /\ call'[p] # Null => /\ call'[p].key = call[p].key /\ call'[p].op = call[p].op
                            /\ call'[p].pc = "add"
  BY <1>2, TableUnlocks DEF Return, GoTo, Calls
<1>5. LocksHeld'
  BY <1>2, <1>3 DEF LocksHeld
<1> QED BY <1>1, <1>2, <1>4, <1>5 DEF StepSound, CallsSound, TargetOlder, Older

LEMMA AddSound ==
  ASSUME Base, store = "db", OneInvalidates, CallsSound, NEW p \in Processes, NEW t \in Tags,
         AddCounter(p, t)
  PROVE  StepSound(p, t)
<1>1. /\ At(p, t, "add") /\ UNCHANGED lock
      /\ call' = [call EXCEPT ![p].pc = "get", ![p].again = TRUE]
  BY TableAdds
<1>2. /\ call[p] # Null /\ call[p] \in Calls /\ call[p].key = t
      /\ call \in [Processes -> Calls \union {Null}]
      /\ \A u \in Tags : lock[u] = {}
  BY <1>1, OneCall
<1>3. call'[p] \in Calls
  BY <1>1, <1>2 DEF Calls, Steps
<1>4. /\ \A q \in Processes \ {p} : call'[q] = call[q]
      /\ call'[p].key = call[p].key /\ call'[p].op = call[p].op
      /\ call'[p].pc = "get"
  BY <1>1, <1>2 DEF Calls
<1> QED BY <1>1, <1>2, <1>3, <1>4, TaggableCacheConstants DEF StepSound, LocksHeld

\* So that what a deleteByTag is meant for is older in some tag when it returns.
LEMMA StepDeleteSound ==
  ASSUME Base, store = "db", OneInvalidates, Sound, NEW p \in Processes, NEW t \in Tags,
         StepDeleteByTag(p, t)
  PROVE  Sound'
<1>1. /\ CallStep(p, t) /\ UNCHANGED <<entry, job, begun, target>>
      /\ dead' = IF call'[p] = Null THEN dead \union target[p] ELSE dead
  BY DEF StepDeleteByTag
<1>2. StepSound(p, t)
  BY <1>1, TableSteps, GetSound, TakeLockSound, SetSound, UnlockSound, AddSound DEF CallStep, Sound
<1>3. Keeps
  BY <1>1, TableSteps, GetKeeps, LockKeeps, SetKeeps, AddKeeps DEF CallStep, Sound, CallsSound
<1>4. \E pc : At(p, t, pc)
  BY <1>1 DEF CallStep, GetCounter, TakeLock, PutLock, SetCounter, Unlock, AddCounter
<1>5. call[p] # Null /\ call[p].key = t /\ \A q \in Processes \ {p} : call[q] = Null
  BY <1>4, OneCall DEF Sound
<1>6. \A k \in EntryKeys : entry[k] # Null /\ entry[k].id \in target[p] => t \in entry[k].tags
  BY <1>5 DEF Sound, CallsSound, Deletes, Base, EntriesOK
<1>7. \A k \in EntryKeys : entry[k] # Null =>
        \A s \in entry[k].tags : s \in Tags /\ entry[k].versions[s] \in Nat
  BY DEF Base, EntriesOK, Containers
<1>8. ASSUME NEW q \in Processes PROVE Deletes(q)' /\ TargetOlder(q)'
  <2>1. CASE q # p
    BY <1>2, <1>5, <2>1 DEF StepSound, Deletes, TargetOlder
  <2>2. CASE q = p
    <3>1. Deletes(p)'
      BY <1>1, <1>2, <1>5 DEF StepSound, Deletes, Sound, CallsSound
    <3>2. TargetOlder(p)'
      <4> SUFFICES ASSUME NEW k \in EntryKeys, call'[p] # Null, call'[p].pc = "unlock",
                          entry[k] # Null, entry[k].id \in target[p]
                   PROVE  counter'[t] \in Nat => entry[k].versions[t] < counter'[t]
        BY <1>1, <1>2, <1>5 DEF TargetOlder, Older, StepSound
      <4>1. entry[k].versions[t] \in Nat /\ Bounded(entry[k].versions[t], t)
        BY <1>6, <1>7 DEF Sound, EntrySound
      <4>2. \A v \in Nat : Bounded(v, t) => (counter'[t] \in Nat => v < counter'[t])
        BY <1>2 DEF StepSound, Older
      <4> QED BY <4>1, <4>2
    <3> QED BY <2>2, <3>1, <3>2
  <2> QED BY <2>1, <2>2
<1>9. ASSUME NEW k \in EntryKeys PROVE EntrySound(k)'
  <2> SUFFICES ASSUME entry[k] # Null
               PROVE  /\ \A s \in entry[k].tags : Bounded(entry[k].versions[s], s)'
                      /\ entry[k].id \in dead' =>
                           \E s \in entry[k].tags : Older(entry[k].versions[s], s)'
    BY <1>1 DEF EntrySound
  <2>1. ASSUME NEW s \in entry[k].tags
        PROVE  /\ Bounded(entry[k].versions[s], s)'
               /\ Older(entry[k].versions[s], s) => Older(entry[k].versions[s], s)'
    <3>1. \A v \in Nat : Bounded(v, s) => Bounded(v, s)' /\ (Older(v, s) => Older(v, s)')
      BY <1>3, <1>7 DEF Keeps
    <3>2. entry[k].versions[s] \in Nat /\ Bounded(entry[k].versions[s], s) /\ entry' = entry
      BY <1>1, <1>7 DEF Sound, EntrySound
    <3> QED BY <3>1, <3>2 DEF Bounded, Older
  <2>2. CASE entry[k].id \in dead
    BY <2>1, <2>2 DEF Sound, EntrySound
  <2>3. CASE entry[k].id \in dead' /\ entry[k].id \notin dead
    BY <1>1, <1>2, <1>6, <2>1, <2>3 DEF StepSound, Older
  <2> QED BY <2>1, <2>2, <2>3
<1>10. Fresh'
  BY <1>1, StaysFresh DEF Sound
<1> QED
  BY <1>1, <1>2, <1>3, <1>8, <1>9, <1>10, JobStaysSound DEF Sound, CallsSound, StepSound

\* After a flush there is nothing to answer.
LEMMA FlushSound ==
  ASSUME Base, NEW p \in Processes, Flush(p)
  PROVE  Sound'
BY DEF Flush, Idle, Sound, CallsSound, LocksHeld, Deletes, TargetOlder, Fresh, EntrySound,
       JobSound, Writing, Reading

\* Nobody answers what is gone: a version differs.
LEMMA HitNotGone ==
  ASSUME Base, Sound, NEW p \in Processes, Hit(p)
  PROVE  job[p].id \notin job[p].gone
<1>1. Reading(p) /\ job[p].unread = {}
  BY DEF Hit, Compares, Reading
<1>2. \A t \in job[p].tags : job[p].seen[t] = job[p].versions[t]
  BY DEF Hit, Valid
<1> QED BY <1>1, <1>2 DEF Sound, JobSound

SoundInTable == store = "db" => Sound

LEMMA InitSound == TaggedInit => SoundInTable
BY DEF TaggedInit, CounterInit, SoundInTable, Sound, CallsSound, LocksHeld, Deletes, TargetOlder, Fresh,
       EntrySound, JobSound, Writing, Reading, Tags

LEMMA StepKeepsSound ==
  ASSUME OneInvalidates, Base, store = "db", Sound, [TaggedNext]_taggedVars
  PROVE  Sound'
<1>1. ASSUME UNCHANGED <<counter, call, lock, history>>,
             \A k \in EntryKeys : entry'[k] \in {entry[k], Null},
             \A p \in Processes : job'[p] \in {job[p], Null}
      PROVE  Sound'
  BY <1>1, StillKeeps, SoundWhenNothingComes
<1>2. ASSUME NEW p \in Processes, NEW k \in EntryKeys, Delete(p, k) PROVE Sound'
  BY <1>1, <1>2 DEF Delete, counterVars, Base, EntriesOK
<1>3. ASSUME NEW p \in Processes, Hit(p) \/ Miss(p) \/ JobDies(p) PROVE Sound'
  BY <1>1, <1>3 DEF Hit, Miss, JobDies, Finish, counterVars, Base, EntriesOK, JobsOK
<1>4. CASE UNCHANGED taggedVars
  BY <1>1, <1>4 DEF taggedVars, counterVars
<1>5. ASSUME NEW t \in Tags, Lapse(t), UNCHANGED <<entry, job, history>> PROVE Sound'
  <2>1. \A u \in Tags : counter'[u] \in {counter[u], Lapsed}
    BY <1>5 DEF Lapse, Base, IInv, CounterTypeOK, Tags
  <2>2. UNCHANGED <<call, lock>>
    BY <1>5 DEF Lapse
  <2>3. Keeps
    BY <1>5, LapseKeeps
  <2> QED BY <1>5, <2>1, <2>2, <2>3, SoundWhenNothingComes
<1>6. ASSUME NEW t \in Tags, Expire(t), UNCHANGED <<entry, job, history>> PROVE Sound'
  <2>1. /\ UNCHANGED <<counter, call>> /\ "ttl" \in lock[t] /\ lock \in [Tags -> SUBSET {"entry", "ttl", "over"}]
        /\ lock' = [lock EXCEPT ![t] = lock[t] \union {"over"}]
    BY <1>6 DEF Expire, Base, IInv, CounterTypeOK, Tags
  <2>2. LocksHeld'
    BY <2>1 DEF Sound, CallsSound, LocksHeld, Holds, At
  <2>3. CallsSound'
    BY <1>6, <2>1, <2>2 DEF Sound, CallsSound, Deletes, TargetOlder, Older, history
  <2>4. Fresh'
    BY <1>6 DEF Sound, Fresh, Writing, history
  <2>5. Keeps
    BY <2>1, StillKeeps
  <2> QED BY <1>6, <2>3, <2>4, <2>5, EntryStaysSound, JobStaysSound DEF Sound, history
<1> QED
  BY <1>2, <1>3, <1>4, <1>5, <1>6, TableSteps, StartWriteSound, StartGetSound, PutSound, ReadTagSound,
     AddTagSound, StartDeleteSound, StepDeleteSound, FlushSound DEF TaggedNext

\* In the table, as long as one process at most invalidates, no get answers what a
\* deleteByTag that had returned before it was meant for: whatever the others read,
\* store and flush, whoever of them dies, and whichever versions and locks lapse.
THEOREM NoStaleAlways ==
  ASSUME \A p, q \in Invalidators : p = q
  PROVE  TaggedSpec => NoStale
<1>1. OneInvalidates
  BY DEF OneInvalidates
<1>2. Base /\ SoundInTable /\ [TaggedNext]_taggedVars => SoundInTable'
  BY <1>1, StepKeepsSound, StoreKept DEF SoundInTable
<1>3. Base /\ SoundInTable /\ [TaggedNext]_taggedVars =>
        [store = "db" => \A p \in Processes : HitIsFresh(p)]_taggedVars
  BY HitNotGone DEF HitIsFresh, SoundInTable
<1> QED
  BY <1>2, <1>3, InitBase, StepBase, InitSound, PTL DEF TaggedSpec, NoStale
==============================================================================
