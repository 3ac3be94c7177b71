----------------------------- MODULE MemoryCache -----------------------------
(***************************************************************************)
(* lmbCacheMemoryConnection: values and deadlines in two arrays of the     *)
(* process.  Writing a value without a lifetime, deleting it and flushing  *)
(* leave the deadline of an older value behind.                            *)
(***************************************************************************)
EXTENDS Integers

CONSTANTS Keys, Values, Ttls, Null, MaxTime  \* as in CacheContract

VARIABLES
  now,      \* time()
  caches,   \* _caches: key -> value, or Null
  ttls,     \* _cache_ttls: key -> deadline, or Null
  last      \* operation, key and answer that the caller saw last

vars == <<now, caches, ttls, last>>

-----------------------------------------------------------------------------
\* _cache_ttls after set(k, ..., ttl).
Deadlines(k, ttl) == IF ttl = 0 THEN ttls ELSE [ttls EXCEPT ![k] = ttl + now]

Expired(k) == ttls[k] # Null /\ ttls[k] <= now

Read(k) == IF caches[k] = Null \/ Expired(k) THEN Null ELSE caches[k]

Init ==
  /\ now = 1
  /\ caches = [k \in Keys |-> Null]
  /\ ttls = [k \in Keys |-> Null]
  /\ last = Null

Store(k, v, ttl) ==
  /\ caches' = [caches EXCEPT ![k] = v]
  /\ ttls' = Deadlines(k, ttl)

Set(k, v, ttl) ==
  /\ Store(k, v, ttl)
  /\ last' = <<"set", k>>
  /\ UNCHANGED now

Add(k, v, ttl) ==
  /\ IF caches[k] # Null /\ ~ Expired(k)
     THEN last' = <<"add", k, FALSE>> /\ UNCHANGED <<caches, ttls>>
     ELSE last' = <<"add", k, TRUE>> /\ Store(k, v, ttl)
  /\ UNCHANGED now

Get(k) ==
  /\ last' = <<"get", k, Read(k)>>
  /\ UNCHANGED <<now, caches, ttls>>

Delete(k) ==
  /\ caches' = [caches EXCEPT ![k] = Null]
  /\ last' = <<"delete", k>>
  /\ UNCHANGED <<now, ttls>>

Flush ==
  /\ caches' = [k \in Keys |-> Null]
  /\ last' = <<"flush">>
  /\ UNCHANGED <<now, ttls>>

Tick ==
  /\ now < MaxTime
  /\ now' = now + 1
  /\ UNCHANGED <<caches, ttls, last>>

Next ==
  \/ \E k \in Keys, v \in Values, ttl \in Ttls : Add(k, v, ttl) \/ Set(k, v, ttl)
  \/ \E k \in Keys : Get(k) \/ Delete(k)
  \/ Flush
  \/ Tick

-----------------------------------------------------------------------------
\* Type correctness: the arrays hold values and deadlines.
TypeOK ==
  /\ now \in 1 .. MaxTime
  /\ caches \in [Keys -> Values \union {Null}]
  /\ ttls \in [Keys -> 2 .. MaxTime + MaxTime \union {Null}]

\* The arrays as CacheContract has them.
Entry(k) ==
  IF Read(k) = Null THEN Null
  ELSE [value |-> Read(k), until |-> IF ttls[k] = Null THEN MaxTime + MaxTime + 2 ELSE ttls[k]]
=============================================================================
