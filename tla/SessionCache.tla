---------------------------- MODULE SessionCache -----------------------------
(***************************************************************************)
(* lmbCacheSessionConnection: a value is a session variable and its        *)
(* deadline another, named after the key with 'ttl' behind it; deleting a  *)
(* value leaves its deadline.  flush empties the whole session.            *)
(***************************************************************************)
EXTENDS Integers

CONSTANTS Keys, Values, Ttls, Null, MaxTime  \* as in CacheContract

VARIABLES
  now,      \* time()
  session,  \* key -> value of the session variable of that name, or Null
  ttls,     \* key -> value of the variable named after it: a deadline, 0 for
            \* false, or Null
  last      \* operation, key and answer that the caller saw last

vars == <<now, session, ttls, last>>

-----------------------------------------------------------------------------
Read(k) ==
  IF session[k] = Null \/ (ttls[k] # 0 /\ ttls[k] <= now) THEN Null ELSE session[k]

Init ==
  /\ now = 1
  /\ session = [k \in Keys |-> Null]
  /\ ttls = [k \in Keys |-> Null]
  /\ last = Null

Deadline(k, ttl) == IF ttl = 0 THEN 0 ELSE ttl + now

Store(k, v, ttl) ==
  /\ session' = [session EXCEPT ![k] = v]
  /\ ttls' = [ttls EXCEPT ![k] = Deadline(k, ttl)]

Set(k, v, ttl) ==
  /\ Store(k, v, ttl)
  /\ last' = <<"set", k>>
  /\ UNCHANGED now

\* add asks whether the variable exists, not whether it has expired.
Add(k, v, ttl) ==
  /\ IF session[k] # Null
     THEN last' = <<"add", k, FALSE>> /\ UNCHANGED <<session, ttls>>
     ELSE last' = <<"add", k, TRUE>> /\ Store(k, v, ttl)
  /\ UNCHANGED now

Get(k) ==
  /\ last' = <<"get", k, Read(k)>>
  /\ UNCHANGED <<now, session, ttls>>

Delete(k) ==
  /\ session' = [session EXCEPT ![k] = Null]
  /\ last' = <<"delete", k>>
  /\ UNCHANGED <<now, ttls>>

Flush ==
  /\ session' = [k \in Keys |-> Null]
  /\ ttls' = [k \in Keys |-> Null]
  /\ last' = <<"flush">>
  /\ UNCHANGED now

Tick ==
  /\ now < MaxTime
  /\ now' = now + 1
  /\ UNCHANGED <<session, ttls, last>>

Next ==
  \/ \E k \in Keys, v \in Values, ttl \in Ttls : Add(k, v, ttl) \/ Set(k, v, ttl)
  \/ \E k \in Keys : Get(k) \/ Delete(k)
  \/ Flush
  \/ Tick

-----------------------------------------------------------------------------
\* Type correctness: wherever there is a value, its deadline is set.
TypeOK ==
  /\ now \in 1 .. MaxTime
  /\ session \in [Keys -> Values \union {Null}]
  /\ ttls \in [Keys -> 0 .. MaxTime + MaxTime \union {Null}]
  /\ \A k \in Keys : session[k] # Null => ttls[k] # Null

\* The session as CacheContract has it.
Entry(k) ==
  IF Read(k) = Null THEN Null
  ELSE [value |-> Read(k), until |-> IF ttls[k] = 0 THEN MaxTime + MaxTime + 2 ELSE ttls[k]]
=============================================================================
