------------------------------- MODULE DbCache -------------------------------
(***************************************************************************)
(* lmbCacheDbConnection: a row of a table per key, with its value and its  *)
(* deadline, 0 for none.  add relies on the primary key to refuse.         *)
(***************************************************************************)
EXTENDS Integers

CONSTANTS Keys, Values, Ttls, Null, MaxTime  \* as in CacheContract

VARIABLES
  now,      \* time()
  value,    \* key -> column value of its row, or Null when there is no row
  ttl,      \* key -> column ttl of its row, or Null
  last      \* operation, key and answer that the caller saw last

vars == <<now, value, ttl, last>>

-----------------------------------------------------------------------------
\* A row is read until its deadline has passed, that second included.
Read(k) ==
  IF value[k] # Null /\ (ttl[k] = 0 \/ ttl[k] >= now) THEN value[k] ELSE Null

Init ==
  /\ now = 1
  /\ value = [k \in Keys |-> Null]
  /\ ttl = [k \in Keys |-> Null]
  /\ last = Null

Write(k, v, deadline) ==
  /\ value' = [value EXCEPT ![k] = v]
  /\ ttl' = [ttl EXCEPT ![k] = deadline]

\* The primary key refuses a second row, whether or not the first has expired.
\* The time is in the deadline even when no lifetime is asked for.
Add(k, v, lifetime) ==
  /\ IF value[k] # Null
     THEN last' = <<"add", k, FALSE>> /\ UNCHANGED <<value, ttl>>
     ELSE last' = <<"add", k, TRUE>> /\ Write(k, v, lifetime + now)
  /\ UNCHANGED now

Deadline(lifetime) == IF lifetime = 0 THEN 0 ELSE lifetime + now

Set(k, v, lifetime) ==
  /\ Write(k, v, Deadline(lifetime))
  /\ last' = <<"set", k>>
  /\ UNCHANGED now

Get(k) ==
  /\ last' = <<"get", k, Read(k)>>
  /\ UNCHANGED <<now, value, ttl>>

Delete(k) ==
  /\ value' = [value EXCEPT ![k] = Null]
  /\ ttl' = [ttl EXCEPT ![k] = Null]
  /\ last' = <<"delete", k>>
  /\ UNCHANGED now

Flush ==
  /\ value' = [k \in Keys |-> Null]
  /\ ttl' = [k \in Keys |-> Null]
  /\ last' = <<"flush">>
  /\ UNCHANGED now

Tick ==
  /\ now < MaxTime
  /\ now' = now + 1
  /\ UNCHANGED <<value, ttl, last>>

Next ==
  \/ \E k \in Keys, v \in Values, lifetime \in Ttls : Add(k, v, lifetime) \/ Set(k, v, lifetime)
  \/ \E k \in Keys : Get(k) \/ Delete(k)
  \/ Flush
  \/ Tick

-----------------------------------------------------------------------------
\* Type correctness: a row has both columns.
TypeOK ==
  /\ now \in 1 .. MaxTime
  /\ value \in [Keys -> Values \union {Null}]
  /\ ttl \in [Keys -> 0 .. MaxTime + MaxTime \union {Null}]
  /\ \A k \in Keys : value[k] = Null <=> ttl[k] = Null

\* The table as CacheContract has it.  A row is gone in the second after its
\* deadline.
Entry(k) ==
  IF Read(k) = Null THEN Null
  ELSE [value |-> Read(k), until |-> IF ttl[k] = 0 THEN MaxTime + MaxTime + 2 ELSE ttl[k] + 1]
=============================================================================
