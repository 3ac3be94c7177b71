---------------------------- MODULE CacheContract ----------------------------
(***************************************************************************)
(* What lmbCacheConnection promises whichever driver stands behind it: get *)
(* answers the value written last, or null.  A driver may keep a value for *)
(* less time than asked, never for longer, and never brings back one that  *)
(* was deleted, flushed, overwritten or has expired.                       *)
(*                                                                         *)
(* The answers a caller sees are in last: the operation, its key and what  *)
(* it returned.  Time passes in whole seconds, as time() counts them.      *)
(***************************************************************************)
EXTENDS Integers

CONSTANTS
  Keys,     \* keys a caller uses
  Values,   \* values a caller stores
  Ttls,     \* lifetimes a caller asks for, in seconds; 0 is the default, false
  Null,     \* what get answers when there is nothing
  MaxTime   \* bounds the model: the clock stops there

VARIABLES
  now,      \* time()
  entry,    \* Null, or a value and the second in which it is gone
  last      \* what the caller saw last

vars == <<now, entry, last>>

Forever == MaxTime + MaxTime + 2

\* What may be stored by a write: nothing, or the value for no longer than asked.
Outcomes(v, ttl) ==
  {Null} \union
  {[value |-> v, until |-> u] : u \in 1 .. IF ttl = 0 THEN Forever ELSE now + ttl + 1}

Store(k, v, ttl) ==
  entry'[k] \in Outcomes(v, ttl) /\ entry' = [entry EXCEPT ![k] = entry'[k]]

-----------------------------------------------------------------------------
Init ==
  /\ now = 1
  /\ entry = [k \in Keys |-> Null]
  /\ last = Null

\* add stores only where there is nothing, and it may refuse even then.
Add(k, v, ttl) ==
  /\ \/ entry[k] = Null /\ Store(k, v, ttl) /\ last' = <<"add", k, TRUE>>
     \/ last' = <<"add", k, FALSE>> /\ UNCHANGED entry
  /\ UNCHANGED now

Set(k, v, ttl) ==
  /\ Store(k, v, ttl)
  /\ last' = <<"set", k>>
  /\ UNCHANGED now

Get(k) ==
  /\ last' = <<"get", k, IF entry[k] = Null THEN Null ELSE entry[k].value>>
  /\ UNCHANGED <<now, entry>>

Delete(k) ==
  /\ entry' = [entry EXCEPT ![k] = Null]
  /\ last' = <<"delete", k>>
  /\ UNCHANGED now

Flush ==
  /\ entry' = [k \in Keys |-> Null]
  /\ last' = <<"flush">>
  /\ UNCHANGED now

Tick ==
  /\ now' = now + 1
  /\ entry' = [k \in Keys |-> IF entry[k] = Null \/ entry[k].until <= now' THEN Null
                                                                          ELSE entry[k]]
  /\ UNCHANGED last

Next ==
  \/ \E k \in Keys, v \in Values, ttl \in Ttls : Add(k, v, ttl) \/ Set(k, v, ttl)
  \/ \E k \in Keys : Get(k) \/ Delete(k)
  \/ Flush
  \/ Tick

Spec == Init /\ [][Next]_vars
=============================================================================
