------------------------------ MODULE FileCache ------------------------------
(***************************************************************************)
(* lmbCacheFileConnection used by one process: a key is a file with its    *)
(* value and, for a value that expires, a second file with its deadline.   *)
(*                                                                         *)
(* A connection may have a prefix.  A key is a pair of a name and the      *)
(* number of prefixes before it, so that prefixing it twice shows.         *)
(*                                                                         *)
(* Definitions named ...Mutant are wrong on purpose, as in NSTree.         *)
(***************************************************************************)
EXTENDS Integers

CONSTANTS
  Names,     \* names a caller uses as keys
  Values, Ttls, Null, MaxTime,  \* as in CacheContract
  Prefixed   \* the connection has a prefix

VARIABLES
  now,       \* time()
  caches,    \* file name -> contents of its .cache file, or Null
  ttls,      \* file name -> deadline in its .ttl file, or Null
  last       \* operation, key and answer that the caller saw last

vars == <<now, caches, ttls, last>>

\* No caller begins a key with the letters of the prefix.
Keys == Names \X {0}
Files == Names \X (0 .. 2)

ResolveKey(f) == IF Prefixed THEN <<f[1], f[2] + 1>> ELSE f

-----------------------------------------------------------------------------
\* ImplementsContract: the deadline is not looked at.
HasCacheFileMutant(f) == caches[f] # Null

\* _getCacheFile(f) is not null.
HasCacheFile(f) ==
  /\ caches[f] # Null
  /\ ttls[f] # Null => ttls[f] > now

GetSingleKeyValue(f) == IF HasCacheFile(f) THEN caches[f] ELSE Null

Read(k) == GetSingleKeyValue(ResolveKey(k))

\* The two files after delete(k), which prefixes k once more.  It looks for the
\* .cache file as a reader does, and so leaves that of an expired entry.
CachesWithout(k) ==
  IF HasCacheFile(ResolveKey(k)) THEN [caches EXCEPT ![ResolveKey(k)] = Null] ELSE caches
TtlsWithout(k) == [ttls EXCEPT ![ResolveKey(k)] = Null]

-----------------------------------------------------------------------------
Init ==
  /\ now = 1
  /\ caches = [f \in Files |-> Null]
  /\ ttls = [f \in Files |-> Null]
  /\ last = Null

\* Both files as set(k, v, ttl) leaves them: it resolves k, and calls delete with
\* the resolved key.
Store(k, v, ttl) ==
  LET f == ResolveKey(k)
  IN /\ caches' = [CachesWithout(f) EXCEPT ![f] = v]
     /\ ttls' = IF ttl = 0 THEN TtlsWithout(f)
                           ELSE [TtlsWithout(f) EXCEPT ![f] = ttl + now]

Set(k, v, ttl) ==
  /\ Store(k, v, ttl)
  /\ last' = <<"set", k>>
  /\ UNCHANGED now

Add(k, v, ttl) ==
  /\ IF HasCacheFile(ResolveKey(k))
     THEN last' = <<"add", k, FALSE>> /\ UNCHANGED <<caches, ttls>>
     ELSE last' = <<"add", k, TRUE>> /\ Store(k, v, ttl)
  /\ UNCHANGED now

Get(k) ==
  /\ last' = <<"get", k, Read(k)>>
  /\ UNCHANGED <<now, caches, ttls>>

Delete(k) ==
  /\ caches' = CachesWithout(k)
  /\ ttls' = TtlsWithout(k)
  /\ last' = <<"delete", k>>
  /\ UNCHANGED now

Flush ==
  /\ caches' = [f \in Files |-> Null]
  /\ ttls' = [f \in Files |-> Null]
  /\ last' = <<"flush">>
  /\ UNCHANGED now

Tick ==
  /\ now < MaxTime
  /\ now' = now + 1
  /\ UNCHANGED <<caches, ttls, last>>

Next ==
  \/ \E k \in Keys, v \in Values, ttl \in Ttls : Add(k, v, ttl) \/ Set(k, v, ttl)
  \/ \E k \in Keys : Get(k) \/ Delete(k)
  \/ Flush
  \/ Tick

Spec == Init /\ [][Next]_vars

\* A caller who deletes no entry that has expired.
DeletesLive == \A k \in Keys : Delete(k) => caches[ResolveKey(k)] = Read(k)

-----------------------------------------------------------------------------
\* Type correctness: files hold values and deadlines.
TypeOK ==
  /\ now \in 1 .. MaxTime
  /\ caches \in [Files -> Values \union {Null}]
  /\ ttls \in [Files -> 2 .. MaxTime + MaxTime \union {Null}]

\* There is nothing to read under a key that has just been deleted (testDelete).
DeleteDeletes == [][\A k \in Keys : Delete(k) => Read(k)' = Null]_vars

\* A reader's view of the files, as CacheContract has it.
Entry(k) ==
  LET f == ResolveKey(k)
  IN IF Read(k) = Null THEN Null
     ELSE [value |-> Read(k), until |-> IF ttls[f] = Null THEN MaxTime + MaxTime + 2 ELSE ttls[f]]
=============================================================================
