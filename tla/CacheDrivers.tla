---------------------------- MODULE CacheDrivers ----------------------------
(***************************************************************************)
(* A cache connection as lmbCacheFactory makes it: one of four drivers     *)
(* behind the interface lmbCacheConnection.  Each driver keeps two things  *)
(* for a key, its value and its deadline, in its own way: two files, two   *)
(* arrays, two columns, two session variables.                             *)
(***************************************************************************)
EXTENDS CacheConnection, Integers

CONSTANTS Names, Values, Ttls, MaxTime  \* as in FileCache

VARIABLES
  driver,   \* which driver the DSN has asked for
  now, last,
  caches, ttls   \* what the driver keeps: values, and deadlines

vars == <<driver, now, caches, ttls, last>>

File == INSTANCE FileCache WITH Prefixed <- FALSE
PrefixedFile == INSTANCE FileCache WITH Prefixed <- TRUE
Keys == File!Keys
Memory == INSTANCE MemoryCache
Db == INSTANCE DbCache WITH value <- caches, ttl <- ttls
Session == INSTANCE SessionCache WITH session <- caches

-----------------------------------------------------------------------------
Init ==
  \/ driver = "file" /\ File!Init
  \/ driver = "prefixed_file" /\ PrefixedFile!Init
  \/ driver = "memory" /\ Memory!Init
  \/ driver = "db" /\ Db!Init
  \/ driver = "session" /\ Session!Init

\* The caller of the file driver deletes no entry that has expired.
Next ==
  /\ \/ driver = "file" /\ File!Next /\ File!DeletesLive
     \/ driver = "prefixed_file" /\ PrefixedFile!Next /\ PrefixedFile!DeletesLive
     \/ driver = "memory" /\ Memory!Next
     \/ driver = "db" /\ Db!Next
     \/ driver = "session" /\ Session!Next
  /\ UNCHANGED driver

Spec == Init /\ [][Next]_vars

-----------------------------------------------------------------------------
\* Type correctness: each driver's store is well-formed.
TypeOK ==
  CASE driver = "file" -> File!TypeOK
    [] driver = "prefixed_file" -> PrefixedFile!TypeOK
    [] driver = "memory" -> Memory!TypeOK
    [] driver = "db" -> Db!TypeOK
    [] driver = "session" -> Session!TypeOK

\* The store as a reader sees it.
Entry(k) ==
  CASE driver = "file" -> File!Entry(k)
    [] driver = "prefixed_file" -> PrefixedFile!Entry(k)
    [] driver = "memory" -> Memory!Entry(k)
    [] driver = "db" -> Db!Entry(k)
    [] driver = "session" -> Session!Entry(k)

Contract == INSTANCE CacheContract WITH entry <- [k \in Keys |-> Entry(k)]

\* Whatever is added, set, read, deleted or flushed, and whatever deadlines the
\* drivers leave behind, a caller sees what lmbCacheConnection promises: never a
\* value that was deleted, flushed, overwritten or has expired.
ImplementsContract == Contract!Spec

Sets(k, v, ttl) ==
  CASE driver = "file" -> File!Set(k, v, ttl) \/ File!Add(k, v, ttl)
    [] driver = "prefixed_file" -> PrefixedFile!Set(k, v, ttl) \/ PrefixedFile!Add(k, v, ttl)
    [] driver = "memory" -> Memory!Set(k, v, ttl) \/ Memory!Add(k, v, ttl)
    [] driver = "db" -> Db!Set(k, v, ttl) \/ Db!Add(k, v, ttl)
    [] driver = "session" -> Session!Set(k, v, ttl) \/ Session!Add(k, v, ttl)

Stored(k) == last' \in {<<"set", k>>, <<"add", k, TRUE>>}

\* In memory, and in files with a prefix, the deadline of an older value hides a
\* value without a lifetime.
Overshadowed(k, ttl) ==
  /\ ttl = 0
  /\ \/ driver = "memory" /\ ttls[k] # Null
     \/ driver = "prefixed_file" /\ ttls[PrefixedFile!ResolveKey(k)] # Null

\* What set, or an add that succeeds, has stored under a key can be read under it
\* in the same second (testSet, testAdd), unless it is overshadowed.
ReadsBack ==
  [][\A k \in Keys, v \in Values, ttl \in Ttls :
       Sets(k, v, ttl) /\ Stored(k) /\ ~ Overshadowed(k, ttl)
         => Entry(k)' # Null /\ Entry(k)'.value = v]_vars

\* A caller sees what lmbCacheConnection promises and can read what was just stored.
DriversServe == ImplementsContract /\ ReadsBack
=============================================================================
