---------------------------- MODULE CacheCounter -----------------------------
(***************************************************************************)
(* lmbCacheAbstractConnection: increment, decrement, safeIncrement and     *)
(* safeDecrement, called by several processes on counters in one store.    *)
(*                                                                         *)
(* increment and decrement read the counter, take a lock, an entry beside  *)
(* the counter that add creates, write and release.  The lock lasts for a  *)
(* second: it may expire while its holder still works, or after the holder *)
(* has died.                                                               *)
(*                                                                         *)
(* A call of the table's driver is one statement of SQL, and one step.  A  *)
(* call of the file driver has a step for each file it removes or writes,  *)
(* and one for looking whether there is an entry: add looks, and then is a *)
(* set; set is a delete, and then writes the deadline and the entry;       *)
(* delete removes the entry, if it can be read, and the deadline.  A file  *)
(* that is gone when its turn comes ends the process, as Die does.         *)
(***************************************************************************)
EXTENDS CacheConnection, Integers

CONSTANTS
  Counters,   \* keys of counters
  Processes,  \* Null is no call, too
  Lapsed,     \* an expired row of the table, which get does not see
  MaxValue    \* bounds the model: no call starts when the counter, or what a
              \* call has read of it, is above it

ASSUME CacheCounterConstants ==
  /\ Null \notin Int /\ Lapsed \notin Int /\ Null # Lapsed
  /\ MaxValue \in Nat

VARIABLES
  store,      \* "file" or "db": the driver
  counter,    \* Null, Lapsed, or the number in the store
  fleeting,   \* counters whose row has a deadline
  lock,       \* what there is of the lock entry: "entry" itself, "ttl", a deadline,
              \* and "over" when that has passed
  call        \* Null or the call a process is in

counterVars == <<store, counter, fleeting, lock, call>>

-----------------------------------------------------------------------------

\* The new value; decrement has a floor.
Applied(op, n) == IF op = "inc" THEN n + 1 ELSE IF n = 0 THEN 0 ELSE n - 1

\* A deadline that has passed hides the entry; without one it stays.
Readable(k) == "entry" \in lock[k] /\ "over" \notin lock[k]

\* Exclusive: add is a set, it succeeds over a row.
LockableMutant(k) == TRUE

\* Whether add creates the lock entry.  A file that cannot be read is none; a row
\* refuses another whether or not it has expired.
Lockable(k) == IF store = "db" THEN "entry" \notin lock[k] ELSE ~ Readable(k)

-----------------------------------------------------------------------------
CounterInit ==
  /\ store \in {"file", "db"}
  /\ counter = [k \in Counters |-> Null]
  /\ fleeting = {}
  /\ lock = [k \in Counters |-> {}]
  /\ call = [p \in Processes |-> Null]

At(p, k, pc) == call[p] # Null /\ call[p].key = k /\ call[p].pc = pc

\* The call goes on at pc.
GoTo(p, pc) == call' = [call EXCEPT ![p].pc = pc]

\* WaitFree: a safe call tries until it succeeds.
ReturnMutant(p, falsy) ==
  IF falsy /\ call[p].safe THEN GoTo(p, "add") ELSE call' = [call EXCEPT ![p] = Null]

\* increment or decrement returns.  A safe call that got a falsy answer creates
\* the counter and tries once more.
Return(p, falsy) ==
  IF falsy /\ call[p].safe /\ ~ call[p].again
  THEN GoTo(p, "add")
  ELSE call' = [call EXCEPT ![p] = Null]

Start(p, k, op, safe) ==
  /\ call[p] = Null
  /\ counter[k] \in Nat => counter[k] <= MaxValue
  /\ \A q \in Processes : call[q] # Null => call[q].seen <= MaxValue
  /\ call' = [call EXCEPT ![p] = [key |-> k, op |-> op, safe |-> safe, again |-> FALSE,
                                  pc |-> "get", seen |-> 0]]
  /\ UNCHANGED <<store, counter, fleeting, lock>>

GetCounter(p, k) ==
  /\ At(p, k, "get")
  /\ IF counter[k] \in {Null, Lapsed}
     THEN Return(p, TRUE)
     ELSE call' = [call EXCEPT ![p].pc = "lock", ![p].seen = counter[k]]
  /\ UNCHANGED <<store, counter, fleeting, lock>>

\* add of the lock: the INSERT of the table, or the look for the file.
TakeLock(p, k) ==
  /\ At(p, k, "lock")
  /\ IF ~ Lockable(k) THEN Return(p, TRUE) /\ UNCHANGED lock
     ELSE IF store = "db"
     THEN GoTo(p, "set") /\ lock' = [lock EXCEPT ![k] = {"entry", "ttl"}]
     ELSE GoTo(p, "rm_lock") /\ UNCHANGED lock
  /\ UNCHANGED <<store, counter, fleeting>>

\* The set that add of a file goes on with, file by file.
PutLock(p, k) ==
  /\ \/ /\ At(p, k, "rm_lock") /\ GoTo(p, "rm_ttl")
        /\ lock' = [lock EXCEPT ![k] = IF Readable(k) THEN @ \ {"entry"} ELSE @]
     \/ /\ At(p, k, "rm_ttl") /\ GoTo(p, "put_ttl")
        /\ lock' = [lock EXCEPT ![k] = @ \ {"ttl", "over"}]
     \/ /\ At(p, k, "put_ttl") /\ GoTo(p, "put_lock")
        /\ lock' = [lock EXCEPT ![k] = (@ \ {"over"}) \union {"ttl"}]
     \/ /\ At(p, k, "put_lock") /\ GoTo(p, "set")
        /\ lock' = [lock EXCEPT ![k] = @ \union {"entry"}]
  /\ UNCHANGED <<store, counter, fleeting>>

\* set of the counter: one statement, or the removal of the file and its writing.
SetCounter(p, k) ==
  /\ \/ /\ At(p, k, "set") /\ store = "file"
        /\ counter' = [counter EXCEPT ![k] = Null] /\ GoTo(p, "write")
     \/ /\ (At(p, k, "set") /\ store = "db") \/ At(p, k, "write")
        /\ counter' = [counter EXCEPT ![k] = Applied(call[p].op, call[p].seen)]
        /\ GoTo(p, "unlock")
  /\ fleeting' = fleeting \ {k}
  /\ UNCHANGED <<store, lock>>

\* delete of the lock.  The file driver leaves an expired entry and removes its
\* deadline.
Unlock(p, k) ==
  /\ \/ /\ At(p, k, "unlock") /\ store = "file" /\ GoTo(p, "unlock_ttl")
        /\ lock' = [lock EXCEPT ![k] = IF Readable(k) THEN @ \ {"entry"} ELSE @]
     \/ /\ \/ At(p, k, "unlock") /\ store = "db" /\ lock' = [lock EXCEPT ![k] = {}]
           \/ At(p, k, "unlock_ttl") /\ lock' = [lock EXCEPT ![k] = @ \ {"ttl", "over"}]
        /\ Return(p, Applied(call[p].op, call[p].seen) = 0)
  /\ UNCHANGED <<store, counter, fleeting>>

\* add(k, 0) in the table.  The new row has a deadline, the second it is created in.
CreateCounter(k) ==
  /\ counter' = IF counter[k] = Null THEN [counter EXCEPT ![k] = 0] ELSE counter
  /\ fleeting' = IF counter[k] = Null THEN fleeting \union {k} ELSE fleeting

\* add(key, 0) of a safe call, before its second try.  In files it may find none,
\* remove what another process has written since, and write its own.
AddCounter(p, k) ==
  /\ \/ /\ At(p, k, "add") /\ store = "file" /\ counter[k] = Null
        /\ GoTo(p, "rm") /\ UNCHANGED <<counter, fleeting>>
     \/ /\ At(p, k, "rm") /\ GoTo(p, "zero")
        /\ counter' = [counter EXCEPT ![k] = Null] /\ UNCHANGED fleeting
     \/ /\ \/ At(p, k, "add") /\ store = "db" /\ CreateCounter(k)
           \/ /\ At(p, k, "add") /\ store = "file" /\ counter[k] # Null
              /\ UNCHANGED <<counter, fleeting>>
           \/ /\ At(p, k, "zero")
              /\ counter' = [counter EXCEPT ![k] = 0] /\ UNCHANGED fleeting
        /\ call' = [call EXCEPT ![p].pc = "get", ![p].again = TRUE]
  /\ UNCHANGED <<store, lock>>

CallStep(p, k) ==
  \/ GetCounter(p, k) \/ TakeLock(p, k) \/ PutLock(p, k) \/ SetCounter(p, k)
  \/ Unlock(p, k) \/ AddCounter(p, k)

\* The second of the lock is over.
Expire(k) ==
  /\ "ttl" \in lock[k] /\ "over" \notin lock[k]
  /\ lock' = [lock EXCEPT ![k] = @ \union {"over"}]
  /\ UNCHANGED <<store, counter, fleeting, call>>

\* The second is over in which the row of a counter was added.
Lapse(k) ==
  /\ k \in fleeting /\ counter[k] # Lapsed
  /\ counter' = [counter EXCEPT ![k] = Lapsed]
  /\ UNCHANGED <<store, fleeting, lock, call>>

\* The process ends in the middle of a call.
Die(p) ==
  /\ call[p] # Null
  /\ call' = [call EXCEPT ![p] = Null]
  /\ UNCHANGED <<store, counter, fleeting, lock>>

-----------------------------------------------------------------------------
\* Between the answer of lock and that of unlock.
Holds(p, k) == \E pc \in {"set", "write", "unlock"} : At(p, k, pc)

CounterNext ==
  \/ \E p \in Processes, k \in Counters, op \in {"inc", "dec"}, safe \in BOOLEAN :
       Start(p, k, op, safe)
  \/ \E p \in Processes, k \in Counters : CallStep(p, k)
  \/ \E p \in Processes : Die(p)
  \/ \E k \in Counters : Lapse(k) \/ Expire(k)

\* Every process that does not die goes on, and time passes.
CounterSpec ==
  /\ CounterInit /\ [][CounterNext]_counterVars
  /\ \A p \in Processes, k \in Counters : WF_counterVars(CallStep(p, k))
  /\ \A k \in Counters : WF_counterVars(Expire(k))

-----------------------------------------------------------------------------
Steps ==
  {"get", "lock", "rm_lock", "rm_ttl", "put_ttl", "put_lock", "set", "write", "unlock",
   "unlock_ttl", "add", "rm", "zero"}

Calls ==
  [key : Counters, op : {"inc", "dec"}, safe : BOOLEAN, again : BOOLEAN, pc : Steps, seen : Nat]

\* Type correctness: a counter is never negative, and a process in a call is at
\* one of its steps.
CounterTypeOK ==
  /\ store \in {"file", "db"}
  /\ counter \in [Counters -> Nat \union {Null, Lapsed}]
  /\ fleeting \in SUBSET Counters
  /\ lock \in [Counters -> SUBSET {"entry", "ttl", "over"}]
  /\ call \in [Processes -> Calls \union {Null}]

\* No two processes are between lock and unlock of one counter (testLock: the second
\* lock fails).
OneHolder ==
  \A p, q \in Processes, k \in Counters : Holds(p, k) /\ Holds(q, k) => p = q

\* So it is in the table, however slow a holder is: its row stays until it unlocks.
Exclusive == store = "db" => OneHolder

\* In files it is not: two processes look for the lock before either has written it.
FileExclusive == store = "file" => OneHolder

\* No call waits for another: each returns or dies, whoever holds the lock.
WaitFree == \A p \in Processes : call[p] # Null ~> call[p] = Null

\* Whoever dies with the lock, it can be taken again some time: this is what its
\* lifetime, TTL_INC_DEC, is for.  In the table the row of the dead stays.
LockComesBack == store = "db" => \A k \in Counters : []<>Lockable(k)

\* In files an unlock that comes too late makes the entry last for ever.
FileLockComesBack == store = "file" => \A k \in Counters : []<>Lockable(k)
=============================================================================
