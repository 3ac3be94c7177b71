---------------------------- MODULE TaggableCache ----------------------------
(***************************************************************************)
(* lmbTaggableCacheWrapper over one store that several processes share.    *)
(* An entry is stored with the versions its tags had; deleteByTag          *)
(* increments the version of a tag, and whoever reads an entry compares.   *)
(* The versions are counters of CacheCounter: deleteByTag is a             *)
(* safeIncrement, with its lock.  As there, a call of the table's driver   *)
(* is one step, and an add or set of the file driver looks, removes what   *)
(* there is and then writes.                                               *)
(*                                                                         *)
(* Entries are stored without a lifetime.  No process dies while it holds  *)
(* the lock of a counter: CacheCounter shows what then becomes of the      *)
(* lock.                                                                   *)
(***************************************************************************)
EXTENDS CacheCounter, Sequences

CONSTANTS
  EntryKeys,     \* keys of entries
  Invalidators,  \* processes that call deleteByTag
  Flushers,      \* processes that call flush
  MaxStored,     \* bounds the model: so many containers are begun in the table,
  MaxFiled       \* and in files

Tags == Counters

\* The file a job is about to replace: of the version of a tag, or of the entry.
Replacements == [tag : Tags \union {Null}, removed : BOOLEAN]

ASSUME TaggableCacheConstants ==
  /\ Invalidators \subseteq Processes /\ Flushers \subseteq Processes
  /\ {MaxStored, MaxFiled} \subseteq Nat /\ Null \notin Calls \union Replacements \union Tags

VARIABLES
  entry,    \* Null, or a container: its tags and their versions, and a number
  job,      \* Null, or the add, set or get a process is in
  filing,   \* Null, or the file that job is about to replace: of a tag's version,
            \* or, when its tag is Null, of the entry; and whether the old one is gone
  \* what has happened, for the properties: numbers of containers
  begun,    \* tags of the containers begun so far
  target,   \* those stored under the tag when the process's deleteByTag began
  dead,     \* those that a deleteByTag which has returned was meant for
  suspect   \* those that were begun before or during a deleteByTag of one of
            \* their tags

history == <<begun, target, dead, suspect>>
taggedVars == <<counterVars, entry, job, filing, history>>

-----------------------------------------------------------------------------
TaggedInit ==
  /\ CounterInit
  /\ entry = [k \in EntryKeys |-> Null]
  /\ job = [p \in Processes |-> Null]
  /\ filing = [p \in Processes |-> Null]
  /\ begun = <<>>
  /\ target = [p \in Processes |-> {}]
  /\ dead = {}
  /\ suspect = {}

Idle(p) == call[p] = Null /\ job[p] = Null

Finish(p) == job' = [job EXCEPT ![p] = Null]

NothingSeen == [t \in Tags |-> Null]

Invalidated(T) == \E q \in Processes : call[q] # Null /\ call[q].key \in T

\* add or set begins.
StartWrite(p, k, op, T) ==
  /\ Idle(p)
  /\ Len(begun) < IF store = "db" THEN MaxStored ELSE MaxFiled
  /\ LET id == Len(begun) + 1
     IN /\ job' = [job EXCEPT ![p] = [op |-> op, key |-> k, tags |-> T, unread |-> T,
                                      seen |-> NothingSeen, id |-> id, gone |-> {}]]
        /\ begun' = Append(begun, T)
        /\ suspect' = IF Invalidated(T) THEN suspect \union {id} ELSE suspect
  /\ UNCHANGED <<counterVars, entry, filing, target, dead>>

\* get begins by reading the container.
StartGet(p, k) ==
  /\ Idle(p) /\ entry[k] # Null
  /\ job' = [job EXCEPT ![p] = [op |-> "get", key |-> k, tags |-> entry[k].tags,
                                unread |-> entry[k].tags, seen |-> NothingSeen,
                                id |-> entry[k].id, versions |-> entry[k].versions,
                                gone |-> dead]]
  /\ UNCHANGED <<counterVars, entry, filing, history>>

\* Both then read the versions of the tags, one by one in the caller's order.
ReadTag(p, t) ==
  /\ job[p] # Null /\ t \in job[p].unread
  /\ job' = [job EXCEPT ![p].unread = @ \ {t},
                        ![p].seen[t] = IF counter[t] = Lapsed THEN Null ELSE counter[t]]
  /\ UNCHANGED <<counterVars, entry, filing, history>>

Writes(p) == job[p] # Null /\ job[p].op # "get" /\ job[p].unread = {}

\* A set in files begins: it will replace the file of tag t, or of the entry.
Replace(p, t) == filing' = [filing EXCEPT ![p] = [tag |-> t, removed |-> FALSE]]

\* A tag without a version gets version 0, whether or not the add succeeds.
AddTag(p, t) ==
  /\ Writes(p) /\ filing[p] = Null /\ t \in job[p].tags /\ job[p].seen[t] = Null
  /\ IF store = "file" /\ counter[t] = Null
     THEN Replace(p, t) /\ UNCHANGED <<counter, fleeting, job>>
     ELSE /\ IF store = "db" THEN CreateCounter(t) ELSE UNCHANGED <<counter, fleeting>>
          /\ job' = [job EXCEPT ![p].seen[t] = 0]
          /\ UNCHANGED filing
  /\ UNCHANGED <<store, lock, call, entry, history>>

\* TaggedTypeOK: a tag without a version is stored without one.
PreparedMutant(p, k) == Writes(p) /\ job[p].key = k
Prepared(p, k) ==
  Writes(p) /\ job[p].key = k /\ \A t \in job[p].tags : job[p].seen[t] # Null

\* The container is in the store.
Filled(p, k) ==
  entry' = [entry EXCEPT ![k] = [id |-> job[p].id, tags |-> job[p].tags,
                                 versions |-> job[p].seen]]

\* The call of the store's add or set with the container.
Put(p, k) ==
  /\ Prepared(p, k) /\ filing[p] = Null
  /\ \/ job[p].op = "add" /\ entry[k] # Null /\ Finish(p) /\ UNCHANGED <<entry, filing>>
     \/ /\ job[p].op = "add" => entry[k] = Null
        /\ IF store = "file" THEN Replace(p, Null) /\ UNCHANGED <<entry, job>>
                            ELSE Filled(p, k) /\ Finish(p) /\ UNCHANGED filing
  /\ UNCHANGED <<counterVars, history>>

\* The old file is removed, if it is there, whoever has written it.
RemoveFile(p) ==
  /\ filing[p] # Null /\ ~ filing[p].removed
  /\ filing' = [filing EXCEPT ![p].removed = TRUE]
  /\ IF filing[p].tag = Null
     THEN entry' = [entry EXCEPT ![job[p].key] = Null] /\ UNCHANGED counter
     ELSE counter' = [counter EXCEPT ![filing[p].tag] = Null] /\ UNCHANGED entry
  /\ UNCHANGED <<store, fleeting, lock, call, job, history>>

\* The new one is written.
WriteFile(p) ==
  /\ filing[p] # Null /\ filing[p].removed
  /\ filing' = [filing EXCEPT ![p] = Null]
  /\ IF filing[p].tag = Null
     THEN Filled(p, job[p].key) /\ Finish(p) /\ UNCHANGED counter
     ELSE /\ counter' = [counter EXCEPT ![filing[p].tag] = 0]
          /\ job' = [job EXCEPT ![p].seen[filing[p].tag] = 0]
          /\ UNCHANGED entry
  /\ UNCHANGED <<store, fleeting, lock, call, history>>

Compares(p) == job[p] # Null /\ job[p].op = "get" /\ job[p].unread = {}

\* NoStale: an older version passes.
ValidMutant(p) ==
  \A t \in job[p].tags :
    job[p].seen[t] # Null /\ job[p].versions[t] <= job[p].seen[t]
\* NoNeedlessMiss: a tag that was never invalidated is taken for one without a version.
ValidZeroMutant(p) ==
  \A t \in job[p].tags :
    job[p].seen[t] \notin {Null, 0} /\ job[p].seen[t] = job[p].versions[t]

\* _isTagsValid, of the versions that have been read.
Valid(p) ==
  \A t \in job[p].tags :
    job[p].seen[t] # Null /\ job[p].seen[t] = job[p].versions[t]

\* get answers the value.
Hit(p) ==
  /\ Compares(p) /\ Valid(p)
  /\ Finish(p)
  /\ UNCHANGED <<counterVars, entry, filing, history>>

\* get deletes the entry, whatever is under the key by now, and answers null.
Miss(p) ==
  /\ Compares(p) /\ ~ Valid(p)
  /\ entry' = [entry EXCEPT ![job[p].key] = Null]
  /\ Finish(p)
  /\ UNCHANGED <<counterVars, filing, history>>

Delete(p, k) ==
  /\ Idle(p)
  /\ entry' = [entry EXCEPT ![k] = Null]
  /\ UNCHANGED <<counterVars, job, filing, history>>

StartDeleteByTag(p, t) ==
  /\ Idle(p) /\ p \in Invalidators
  /\ Start(p, t, "inc", TRUE)
  /\ target' = [target EXCEPT ![p] = {entry[k].id : k \in {l \in EntryKeys :
                                        entry[l] # Null /\ t \in entry[l].tags}}]
  /\ suspect' = suspect \union {id \in DOMAIN begun : t \in begun[id]}
  /\ UNCHANGED <<entry, job, filing, begun, dead>>

\* A step of the safeIncrement, perhaps its last.
StepDeleteByTag(p, t) ==
  /\ CallStep(p, t)
  /\ dead' = IF call'[p] = Null THEN dead \union target[p] ELSE dead
  /\ UNCHANGED <<entry, job, filing, begun, target, suspect>>

\* flush empties the store: entries, versions and locks.  It is called while the
\* cache is not used.
Flush(p) ==
  /\ p \in Flushers /\ \A q \in Processes : Idle(q)
  /\ entry' = [k \in EntryKeys |-> Null]
  /\ counter' = [t \in Tags |-> Null]
  /\ fleeting' = {}
  /\ lock' = [t \in Tags |-> {}]
  /\ UNCHANGED <<store, call, job, filing, history>>

\* A process ends in the middle of an add, set or get.
JobDies(p) ==
  /\ job[p] # Null
  /\ Finish(p) /\ filing' = [filing EXCEPT ![p] = Null]
  /\ UNCHANGED <<counterVars, entry, history>>

TaggedNext ==
  \/ \E p \in Processes, k \in EntryKeys, op \in {"add", "set"}, T \in SUBSET Tags \ {{}} :
       StartWrite(p, k, op, T)
  \/ \E p \in Processes, k \in EntryKeys : StartGet(p, k) \/ Put(p, k) \/ Delete(p, k)
  \/ \E p \in Processes, t \in Tags :
       ReadTag(p, t) \/ AddTag(p, t) \/ StartDeleteByTag(p, t) \/ StepDeleteByTag(p, t)
  \/ \E p \in Processes :
       RemoveFile(p) \/ WriteFile(p) \/ Hit(p) \/ Miss(p) \/ Flush(p) \/ JobDies(p)
  \/ \E t \in Tags : (Lapse(t) \/ Expire(t)) /\ UNCHANGED <<entry, job, filing, history>>

TaggedSpec == TaggedInit /\ [][TaggedNext]_taggedVars

-----------------------------------------------------------------------------
Containers ==
  [id : Nat, tags : SUBSET Tags, versions : [Tags -> Nat \union {Null}]]

\* Type correctness: a container holds a version of every tag it has.
TaggedTypeOK ==
  /\ CounterTypeOK
  /\ entry \in [EntryKeys -> Containers \union {Null}]
  /\ \A k \in EntryKeys : entry[k] # Null => \A t \in entry[k].tags : entry[k].versions[t] \in Nat
  /\ \A p \in Processes :
       job[p] # Null => job[p].key \in EntryKeys /\ job[p].unread \subseteq job[p].tags

\* A get that begins after a deleteByTag has returned never answers an entry that
\* had the tag when the deleteByTag began (testDeleteByTags_SingleTag), whatever
\* other processes read and store meanwhile.
HitIsFresh(p) == Hit(p) => job[p].id \notin job[p].gone

\* So it is in the table.
NoStale == [][store = "db" => \A p \in Processes : HitIsFresh(p)]_taggedVars

\* In files an add of version 0, begun before another process's, is written after it
\* and puts the old version back.
FileNoStale == [][store = "file" => \A p \in Processes : HitIsFresh(p)]_taggedVars

\* In the table, an entry is missed only when one of its tags has been invalidated, or
\* has lost its version.
NoNeedlessMiss ==
  [][store = "db" => \A p \in Processes :
       Miss(p) => job[p].id \in suspect \/ \E t \in job[p].tags : counter[t] = Lapsed
    ]_taggedVars

\* An entry whose tags nobody invalidates stays readable
\* (testDeleteByTags_DifferentTag).  In the table a new version lasts for a second.
StaysReadable ==
  [][store = "db" => \A p \in Processes : Miss(p) => job[p].id \in suspect]_taggedVars
=============================================================================
