------------------------------ MODULE MCCaches ------------------------------
(***************************************************************************)
(* The four drivers in one process, or counters in two processes: the two  *)
(* share no state, so that a behaviour is of one of them.                  *)
(***************************************************************************)
EXTENDS CacheCounter, CacheDrivers

VARIABLE part  \* "drivers" or "counters"

driverVars == <<driver, now, last, caches, ttls>>

MCInit ==
  /\ part \in {"drivers", "counters"}
  /\ Init /\ (part # "drivers" => driver = "file")
  /\ CounterInit /\ (part # "counters" => store = "file")

MCNext ==
  /\ UNCHANGED part
  /\ \/ part = "drivers" /\ Next /\ UNCHANGED counterVars
     \/ /\ part = "counters" /\ CounterNext /\ UNCHANGED driverVars

MCSpec ==
  /\ MCInit /\ [][MCNext]_<<driverVars, counterVars, part>>
  /\ \A p \in Processes, k \in Counters : WF_counterVars(CallStep(p, k))
  /\ \A k \in Counters : WF_counterVars(Expire(k))
=============================================================================
