------------------------------ MODULE ObjectLock ------------------------------
(***************************************************************************)
(* What Py_POOLED_LOCK and Py_POOLED_UNLOCK promise the code of lists and  *)
(* dictionaries: every object has a lock of its own, held by at most one   *)
(* thread.  A request is granted when nobody holds the object, or fails:   *)
(* with "deadlock detected" only when the caller itself holds it, with     *)
(* MemoryError only when the object is in nobody's use.                    *)
(***************************************************************************)
CONSTANTS Thread, Object, NULL

VARIABLES
  holder,   \* [Object -> Thread or NULL]
  want      \* [Thread -> Object or NULL]: the request in progress

lockVars == <<holder, want>>

LockInit ==
  /\ holder = [o \in Object |-> NULL]
  /\ want = [t \in Thread |-> NULL]

Request(t, o) ==
  /\ want[t] = NULL
  /\ want' = [want EXCEPT ![t] = o]
  /\ UNCHANGED holder

Grant(t) ==
  /\ want[t] # NULL
  /\ holder[want[t]] = NULL
  /\ holder' = [holder EXCEPT ![want[t]] = t]
  /\ want' = [want EXCEPT ![t] = NULL]

Refuse(t) ==
  /\ want[t] # NULL
  /\ holder[want[t]] \in {t, NULL}
  /\ want' = [want EXCEPT ![t] = NULL]
  /\ UNCHANGED holder

Release(t, o) ==
  /\ want[t] = NULL
  /\ holder[o] = t
  /\ holder' = [holder EXCEPT ![o] = NULL]
  /\ UNCHANGED want

LockNext ==
  \E t \in Thread :
    \/ Grant(t) \/ Refuse(t)
    \/ \E o \in Object : Request(t, o) \/ Release(t, o)

LockSpec == LockInit /\ [][LockNext]_lockVars
=============================================================================
