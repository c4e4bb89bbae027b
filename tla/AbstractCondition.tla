-------------------------- MODULE AbstractCondition --------------------------
(* What class condition of src/Demo/threads/sync.py promises, without        *)
(* checkout, idlock, ids and counters: a lock and a set of waiters.          *)
EXTENDS WaitSet

CONSTANTS
  Thread,   \* the threads that use the condition
  Nums,     \* the arguments of broadcast in use
  NULL      \* no thread

VARIABLES
  lock,     \* the thread that has the condition's lock, or NULL
  waitset,  \* who is blocked in .wait()
  woken     \* who was woken up and is about to acquire the lock again

vars == <<lock, waitset, woken>>

Busy == Present(waitset) \cup woken

Init ==
  /\ lock = NULL
  /\ waitset = NoWaiters
  /\ woken = {}

Acquire(t) ==
  /\ lock = NULL /\ t \notin Busy
  /\ lock' = t
  /\ UNCHANGED <<waitset, woken>>

Release(t) ==
  /\ lock = t
  /\ lock' = NULL
  /\ UNCHANGED <<waitset, woken>>

(* Blocking and releasing the lock are one step: no signal is missed.        *)
Wait(t) ==
  /\ lock = t
  /\ lock' = NULL
  /\ waitset' = Waiting(waitset, t)
  /\ UNCHANGED woken

Broadcast(num) ==
  /\ waitset' = Notified(waitset, num)
  /\ UNCHANGED <<lock, woken>>

Wake(t) ==
  /\ MayWake(waitset, t)
  /\ waitset' = Woken(waitset, t)
  /\ woken' = woken \cup {t}
  /\ UNCHANGED lock

Return(t) ==
  /\ t \in woken /\ lock = NULL
  /\ lock' = t
  /\ woken' = woken \ {t}
  /\ UNCHANGED waitset

Next ==
  \/ \E t \in Thread : Acquire(t) \/ Release(t) \/ Wait(t) \/ Wake(t) \/ Return(t)
  \/ \E num \in Nums : Broadcast(num)

Spec == Init /\ [][Next]_vars
=============================================================================
