------------------------------- MODULE WaitSet -------------------------------
(* The promise of class condition (src/Demo/threads/sync.py, the comment on  *)
(* .wait, .signal and .broadcast) as operators on a value: who has to wait   *)
(* for a later notification, who may leave because of an earlier one, and    *)
(* how many of those really may.  AbstractCondition is a state machine over  *)
(* one such value, SyncObjects keeps one for every condition it uses.        *)
EXTENDS Integers, FiniteSets, FiniteSetsExt

(* later: .wait()ed after the last signal; eligible: before it; permits: how *)
(* many of the eligible threads are to be woken up.                          *)
WaitSets(Thread) ==
  [later : SUBSET Thread, eligible : SUBSET Thread, permits : 0 .. Cardinality(Thread)]

NoWaiters == [later |-> {}, eligible |-> {}, permits |-> 0]

(* .wait() blocks t until a subsequent signal.                               *)
Waiting(w, t) == [w EXCEPT !.later = @ \cup {t}]

(* Everybody who may be woken by a notification sent now.                    *)
Present(w) == w.later \cup w.eligible

(* .broadcast(num): -1 wakes up all who wait, num > 0 at most that many      *)
(* more.                                                                     *)
Notified(w, num) ==
  [later    |-> {},
   eligible |-> Present(w),
   permits  |-> LET n == Cardinality(Present(w))
                IN  IF num = -1 THEN n ELSE Min({n, w.permits + num})]

MayWake(w, t) == t \in w.eligible /\ w.permits > 0

(* t wakes up; it still has to acquire the condition's lock.                 *)
Woken(w, t) ==
  [later |-> w.later, eligible |-> w.eligible \ {t}, permits |-> w.permits - 1]
=============================================================================
