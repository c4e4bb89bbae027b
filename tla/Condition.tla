------------------------------ MODULE Condition ------------------------------
(* Class condition of src/Demo/threads/sync.py: a condition variable made of *)
(* three thread locks.  The condition's lock (mutex) guards the users' data; *)
(* checkout is passed, like a baton, to the waiters that may leave; idlock   *)
(* guards the counters.                                                      *)
(*                                                                           *)
(* A step is what one thread does up to its next acquire_lock: the stores it *)
(* makes are guarded by idlock, and releasing a lock never blocks.           *)
EXTENDS Integers, FiniteSets, FiniteSetsExt

CONSTANTS
  Thread,   \* the threads that use the condition
  Nums,     \* the arguments of broadcast in use: -1 (all) or how many
  MaxId,    \* bound on id, for model checking
  NULL      \* no thread

ASSUME NumsAssumption == Nums \subseteq {-1} \cup (Nat \ {0})
ASSUME ThreadAssumption == IsFiniteSet(Thread) /\ NULL \notin Thread
ASSUME BoundAssumption == MaxId \in Nat

VARIABLES
  mutex,      \* owner of self.mutex, or NULL
  checkout,   \* self.checkout is acquired
  idlock,     \* owner of self.idlock, or NULL
  id,         \* self.id: the number of notifications that found waiters
  waiting,    \* self.waiting: waiters subject to the current release
  pending,    \* self.pending: waiters awaiting the next signal
  torelease,  \* self.torelease: waiters to release
  releasing,  \* self.releasing
  pc,         \* where each thread is
  myid,       \* the id its wait() began with
  num         \* the argument of its broadcast()

counters == <<id, waiting, pending, torelease, releasing>>
vars == <<mutex, checkout, idlock, counters, pc, myid, num>>

Idle == "idle"   \* outside, or inside between two calls

pcs == {Idle, "wait", "pended", "blocked", "checkout", "turn", "woken", "notify"}

(* The threads blocked in wait() and not let go yet.                         *)
Waiters == {t \in Thread : pc[t] \in {"pended", "blocked", "checkout", "turn"}}
Earlier == {t \in Waiters : myid[t] < id}

TypeOK ==
  /\ mutex \in Thread \cup {NULL} /\ idlock \in Thread \cup {NULL}
  /\ checkout \in BOOLEAN /\ releasing \in BOOLEAN
  /\ id \in 0 .. MaxId
  /\ waiting \in 0 .. Cardinality(Thread)
  /\ pending \in 0 .. Cardinality(Thread)
  /\ torelease \in 0 .. Cardinality(Thread)
  /\ pc \in [Thread -> pcs]
  /\ myid \in [Thread -> 0 .. MaxId]
  /\ num \in [Thread -> Nums \cup {0}]

Init ==
  /\ mutex = NULL /\ checkout = TRUE /\ idlock = NULL
  /\ id = 0 /\ waiting = 0 /\ pending = 0 /\ torelease = 0 /\ releasing = FALSE
  /\ pc = [t \in Thread |-> Idle]
  /\ myid = [t \in Thread |-> 0]
  /\ num = [t \in Thread |-> 0]

goto(t, from, to) == pc[t] = from /\ pc' = [pc EXCEPT ![t] = to]

LockId(t) == idlock = NULL /\ idlock' = t
UnlockId(t) == idlock = t /\ idlock' = NULL

------------------------------------------------------------------------------
Acquire(t) ==
  /\ pc[t] = Idle /\ mutex = NULL
  /\ mutex' = t
  /\ UNCHANGED <<checkout, idlock, counters, pc, myid, num>>

Release(t) ==
  /\ pc[t] = Idle /\ mutex = t
  /\ mutex' = NULL
  /\ UNCHANGED <<checkout, idlock, counters, pc, myid, num>>

(* wait(), called with the mutex acquired as it must be.                     *)
WaitCall(t) ==
  /\ mutex = t
  /\ goto(t, Idle, "wait")
  /\ LockId(t)
  /\ UNCHANGED <<mutex, checkout, counters, myid, num>>

BadWaitPend(t) ==
  /\ goto(t, "wait", "pended")
  /\ myid' = [myid EXCEPT ![t] = IF releasing THEN 0 ELSE id]
  /\ pending' = pending + 1
  /\ UnlockId(t)
  /\ UNCHANGED <<mutex, checkout, id, waiting, torelease, releasing, num>>

WaitPend(t) ==
  /\ goto(t, "wait", "pended")
  /\ myid' = [myid EXCEPT ![t] = id]
  /\ pending' = pending + 1
  /\ UnlockId(t)
  /\ UNCHANGED <<mutex, checkout, id, waiting, torelease, releasing, num>>

WaitRelease(t) ==
  /\ goto(t, "pended", "blocked")
  /\ mutex' = NULL
  /\ UNCHANGED <<checkout, idlock, counters, myid, num>>

WaitCheckout(t) ==
  /\ ~checkout
  /\ goto(t, "blocked", "checkout")
  /\ checkout' = TRUE
  /\ UNCHANGED <<mutex, idlock, counters, myid, num>>

WaitLock(t) ==
  /\ goto(t, "checkout", "turn")
  /\ LockId(t)
  /\ UNCHANGED <<mutex, checkout, counters, myid, num>>

BadMyTurn(t) == myid[t] <= id

MyTurn(t) == myid[t] < id

(* The release in progress is not for this thread: back to the loop.         *)
WaitAgain(t) ==
  /\ ~MyTurn(t)
  /\ goto(t, "turn", "blocked")
  /\ checkout' = FALSE
  /\ UnlockId(t)
  /\ UNCHANGED <<mutex, counters, myid, num>>

BadReset == IF waiting = 1 THEN id' = 0 ELSE UNCHANGED id

(* id starts again when nobody waits any more.                               *)
Reset == IF waiting = 1 /\ pending = 0 THEN id' = 0 ELSE UNCHANGED id

BadPassOn == checkout' = FALSE /\ UNCHANGED <<id, releasing>>

(* The baton goes to the next one, or back when this was the last.           *)
PassOn ==
  IF torelease > 1
    THEN checkout' = FALSE /\ UNCHANGED <<id, releasing>>
    ELSE releasing' = FALSE /\ Reset /\ UNCHANGED checkout

WaitLeave(t) ==
  /\ MyTurn(t)
  /\ goto(t, "turn", "woken")
  /\ waiting' = waiting - 1
  /\ torelease' = torelease - 1
  /\ PassOn
  /\ UnlockId(t)
  /\ UNCHANGED <<mutex, pending, myid, num>>

WaitReturn(t) ==
  /\ mutex = NULL
  /\ goto(t, "woken", Idle)
  /\ mutex' = t
  /\ UNCHANGED <<checkout, idlock, counters, myid, num>>

(* broadcast(n), signal() being broadcast(1), with or without the mutex.     *)
(* broadcast(0) returns at once, broadcast(-2) raises ValueError: neither    *)
(* changes anything.                                                         *)
BroadcastCall(t, n) ==
  /\ goto(t, Idle, "notify")
  /\ id < MaxId   \* the bound; a broadcast that finds nobody pending does not change id
  /\ LockId(t)
  /\ num' = [num EXCEPT ![t] = n]
  /\ UNCHANGED <<mutex, checkout, counters, myid>>

NewTorelease(n) ==
  IF n = -1 THEN waiting + pending ELSE Min({waiting + pending, torelease + n})

StartRelease(n) ==
  IF n # 0 /\ ~releasing
    THEN releasing' = TRUE /\ checkout' = FALSE
    ELSE UNCHANGED <<releasing, checkout>>

Broadcast(t) ==
  /\ goto(t, "notify", Idle)
  /\ waiting' = waiting + pending
  /\ pending' = 0
  /\ id' = IF pending # 0 THEN id + 1 ELSE id
  /\ torelease' = NewTorelease(num[t])
  /\ StartRelease(torelease')
  /\ num' = [num EXCEPT ![t] = 0]
  /\ UnlockId(t)
  /\ UNCHANGED <<mutex, myid>>

Steps(t) ==
  \/ WaitPend(t) \/ WaitRelease(t) \/ WaitCheckout(t) \/ WaitLock(t)
  \/ WaitAgain(t) \/ WaitLeave(t) \/ WaitReturn(t) \/ Broadcast(t)

Next == \E t \in Thread :
  \/ Acquire(t) \/ Release(t) \/ WaitCall(t) \/ \E n \in Nums : BroadcastCall(t, n)
  \/ Steps(t)

Spec == Init /\ [][Next]_vars

(* A thread inside wait() or broadcast() goes on, and idlock, which nobody   *)
(* keeps, is got at last by who waits for it.  Nothing is assumed about who  *)
(* gets checkout.                                                            *)
Fairness == \A t \in Thread :
  /\ WF_vars(Steps(t))
  /\ SF_vars(WaitLock(t))

FairSpec == Spec /\ Fairness
------------------------------------------------------------------------------
(* Every waiter is counted exactly once, in waiting when a notification came *)
(* after its wait() began and in pending otherwise, although id starts again *)
(* at 0 and a wait may begin while others are being released.                *)
CountsExact ==
  /\ waiting = Cardinality(Earlier)
  /\ pending = Cardinality(Waiters \ Earlier)
  /\ torelease <= waiting

(* checkout is one baton: it is free or with one waiter exactly while a      *)
(* release is in progress, so that nobody releases a lock that is not        *)
(* acquired, and no two waiters leave on one signal.                         *)
OneBaton ==
  LET holders == {t \in Thread : pc[t] \in {"checkout", "turn"}}
  IN  /\ releasing <=> torelease > 0
      /\ checkout <=> (~releasing \/ holders # {})
      /\ Cardinality(holders) <= (IF releasing THEN 1 ELSE 0)

(* wait, signal and broadcast keep what the comment promises: a signal wakes *)
(* exactly one thread that waited before it, a broadcast all of them, and a  *)
(* thread that waits while a release is in progress blocks until a           *)
(* subsequent one.                                                           *)
Abstract == INSTANCE AbstractCondition WITH
  lock    <- IF mutex # NULL /\ pc[mutex] = "pended" THEN NULL ELSE mutex,
  waitset <- [later    |-> Waiters \ Earlier,
              eligible |-> Earlier,
              permits  |-> torelease],
  woken   <- {t \in Thread : pc[t] = "woken"}

ImplementsCondition == Abstract!Spec

(* No wake-up is lost: while a release is in progress the waiters it is for  *)
(* leave one after the other.  The excuse is a waiter that is not meant      *)
(* (pending): it takes checkout, finds that it is not its turn, gives it     *)
(* back and tries again at once, and may keep the others from it for as long *)
(* as the lock lets it.                                                      *)
ReleaseGoesOn == \A n \in 1 .. Cardinality(Thread) :
  (releasing /\ waiting = n) ~> (waiting < n \/ pending > 0)
=============================================================================
