----------------------------- MODULE SyncObjects -----------------------------
(* Classes barrier, event, semaphore and mrsw of src/Demo/threads/sync.py,   *)
(* on top of the conditions that Condition is shown to implement.            *)
(*                                                                           *)
(* Every method runs under the lock of its conditions, up to its .release()  *)
(* or .wait(): such a stretch is one step, since nothing else can happen to  *)
(* the object meanwhile.  A woken thread acquires the lock in a step of its  *)
(* own, so that others may come before it.  An exception raised under the    *)
(* lock leaves it acquired for good.                                         *)
EXTENDS WaitSet

CONSTANTS
  Thread,    \* the threads that share the object
  N,         \* barrier(N), semaphore(N)
  MaxCalls,  \* bound on the calls of a thread
  Misuses    \* whether threads may call v() and *_out() out of turn when that raises

ASSUME NAssumption == N \in Nat \ {0}
ASSUME ThreadAssumption == IsFiniteSet(Thread)
ASSUME MaxCallsAssumption == MaxCalls \in Nat

Kinds == {"barrier", "event", "semaphore", "mrsw"}
Conditions == {"full", "posted", "nonzero", "readOK", "writeOK"}

VARIABLES
  kind,      \* the class of the object, chosen at the start
  cond,      \* the waiters of its conditions
  jammed,    \* an exception left the lock acquired
  togo,      \* barrier.togo
  state,     \* event.state
  count,     \* semaphore.count
  nr, nw, writing,  \* of mrsw
  pc,        \* what a thread is blocked in, or "out"
  role,      \* mrsw: what a thread is inside as
  calls,     \* calls a thread has begun
  entered,   \* history: how often barrier.enter() was called
  seen       \* threads in event.wait() during which the event was posted

object == <<togo, state, count, nr, nw, writing>>
vars == <<kind, cond, jammed, object, pc, role, calls, entered, seen>>

TypeOK ==
  /\ kind \in Kinds
  /\ cond \in [Conditions -> WaitSets(Thread)]
  /\ jammed \in BOOLEAN /\ writing \in BOOLEAN /\ state \in BOOLEAN
  /\ togo \in 1 .. N /\ count \in 0 .. N
  /\ nr \in 0 .. Cardinality(Thread) /\ nw \in 0 .. Cardinality(Thread)
  /\ pc \in [Thread -> {"out", "enter", "wait", "p", "read_in", "write_in"}]
  /\ role \in [Thread -> {"none", "reader", "writer"}]
  /\ calls \in [Thread -> 0 .. MaxCalls] /\ entered \in Nat
  /\ seen \subseteq Thread

BarrierInit == togo = N
EventInit == state = FALSE
SemaphoreInit == count = N
MrswInit == nr = 0 /\ nw = 0 /\ writing = FALSE

Init ==
  /\ kind \in Kinds
  /\ cond = [c \in Conditions |-> NoWaiters]
  /\ jammed = FALSE
  /\ BarrierInit /\ EventInit /\ SemaphoreInit /\ MrswInit
  /\ pc = [t \in Thread |-> "out"]
  /\ role = [t \in Thread |-> "none"]
  /\ calls = [t \in Thread |-> 0] /\ entered = 0
  /\ seen = {}

------------------------------------------------------------------------------
(* The lock and the conditions.                                              *)

(* A method is called; the lock is acquired.                                 *)
Call(t, k) ==
  /\ kind = k /\ ~jammed
  /\ pc[t] = "out" /\ calls[t] < MaxCalls
  /\ calls' = [calls EXCEPT ![t] = @ + 1]

(* It blocks on condition c.                                                 *)
Block(t, c, at) ==
  /\ cond' = [cond EXCEPT ![c] = Waiting(@, t)]
  /\ pc' = [pc EXCEPT ![t] = at]

broadcast(c) == cond' = [cond EXCEPT ![c] = Notified(@, -1)]
signal(c) == cond' = [cond EXCEPT ![c] = Notified(@, 1)]

InWait(t) == \E c \in Conditions : t \in Present(cond[c])

Wake(t) == \E c \in Conditions :
  /\ MayWake(cond[c], t)
  /\ cond' = [cond EXCEPT ![c] = Woken(@, t)]
  /\ UNCHANGED <<kind, jammed, object, pc, role, calls, seen, entered>>

(* A woken thread has the lock again.                                        *)
Resume(t, at) == ~jammed /\ pc[t] = at /\ ~InWait(t)

Return(t) == pc' = [pc EXCEPT ![t] = "out"]

(* An exception under the lock: the caller gets it, the lock stays.          *)
Raise(t) ==
  /\ Misuses
  /\ jammed' = TRUE
  /\ Return(t)
  /\ UNCHANGED <<kind, cond, object, role, seen, entered>>

------------------------------------------------------------------------------
(* barrier                                                                   *)
BadEnter(t) ==
  /\ Call(t, "barrier") /\ entered' = entered + 1
  /\ IF togo > 1
       THEN togo' = togo - 1 /\ Block(t, "full", "enter")
       ELSE togo' = N /\ signal("full") /\ Return(t)
  /\ UNCHANGED <<kind, jammed, state, count, nr, nw, writing, role, seen>>

BadEnterReset(t) ==
  /\ Call(t, "barrier") /\ entered' = entered + 1
  /\ IF togo > 1
       THEN togo' = togo - 1 /\ Block(t, "full", "enter")
       ELSE togo' = N - 1 /\ broadcast("full") /\ Return(t)
  /\ UNCHANGED <<kind, jammed, state, count, nr, nw, writing, role, seen>>

Enter(t) ==
  /\ Call(t, "barrier") /\ entered' = entered + 1
  /\ IF togo > 1
       THEN togo' = togo - 1 /\ Block(t, "full", "enter")
       ELSE togo' = N /\ broadcast("full") /\ Return(t)
  /\ UNCHANGED <<kind, jammed, state, count, nr, nw, writing, role, seen>>

EnterResume(t) ==
  /\ Resume(t, "enter")
  /\ Return(t)
  /\ UNCHANGED <<kind, cond, jammed, object, role, calls, seen, entered>>

------------------------------------------------------------------------------
(* event                                                                     *)
BadPost(t) ==
  /\ Call(t, "event")
  /\ state' = TRUE
  /\ seen' = seen \cup {u \in Thread : pc[u] = "wait"}
  /\ IF state THEN UNCHANGED cond ELSE signal("posted")
  /\ Return(t)
  /\ UNCHANGED <<kind, jammed, togo, count, nr, nw, writing, role, entered>>

Post(t) ==
  /\ Call(t, "event")
  /\ state' = TRUE
  /\ seen' = seen \cup {u \in Thread : pc[u] = "wait"}
  /\ broadcast("posted")
  /\ Return(t)
  /\ UNCHANGED <<kind, jammed, togo, count, nr, nw, writing, role, entered>>

Clear(t) ==
  /\ Call(t, "event")
  /\ state' = FALSE
  /\ Return(t)
  /\ UNCHANGED <<kind, cond, jammed, togo, count, nr, nw, writing, role, seen, entered>>

(* is_posted() only reads the state.                                         *)
Wait(t) ==
  /\ Call(t, "event")
  /\ IF state
       THEN Return(t) /\ UNCHANGED cond
       ELSE Block(t, "posted", "wait")
  /\ seen' = seen \ {t}
  /\ UNCHANGED <<kind, jammed, object, role, entered>>

WaitResume(t) ==
  /\ Resume(t, "wait")
  /\ Return(t)
  /\ UNCHANGED <<kind, cond, jammed, object, role, calls, seen, entered>>

------------------------------------------------------------------------------
(* semaphore                                                                 *)

(* The loop of p(): decrement, or wait (again).                              *)
P(t) ==
  IF count = 0
    THEN Block(t, "nonzero", "p") /\ UNCHANGED count
    ELSE count' = count - 1 /\ Return(t) /\ UNCHANGED cond

PCall(t) ==
  /\ Call(t, "semaphore")
  /\ P(t)
  /\ UNCHANGED <<kind, jammed, togo, state, nr, nw, writing, role, seen, entered>>

PResume(t) ==
  /\ Resume(t, "p")
  /\ P(t)
  /\ UNCHANGED <<kind, jammed, togo, state, nr, nw, writing, role, calls, seen, entered>>

BadV(t) ==
  /\ Call(t, "semaphore")
  /\ count < N
  /\ count' = count + 1
  /\ IF count = 0 THEN signal("nonzero") ELSE UNCHANGED cond
  /\ Return(t)
  /\ UNCHANGED <<kind, jammed, togo, state, nr, nw, writing, role, seen, entered>>

V(t) ==
  /\ Call(t, "semaphore")
  /\ count < N
  /\ count' = count + 1
  /\ signal("nonzero")
  /\ Return(t)
  /\ UNCHANGED <<kind, jammed, togo, state, nr, nw, writing, role, seen, entered>>

VRaise(t) ==
  /\ Call(t, "semaphore")
  /\ count = N
  /\ Raise(t)

------------------------------------------------------------------------------
(* mrsw: rwOK is the lock of both conditions.                                *)

is(t, r) == role' = [role EXCEPT ![t] = r]

(* The loop of read_in().                                                    *)
ReadIn(t) ==
  IF nw > 0
    THEN Block(t, "readOK", "read_in") /\ UNCHANGED <<nr, role>>
    ELSE nr' = nr + 1 /\ is(t, "reader") /\ Return(t) /\ UNCHANGED cond

ReadInCall(t) ==
  /\ role[t] = "none"
  /\ Call(t, "mrsw")
  /\ ReadIn(t)
  /\ UNCHANGED <<kind, jammed, togo, state, count, nw, writing, seen, entered>>

ReadInResume(t) ==
  /\ Resume(t, "read_in")
  /\ ReadIn(t)
  /\ UNCHANGED <<kind, jammed, togo, state, count, nw, writing, calls, seen, entered>>

(* A thread inside leaves it without counting as a call: it must be able to. *)
Inside(t, r) == kind = "mrsw" /\ ~jammed /\ pc[t] = "out" /\ role[t] = r

ReadOut(t) ==
  /\ Inside(t, "reader")
  /\ nr' = nr - 1
  /\ IF nr = 1 THEN signal("writeOK") ELSE UNCHANGED cond
  /\ is(t, "none")
  /\ UNCHANGED <<kind, jammed, togo, state, count, nw, writing, pc, calls, seen, entered>>

ReadOutRaise(t) ==
  /\ role[t] = "none"
  /\ Call(t, "mrsw")
  /\ nr = 0
  /\ Raise(t)

BadWriteIn(t) ==
  /\ writing' = TRUE /\ is(t, "writer") /\ Return(t) /\ UNCHANGED cond

(* The loop of write_in().                                                   *)
WriteIn(t) ==
  IF writing \/ nr > 0
    THEN Block(t, "writeOK", "write_in") /\ UNCHANGED <<writing, role>>
    ELSE writing' = TRUE /\ is(t, "writer") /\ Return(t) /\ UNCHANGED cond

WriteInCall(t) ==
  /\ role[t] = "none"
  /\ Call(t, "mrsw")
  /\ nw' = nw + 1
  /\ WriteIn(t)
  /\ UNCHANGED <<kind, jammed, togo, state, count, nr, seen, entered>>

WriteInResume(t) ==
  /\ Resume(t, "write_in")
  /\ WriteIn(t)
  /\ UNCHANGED <<kind, jammed, togo, state, count, nr, nw, calls, seen, entered>>

BadWriteOut(t) ==
  /\ Inside(t, "writer")
  /\ writing' = FALSE /\ nw' = nw - 1
  /\ broadcast("readOK")
  /\ is(t, "none")
  /\ UNCHANGED <<kind, jammed, togo, state, count, nr, pc, calls, seen, entered>>

WriteOut(t) ==
  /\ Inside(t, "writer")
  /\ writing' = FALSE /\ nw' = nw - 1
  /\ IF nw > 1 THEN signal("writeOK") ELSE broadcast("readOK")
  /\ is(t, "none")
  /\ UNCHANGED <<kind, jammed, togo, state, count, nr, pc, calls, seen, entered>>

WriteToRead(t) ==
  /\ Inside(t, "writer")
  /\ writing' = FALSE /\ nw' = nw - 1 /\ nr' = nr + 1
  /\ IF nw = 1 THEN broadcast("readOK") ELSE UNCHANGED cond
  /\ is(t, "reader")
  /\ UNCHANGED <<kind, jammed, togo, state, count, pc, calls, seen, entered>>

(* write_out() and write_to_read() without an active writer.                 *)
WriteRaise(t) ==
  /\ role[t] = "none"
  /\ Call(t, "mrsw")
  /\ ~writing
  /\ Raise(t)

------------------------------------------------------------------------------
(* What a thread goes on with once it has begun, if it gets the lock.        *)
Goes(t) ==
  \/ EnterResume(t) \/ WaitResume(t) \/ PResume(t) \/ ReadInResume(t) \/ WriteInResume(t)
  \/ ReadOut(t) \/ WriteOut(t)

Next == \E t \in Thread :
  \/ Wake(t) \/ Goes(t)
  \/ Enter(t)
  \/ Post(t) \/ Clear(t) \/ Wait(t)
  \/ PCall(t) \/ V(t) \/ VRaise(t)
  \/ ReadInCall(t) \/ ReadOutRaise(t) \/ WriteInCall(t) \/ WriteToRead(t) \/ WriteRaise(t)

Spec == Init /\ [][Next]_vars

(* Notifications arrive (Condition!ReleaseGoesOn, with a checkout lock that  *)
(* does not pass by those who are meant forever), a woken thread gets the    *)
(* lock, readers and writers leave.                                          *)
Fairness == \A t \in Thread : WF_vars(Wake(t)) /\ WF_vars(Goes(t))

FairSpec == Spec /\ Fairness
------------------------------------------------------------------------------
BlockedIn(at) == {t \in Thread : pc[t] = at}
Role(r) == {t \in Thread : role[t] = r}

(* barrier.enter(): nobody gets through before N threads in all have         *)
(* entered, although a fast thread may enter again while others of its group *)
(* are still being woken up.                                                 *)
BarrierHolds ==
  kind = "barrier" => entered - Cardinality(BlockedIn("enter")) <= N * (entered \div N)

(* Every full group gets through the barrier.                                *)
BarrierOpens ==
  <>[](kind = "barrier" => Cardinality(BlockedIn("enter")) = entered % N)

(* event.post() reaches every thread in wait(), even one that is woken after *)
(* the event was cleared again.                                              *)
EventArrives == \A t \in Thread :
  (pc[t] = "wait" /\ t \in seen) ~> pc[t] = "out"

(* semaphore: no unit lies idle beside a sleeping thread.  Whoever takes a   *)
(* unit ahead of a woken thread, there are never more units than threads on  *)
(* their way to them while others sleep.                                     *)
NoIdleUnit ==
  LET w == cond["nonzero"]
      coming == {t \in BlockedIn("p") : ~InWait(t)}
  IN  kind = "semaphore" /\ Cardinality(Present(w)) > w.permits
        => count <= w.permits + Cardinality(coming)

(* mrsw: one writer or several readers, and the counters say who is inside   *)
(* and who waits to write, through write_to_read() too.                      *)
ReadersOrWriter ==
  /\ Cardinality(Role("writer")) <= 1
  /\ Role("writer") = {} \/ Role("reader") = {}
  /\ nr = Cardinality(Role("reader"))
  /\ writing <=> Role("writer") # {}
  /\ nw = Cardinality(Role("writer") \cup BlockedIn("write_in"))

(* mrsw: when readers and writers leave, everybody who waits gets in: no     *)
(* signal goes to a condition on which nobody waits while others wait on the *)
(* other one.                                                                *)
EverybodyIn ==
  <>[](jammed \/ BlockedIn("read_in") \cup BlockedIn("write_in") = {})
=============================================================================
