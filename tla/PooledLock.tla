------------------------------ MODULE PooledLock ------------------------------
(***************************************************************************)
(* Python/pypooledlock.c: locks that are installed in an object (its       *)
(* ob_lock field) only while some thread uses them.  A lock that nobody    *)
(* uses goes back to pooled_lock_queue, its mutex still locked and its     *)
(* waiting count 1, so that the next thread that takes it owns it at once. *)
(*                                                                         *)
(* A step is what one thread does between two accesses to state that       *)
(* another thread may change meanwhile: code under pooled_lock_mutex is    *)
(* one step, except around the waiting count, which Lock changes under     *)
(* pooled_lock_mutex but LazyUnlock changes under _Py_RefMutex: there the  *)
(* load and the store are two steps, and one of the two changes may be     *)
(* lost.  The build is the one with pthread mutexes, where                 *)
(* USE_DEADLOCK_DETECTION is defined.                                      *)
(***************************************************************************)
EXTENDS Integers, Sequences, FiniteSets

CONSTANTS
  Thread,      \* threads of the process
  Object,      \* lists and dictionaries: the objects with an ob_lock field
  Lock,        \* addresses malloc() can return for a PyPooledLock
  NULL,        \* the null pointer, and the null thread id 0
  MaxHeld,     \* bound: objects one thread locks at a time
  MaxWaiting   \* bound: no Lock call while a waiting count is beyond it (a
               \* count that races can drift without limit)

ASSUME ConstantAssumption ==
  /\ NULL \notin Thread
  /\ NULL \notin Lock
  /\ NULL \notin Object
  /\ MaxHeld \in Nat \ {0}
  /\ MaxWaiting \in Nat
  /\ IsFiniteSet(Thread)

VARIABLES
  ob_lock,           \* [Object -> Lock or NULL]: the ob_lock fields
  queue,             \* pooled_lock_queue: the free locks, last one in first
  allocated,         \* locks malloc() has returned so far
  waiting,           \* pl->waiting
  thread_id,         \* pl->thread_id
  owner,             \* pl->mutex: who locked it (NULL: unlocked)
  pool_mutex,        \* owner of pooled_lock_mutex, or NULL
  ref_mutex,         \* owner of _Py_RefMutex, or NULL
  pc,                \* where each thread is
  ob,                \* the object of the call in progress
  pl,                \* the local variable pl of that call
  reg,               \* the value loaded by an unfinished ++ or --
  held,              \* the objects whose lock each thread has been granted
  torn               \* history: a change of a waiting count was lost

vars == <<ob_lock, queue, allocated, waiting, thread_id, owner,
          pool_mutex, ref_mutex, pc, ob, pl, reg, held, torn>>

PCs == {"idle", "lock", "lock_incr", "lock_check", "lock_wait", "lock_own",
        "unlock", "unlock_clear", "unlock_release",
        "lazy", "lazy_decr", "lazy_clear", "lazy_release",
        "done", "done_take", "segv"}

Goto(t, from, to) ==
  /\ pc[t] = from
  /\ pc' = [pc EXCEPT ![t] = to]

-----------------------------------------------------------------------------
(* The mutex of a lock (external: pthreads).                               *)

\* PyMutex_Lock(&pl->mutex) returns.
MutexLock(t, l) ==
  /\ owner[l] = NULL
  /\ owner' = [owner EXCEPT ![l] = t]

BadMutexUnlock(l) == UNCHANGED owner

\* PyMutex_Unlock(&pl->mutex): it does not look at who calls it.
MutexUnlock(l) == owner' = [owner EXCEPT ![l] = NULL]

-----------------------------------------------------------------------------
(* The tests and the assignments the entry points share.  A definition     *)
(* named Bad... is a faulty variant of the next one: the checks must tell  *)
(* the two apart.                                                          *)

BadNoWaiters(l) == waiting[l] >= 1

\* pl->waiting == 1: only the caller uses the lock.
NoWaiters(l) == waiting[l] = 1

BadUnused(l) == waiting[l] \in {0, 1}

\* pl->waiting == 0: nobody uses the lock.
Unused(l) == waiting[l] = 0

BadIsHolder(t, l) == thread_id[l] # NULL

\* USE_DEADLOCK_DETECTION: get_thread_ident() == pl->thread_id.
IsHolder(t, l) == thread_id[l] = t

BadSetId(t, l) == thread_id' = [thread_id EXCEPT ![l] = ob[t]]

\* USE_DEADLOCK_DETECTION: pl->thread_id = get_thread_ident().
SetId(t, l) == thread_id' = [thread_id EXCEPT ![l] = t]

BadClearId(l) == UNCHANGED thread_id

\* USE_DEADLOCK_DETECTION: pl->thread_id = 0.
ClearId(l) == thread_id' = [thread_id EXCEPT ![l] = NULL]

BadToPool(t, l) == queue' = <<l>> \o queue /\ UNCHANGED ob_lock

\* Put the lock into the queue and clear *ppl.
ToPool(t, l) ==
  /\ queue' = <<l>> \o queue
  /\ ob_lock' = [ob_lock EXCEPT ![ob[t]] = NULL]

-----------------------------------------------------------------------------
(* PyPooledLock_Init: no locks yet; every object has ob_lock == NULL.      *)

Init ==
  /\ ob_lock = [o \in Object |-> NULL]
  /\ queue = <<>>
  /\ allocated = {}
  /\ waiting = [l \in Lock |-> 0]
  /\ thread_id = [l \in Lock |-> NULL]
  /\ owner = [l \in Lock |-> NULL]
  /\ pool_mutex = NULL
  /\ ref_mutex = NULL
  /\ pc = [t \in Thread |-> "idle"]
  /\ ob = [t \in Thread |-> NULL]
  /\ pl = [t \in Thread |-> NULL]
  /\ reg = [t \in Thread |-> 0]
  /\ held = [t \in Thread |-> {}]
  /\ torn = FALSE

-----------------------------------------------------------------------------
(* PyPooledLock_Lock                                                       *)

\* A thread that holds o may ask again (a comparison function that uses the
\* list being sorted).
LockCall(t, o) ==
  /\ Goto(t, "idle", "lock")
  /\ Cardinality(held[t]) < MaxHeld \/ o \in held[t]
  /\ \A l \in Lock : waiting[l] \in -MaxWaiting .. MaxWaiting
  /\ ob' = [ob EXCEPT ![t] = o]
  /\ UNCHANGED <<ob_lock, queue, allocated, waiting, thread_id, owner,
                 pool_mutex, ref_mutex, pl, reg, held, torn>>

\* *ppl is set: the load of ++waiting, keeping pooled_lock_mutex.
LockExisting(t) ==
  LET l == ob_lock[ob[t]] IN
  /\ Goto(t, "lock", "lock_incr")
  /\ pool_mutex = NULL
  /\ l # NULL
  /\ pool_mutex' = t
  /\ pl' = [pl EXCEPT ![t] = l]
  /\ reg' = [reg EXCEPT ![t] = waiting[l]]
  /\ UNCHANGED <<ob_lock, queue, allocated, waiting, thread_id, owner,
                 ref_mutex, ob, held, torn>>

\* The store of ++ or --: whatever was stored since the load is lost.
Store(t, n) ==
  /\ waiting' = [waiting EXCEPT ![pl[t]] = n]
  /\ torn' = (torn \/ waiting[pl[t]] # reg[t])
  /\ reg' = [reg EXCEPT ![t] = 0]

LockIncrStore(t) ==
  /\ Goto(t, "lock_incr", "lock_check")
  /\ Store(t, reg[t] + 1)
  /\ UNCHANGED <<ob_lock, queue, allocated, thread_id, owner, pool_mutex,
                 ref_mutex, ob, pl, held>>

\* USE_DEADLOCK_DETECTION: the caller holds the lock; "deadlock detected".
\* While no count is torn only this thread decrements, and increments need
\* pooled_lock_mutex, so --waiting is one step.
LockDeadlock(t) ==
  /\ Goto(t, "lock_check", "idle")
  /\ IsHolder(t, pl[t])
  /\ waiting' = [waiting EXCEPT ![pl[t]] = @ - 1]
  /\ pool_mutex' = NULL
  /\ UNCHANGED <<ob_lock, queue, allocated, thread_id, owner, ref_mutex, ob,
                 pl, reg, held, torn>>

\* Not the holder: release pooled_lock_mutex and wait for the lock's mutex.
LockNoDeadlock(t) ==
  /\ Goto(t, "lock_check", "lock_wait")
  /\ ~IsHolder(t, pl[t])
  /\ pool_mutex' = NULL
  /\ UNCHANGED <<ob_lock, queue, allocated, waiting, thread_id, owner,
                 ref_mutex, ob, pl, reg, held, torn>>

\* *ppl is NULL and the queue is not empty: take a lock that is owned at once.
LockFromPool(t) ==
  /\ Goto(t, "lock", "lock_own")
  /\ pool_mutex = NULL
  /\ ob_lock[ob[t]] = NULL
  /\ queue # <<>>
  /\ pl' = [pl EXCEPT ![t] = Head(queue)]
  /\ ob_lock' = [ob_lock EXCEPT ![ob[t]] = Head(queue)]
  /\ queue' = Tail(queue)
  /\ UNCHANGED <<allocated, waiting, thread_id, owner, pool_mutex, ref_mutex,
                 ob, reg, held, torn>>

\* The queue is empty: malloc() a lock l, waiting 1, mutex not yet locked.
LockMalloc(t, l) ==
  /\ Goto(t, "lock", "lock_wait")
  /\ pool_mutex = NULL
  /\ ob_lock[ob[t]] = NULL
  /\ queue = <<>>
  /\ l \notin allocated
  /\ allocated' = allocated \cup {l}
  /\ pl' = [pl EXCEPT ![t] = l]
  /\ ob_lock' = [ob_lock EXCEPT ![ob[t]] = l]
  /\ waiting' = [waiting EXCEPT ![l] = 1]
  /\ thread_id' = [thread_id EXCEPT ![l] = NULL]
  /\ owner' = [owner EXCEPT ![l] = NULL]
  /\ UNCHANGED <<queue, pool_mutex, ref_mutex, ob, reg, held, torn>>

\* malloc() fails: MemoryError, *ppl is NULL again.
LockNoMemory(t) ==
  /\ Goto(t, "lock", "idle")
  /\ pool_mutex = NULL
  /\ ob_lock[ob[t]] = NULL
  /\ queue = <<>>
  /\ UNCHANGED <<ob_lock, queue, allocated, waiting, thread_id, owner,
                 pool_mutex, ref_mutex, ob, pl, reg, held, torn>>

\* PyMutex_Lock(&pl->mutex) returns.
LockMutex(t) ==
  /\ Goto(t, "lock_wait", "lock_own")
  /\ MutexLock(t, pl[t])
  /\ UNCHANGED <<ob_lock, queue, allocated, waiting, thread_id, pool_mutex,
                 ref_mutex, ob, pl, reg, held, torn>>

\* "we now have the lock...": record the owner and return 0.
LockReturn(t) ==
  /\ Goto(t, "lock_own", "idle")
  /\ SetId(t, pl[t])
  /\ held' = [held EXCEPT ![t] = @ \cup {ob[t]}]
  /\ UNCHANGED <<ob_lock, queue, allocated, waiting, owner, pool_mutex,
                 ref_mutex, ob, pl, reg, torn>>

-----------------------------------------------------------------------------
(* PyPooledLock_Unlock                                                     *)

\* pl = *ppl, read without any mutex.  A NULL there is dereferenced next: the
\* thread gets no further ("segv").
UnlockCall(t, o) ==
  /\ Goto(t, "idle", IF ob_lock[o] = NULL THEN "segv" ELSE "unlock")
  /\ o \in held[t]
  /\ ob' = [ob EXCEPT ![t] = o]
  /\ pl' = [pl EXCEPT ![t] = ob_lock[o]]
  /\ held' = [held EXCEPT ![t] = @ \ {o}]
  /\ UNCHANGED <<ob_lock, queue, allocated, waiting, thread_id, owner,
                 pool_mutex, ref_mutex, reg, torn>>

\* Nobody waits: back to the pool, the mutex still locked.
UnlockLast(t) ==
  /\ Goto(t, "unlock", "idle")
  /\ pool_mutex = NULL
  /\ NoWaiters(pl[t])
  /\ ToPool(t, pl[t])
  /\ ClearId(pl[t])
  /\ UNCHANGED <<allocated, waiting, owner, pool_mutex, ref_mutex, ob, pl,
                 reg, held, torn>>

\* Somebody waits: --waiting under pooled_lock_mutex.  Only the owner may
\* decrement and increments need pooled_lock_mutex, so this is one step.
UnlockWaiters(t) ==
  /\ Goto(t, "unlock", "unlock_clear")
  /\ pool_mutex = NULL
  /\ ~NoWaiters(pl[t])
  /\ waiting' = [waiting EXCEPT ![pl[t]] = @ - 1]
  /\ UNCHANGED <<ob_lock, queue, allocated, thread_id, owner, pool_mutex,
                 ref_mutex, ob, pl, reg, held, torn>>

\* pl->thread_id = 0
UnlockClear(t) ==
  /\ Goto(t, "unlock_clear", "unlock_release")
  /\ ClearId(pl[t])
  /\ UNCHANGED <<ob_lock, queue, allocated, waiting, owner, pool_mutex,
                 ref_mutex, ob, pl, reg, held, torn>>

\* PyMutex_Unlock(&pl->mutex): unblock the waiter(s).
UnlockRelease(t) ==
  /\ Goto(t, "unlock_release", "idle")
  /\ MutexUnlock(pl[t])
  /\ UNCHANGED <<ob_lock, queue, allocated, waiting, thread_id, pool_mutex,
                 ref_mutex, ob, pl, reg, held, torn>>

-----------------------------------------------------------------------------
(* PyPooledLock_LazyUnlock                                                 *)

LazyUnlockCall(t, o) ==
  /\ Goto(t, "idle", IF ob_lock[o] = NULL THEN "segv" ELSE "lazy")
  /\ o \in held[t]
  /\ ob' = [ob EXCEPT ![t] = o]
  /\ pl' = [pl EXCEPT ![t] = ob_lock[o]]
  /\ held' = [held EXCEPT ![t] = @ \ {o}]
  /\ UNCHANGED <<ob_lock, queue, allocated, waiting, thread_id, owner,
                 pool_mutex, ref_mutex, reg, torn>>

\* Py_SafeDecr(&pl->waiting): a load and a store under _Py_RefMutex, which
\* no increment asks for.
LazyDecrLoad(t) ==
  /\ Goto(t, "lazy", "lazy_decr")
  /\ ref_mutex = NULL
  /\ ref_mutex' = t
  /\ reg' = [reg EXCEPT ![t] = waiting[pl[t]]]
  /\ UNCHANGED <<ob_lock, queue, allocated, waiting, thread_id, owner,
                 pool_mutex, ob, pl, held, torn>>

LazyDecrStore(t) ==
  /\ Goto(t, "lazy_decr", "lazy_clear")
  /\ Store(t, reg[t] - 1)
  /\ ref_mutex' = NULL
  /\ UNCHANGED <<ob_lock, queue, allocated, thread_id, owner, pool_mutex, ob,
                 pl, held>>

\* pl->thread_id = 0
LazyClear(t) ==
  /\ Goto(t, "lazy_clear", "lazy_release")
  /\ ClearId(pl[t])
  /\ UNCHANGED <<ob_lock, queue, allocated, waiting, owner, pool_mutex,
                 ref_mutex, ob, pl, reg, held, torn>>

\* "now others can acquire this..."
LazyRelease(t) ==
  /\ Goto(t, "lazy_release", "idle")
  /\ MutexUnlock(pl[t])
  /\ UNCHANGED <<ob_lock, queue, allocated, waiting, thread_id, pool_mutex,
                 ref_mutex, ob, pl, reg, held, torn>>

-----------------------------------------------------------------------------
(* PyPooledLock_LazyDone: called after the last LazyUnlock of an operation *)
(* and by the deallocators, never by a thread that holds the object.       *)

LazyDoneCall(t, o) ==
  /\ Goto(t, "idle", "done")
  /\ o \notin held[t]
  /\ ob' = [ob EXCEPT ![t] = o]
  /\ UNCHANGED <<ob_lock, queue, allocated, waiting, thread_id, owner,
                 pool_mutex, ref_mutex, pl, reg, held, torn>>

\* No lock, or a lock that somebody uses.
LazyDoneSkip(t) ==
  /\ Goto(t, "done", "idle")
  /\ pool_mutex = NULL
  /\ ob_lock[ob[t]] # NULL => ~Unused(ob_lock[ob[t]])
  /\ UNCHANGED <<ob_lock, queue, allocated, waiting, thread_id, owner,
                 pool_mutex, ref_mutex, ob, pl, reg, held, torn>>

\* A lock nobody uses: waiting = 1, then wait for its mutex, keeping
\* pooled_lock_mutex.
LazyDoneTake(t) ==
  LET l == ob_lock[ob[t]] IN
  /\ Goto(t, "done", "done_take")
  /\ pool_mutex = NULL
  /\ l # NULL
  /\ Unused(l)
  /\ pool_mutex' = t
  /\ pl' = [pl EXCEPT ![t] = l]
  /\ waiting' = [waiting EXCEPT ![l] = 1]
  /\ UNCHANGED <<ob_lock, queue, allocated, thread_id, owner, ref_mutex, ob,
                 reg, held, torn>>

\* The mutex is ours: put the lock into the queue.
LazyDoneReturn(t) ==
  /\ Goto(t, "done_take", "idle")
  /\ MutexLock(t, pl[t])
  /\ ToPool(t, pl[t])
  /\ pool_mutex' = NULL
  /\ UNCHANGED <<allocated, waiting, thread_id, ref_mutex, ob, pl, reg, held,
                 torn>>

-----------------------------------------------------------------------------

Lock_(t) ==
  \/ LockExisting(t) \/ LockIncrStore(t) \/ LockDeadlock(t)
  \/ LockNoDeadlock(t) \/ LockFromPool(t) \/ (\E l \in Lock : LockMalloc(t, l))
  \/ LockNoMemory(t) \/ LockMutex(t) \/ LockReturn(t)

Unlock_(t) ==
  UnlockLast(t) \/ UnlockWaiters(t) \/ UnlockClear(t) \/ UnlockRelease(t)

LazyUnlock_(t) ==
  LazyDecrLoad(t) \/ LazyDecrStore(t) \/ LazyClear(t)
  \/ LazyRelease(t)

LazyDone_(t) == LazyDoneSkip(t) \/ LazyDoneTake(t) \/ LazyDoneReturn(t)

Release_(t, o) == UnlockCall(t, o) \/ LazyUnlockCall(t, o)

Call_(t) ==
  \E o \in Object : Release_(t, o) \/ LockCall(t, o) \/ LazyDoneCall(t, o)

Step(t) == Lock_(t) \/ Unlock_(t) \/ LazyUnlock_(t) \/ LazyDone_(t)

Next == \E t \in Thread : Step(t) \/ Call_(t)

Spec == Init /\ [][Next]_vars

\* A thread inside a call goes on, and gets pooled_lock_mutex, which nobody
\* keeps for long, if it is free again and again; every operation on a list
\* or a dictionary releases the locks it was granted.
FairSpec ==
  Spec /\ \A t \in Thread : /\ SF_vars(Step(t))
                            /\ \A o \in Object : SF_vars(Release_(t, o))

-----------------------------------------------------------------------------
(* Properties.                                                             *)

TypeOK ==
  /\ ob_lock \in [Object -> Lock \cup {NULL}]
  /\ queue \in Seq(Lock)
  /\ allocated \subseteq Lock
  /\ waiting \in [Lock -> Int]
  /\ thread_id \in [Lock -> Thread \cup {NULL}]
  /\ owner \in [Lock -> Thread \cup {NULL}]
  /\ pool_mutex \in Thread \cup {NULL}
  /\ ref_mutex \in Thread \cup {NULL}
  /\ pc \in [Thread -> PCs]
  /\ ob \in [Thread -> Object \cup {NULL}]
  /\ pl \in [Thread -> Lock \cup {NULL}]
  /\ reg \in [Thread -> Int]
  /\ held \in [Thread -> SUBSET Object]
  /\ torn \in BOOLEAN

(* The next ones hold for as long as no change of a waiting count is lost: *)
(* what follows a lost one is excused, nothing before it.                  *)

\* Two threads are never inside the same list or dictionary.
MutualExclusion ==
  torn \/ \A t, u \in Thread : t # u => held[t] \cap held[u] = {}

\* "ASSERT: waiting==1, mutex locked, deadlock thread==0" of every free lock
\* (pypooledlock.c:63): whoever takes it from the queue owns it at once.
PooledReady ==
  torn \/ \A i \in 1 .. Len(queue) :
    /\ waiting[queue[i]] = 1
    /\ owner[queue[i]] # NULL
    /\ thread_id[queue[i]] = NULL

\* "INVARIANT: waiting >=1; <pl> will remain valid" (pypooledlock.c:54, 85):
\* the lock a thread waits for or was granted is still the object's lock.
PlRemainsValid ==
  \A t \in Thread :
    /\ pc[t] \in {"lock_wait", "lock_own", "unlock", "lazy"} =>
         /\ ob_lock[ob[t]] = pl[t]
         /\ waiting[pl[t]] >= 1
    /\ \A o \in held[t] : ob_lock[o] # NULL /\ waiting[ob_lock[o]] >= 1

\* The same of the counts that are not torn: a lock that somebody waits for
\* or has never leaves its object.
PlValidUntilTorn == torn \/ PlRemainsValid

\* Every lock malloc() returned is free, or installed in exactly one object.
NoLockLost ==
  \/ torn
  \/ /\ \A i, j \in 1 .. Len(queue) : i # j => queue[i] # queue[j]
     /\ \A l \in allocated :
          LET users == {o \in Object : ob_lock[o] = l}
              free == \E i \in 1 .. Len(queue) : queue[i] = l
          IN IF free THEN users = {} ELSE \E o \in Object : users = {o}

\* "deadlock detected" is raised for the thread that has the lock, and for
\* no other; a thread never waits for a lock it has.
DetectionExact ==
  torn \/ \A t \in Thread :
    /\ pc[t] = "lock_check" => (thread_id[pl[t]] = t <=> ob[t] \in held[t])
    /\ pc[t] = "lock_wait" => ob[t] \notin held[t]

-----------------------------------------------------------------------------
(* Refinement: the pooled locks implement one lock per object.             *)

LockPCs == {"lock", "lock_incr", "lock_check", "lock_wait", "lock_own"}

Holder == [o \in Object |->
             IF \E t \in Thread : o \in held[t]
             THEN CHOOSE t \in Thread : o \in held[t]
             ELSE NULL]

Want == [t \in Thread |-> IF pc[t] \in LockPCs THEN ob[t] ELSE NULL]

Abstract == INSTANCE ObjectLock WITH holder <- Holder, want <- Want

\* Up to the step that loses a count, every step of the pooled locks is one of
\* the abstract object locks: no grant of a held object, no spurious "deadlock
\* detected".
ImplementsObjectLock ==
  Abstract!LockInit /\ [][Abstract!LockNext \/ torn']_(Abstract!lockVars)

-----------------------------------------------------------------------------
(* Liveness.                                                               *)

\* Threads that wait for each other's objects.  Only a thread's waiting for
\* itself is detected by the code.
Deadlocked ==
  \E D \in SUBSET Thread :
    /\ D # {}
    /\ \A t \in D : pc[t] = "lock_wait" /\ \E u \in D : ob[t] \in held[u]

\* An object that is waited for is granted to somebody new, whoever has it
\* now, unless threads wait for each other in a circle; and pooled_lock_mutex
\* is always released, although LazyDone() waits for a mutex with it.
WaiterProgress ==
  /\ \A o \in Object :
       (\E t \in Thread : pc[t] = "lock_wait" /\ ob[t] = o)
         ~> (torn \/ Deadlocked \/ \E t \in Thread : pc[t] = "lock_own" /\ ob[t] = o)
  /\ pool_mutex # NULL ~> (torn \/ pool_mutex = NULL)
=============================================================================
