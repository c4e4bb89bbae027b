--------------------------- MODULE PooledLockProofs ---------------------------
(***************************************************************************)
(* Proofs about PooledLock for any threads, objects and lock structures:   *)
(* types; the inductive invariant of PooledLockInv and what follows from   *)
(* it in every state that no lost change of a waiting count precedes; and  *)
(* that up to such a loss the pooled locks implement ObjectLock.           *)
(***************************************************************************)
EXTENDS PooledLockInv, FiniteSetTheorems, TLAPS

\* The operands of the call a thread is in: inside Lock and LazyDone there is
\* an object, and once pl has been read it points to a lock.
Operands ==
  \A t \in Thread :
    /\ pc[t] \notin {"idle", "segv"} => ob[t] \in Object
    /\ pc[t] \notin {"idle", "lock", "done", "segv"} => pl[t] \in Lock

\* Both together are inductive: a step writes through pl and ob.
TypeInv == TypeOK /\ Operands

\* Before any thread runs the types hold.
LEMMA TypeInit == Init => TypeInv
<1> SUFFICES ASSUME Init PROVE TypeInv
  OBVIOUS
<1>1. torn \in BOOLEAN BY Zenon DEF Init
<1>2. queue \in Seq(Lock) /\ allocated \subseteq Lock BY DEF Init
<1>3. /\ ob_lock \in [Object -> Lock \cup {NULL}]
      /\ waiting \in [Lock -> Int]
      /\ thread_id \in [Lock -> Thread \cup {NULL}]
      /\ owner \in [Lock -> Thread \cup {NULL}]
      /\ pool_mutex \in Thread \cup {NULL} /\ ref_mutex \in Thread \cup {NULL}
  BY DEF Init
<1>4. /\ pc \in [Thread -> PCs]
      /\ ob \in [Thread -> Object \cup {NULL}]
      /\ pl \in [Thread -> Lock \cup {NULL}]
      /\ reg \in [Thread -> Int]
      /\ held \in [Thread -> SUBSET Object]
  BY DEF Init, PCs
<1>5. Operands BY DEF Init, Operands
<1> QED BY <1>1, <1>2, <1>3, <1>4, <1>5 DEF TypeInv, TypeOK

\* Locking and unlocking a mutex keeps its type.
LEMMA MutexType ==
  ASSUME TypeOK, NEW t \in Thread, NEW l \in Lock,
         MutexLock(t, l) \/ MutexUnlock(l)
  PROVE  owner' \in [Lock -> Thread \cup {NULL}]
<1>0. owner \in [Lock -> Thread \cup {NULL}]
  BY DEF TypeOK
<1>1. CASE MutexLock(t, l) BY <1>0, <1>1 DEF MutexLock
<1>2. CASE MutexUnlock(l) BY <1>0, <1>2 DEF MutexUnlock
<1> QED BY <1>1, <1>2

\* Every step of every operation preserves the types of the lock structures.
LEMMA TypeNext == TypeInv /\ [Next]_vars => TypeInv'
<1> SUFFICES ASSUME TypeInv, [Next]_vars PROVE TypeInv'
  OBVIOUS
<1> USE ConstantAssumption DEF TypeInv, TypeOK, Operands, PCs, Goto, ToPool,
                           SetId, ClearId
<1>1. ASSUME NEW t \in Thread, Lock_(t) PROVE TypeInv'
  <2>1. CASE LockExisting(t)
    <3>1. ob[t] \in Object /\ ob_lock[ob[t]] \in Lock BY <2>1 DEF LockExisting
    <3> QED BY <2>1, <3>1 DEF LockExisting
  <2>2. CASE LockIncrStore(t)
    <3>1. ob[t] \in Object /\ pl[t] \in Lock BY <2>2 DEF LockIncrStore
    <3> QED BY <2>2, <3>1 DEF LockIncrStore, Store
  <2>3. CASE LockDeadlock(t)
    <3>1. ob[t] \in Object /\ pl[t] \in Lock BY <2>3 DEF LockDeadlock
    <3> QED BY <2>3, <3>1 DEF LockDeadlock
  <2>4. CASE LockNoDeadlock(t) BY <2>4 DEF LockNoDeadlock
  <2>5. CASE LockFromPool(t)
    <3>1. ob[t] \in Object BY <2>5 DEF LockFromPool
    <3> QED BY <2>5, <3>1 DEF LockFromPool
  <2>6. ASSUME NEW l \in Lock, LockMalloc(t, l) PROVE TypeInv'
    <3>1. ob[t] \in Object BY <2>6 DEF LockMalloc
    <3> QED BY <2>6, <3>1 DEF LockMalloc
  <2>7. CASE LockNoMemory(t) BY <2>7 DEF LockNoMemory
  <2>8. CASE LockMutex(t)
    <3>1. ob[t] \in Object /\ pl[t] \in Lock BY <2>8 DEF LockMutex
    <3>2. owner' \in [Lock -> Thread \cup {NULL}]
      BY <2>8, <3>1, MutexType DEF LockMutex
    <3> QED BY <2>8, <3>1, <3>2 DEF LockMutex
  <2>9. CASE LockReturn(t) BY <2>9 DEF LockReturn
  <2> QED BY <1>1, <2>1, <2>2, <2>3, <2>4, <2>5, <2>6, <2>7, <2>8, <2>9
          DEF Lock_
<1>2. ASSUME NEW t \in Thread, Unlock_(t) PROVE TypeInv'
  <2>1. CASE UnlockLast(t)
    <3>1. ob[t] \in Object /\ pl[t] \in Lock BY <2>1 DEF UnlockLast
    <3> QED BY <2>1, <3>1 DEF UnlockLast
  <2>2. CASE UnlockWaiters(t)
    <3>1. ob[t] \in Object /\ pl[t] \in Lock BY <2>2 DEF UnlockWaiters
    <3> QED BY <2>2, <3>1 DEF UnlockWaiters
  <2>3. CASE UnlockClear(t) BY <2>3 DEF UnlockClear
  <2>4. CASE UnlockRelease(t)
    <3>1. ob[t] \in Object /\ pl[t] \in Lock BY <2>4 DEF UnlockRelease
    <3>2. owner' \in [Lock -> Thread \cup {NULL}]
      BY <2>4, <3>1, MutexType DEF UnlockRelease
    <3> QED BY <2>4, <3>1, <3>2 DEF UnlockRelease
  <2> QED BY <1>2, <2>1, <2>2, <2>3, <2>4 DEF Unlock_
<1>3. ASSUME NEW t \in Thread, LazyUnlock_(t) PROVE TypeInv'
  <2>2. CASE LazyDecrLoad(t)
    <3>1. pl[t] \in Lock BY <2>2 DEF LazyDecrLoad
    <3> QED BY <2>2, <3>1 DEF LazyDecrLoad
  <2>3. CASE LazyDecrStore(t)
    <3>1. ob[t] \in Object /\ pl[t] \in Lock BY <2>3 DEF LazyDecrStore
    <3> QED BY <2>3, <3>1 DEF LazyDecrStore, Store
  <2>4. CASE LazyClear(t) BY <2>4 DEF LazyClear
  <2>5. CASE LazyRelease(t)
    <3>1. ob[t] \in Object /\ pl[t] \in Lock BY <2>5 DEF LazyRelease
    <3>2. owner' \in [Lock -> Thread \cup {NULL}]
      BY <2>5, <3>1, MutexType DEF LazyRelease
    <3> QED BY <2>5, <3>1, <3>2 DEF LazyRelease
  <2> QED BY <1>3, <2>2, <2>3, <2>4, <2>5 DEF LazyUnlock_
<1>4. ASSUME NEW t \in Thread, LazyDone_(t) PROVE TypeInv'
  <2>1. CASE LazyDoneSkip(t) BY <2>1 DEF LazyDoneSkip
  <2>2. CASE LazyDoneTake(t)
    <3>1. ob[t] \in Object /\ ob_lock[ob[t]] \in Lock BY <2>2 DEF LazyDoneTake
    <3> QED BY <2>2, <3>1 DEF LazyDoneTake
  <2>3. CASE LazyDoneReturn(t)
    <3>1. ob[t] \in Object /\ pl[t] \in Lock BY <2>3 DEF LazyDoneReturn
    <3>2. owner' \in [Lock -> Thread \cup {NULL}]
      BY <2>3, <3>1, MutexType DEF LazyDoneReturn
    <3> QED BY <2>3, <3>1, <3>2 DEF LazyDoneReturn
  <2> QED BY <1>4, <2>1, <2>2, <2>3 DEF LazyDone_
<1>5. ASSUME NEW t \in Thread, Call_(t) PROVE TypeInv'
  <2>1. ASSUME NEW o \in Object, LockCall(t, o) PROVE TypeInv'
    BY <2>1 DEF LockCall
  <2>2. ASSUME NEW o \in Object, UnlockCall(t, o) PROVE TypeInv'
    BY <2>2 DEF UnlockCall
  <2>3. ASSUME NEW o \in Object, LazyUnlockCall(t, o) PROVE TypeInv'
    BY <2>3 DEF LazyUnlockCall
  <2>4. ASSUME NEW o \in Object, LazyDoneCall(t, o) PROVE TypeInv'
    BY <2>4 DEF LazyDoneCall
  <2> QED BY <1>5, <2>1, <2>2, <2>3, <2>4 DEF Call_, Release_
<1>6. CASE UNCHANGED vars
  BY <1>6 DEF vars
<1> QED BY <1>1, <1>2, <1>3, <1>4, <1>5, <1>6 DEF Next, Step

\* The lock structures, the queue and the threads' local variables keep their
\* types, also after changes of a waiting count have been lost.
THEOREM TypeCorrect == Spec => []TypeOK
<1>1. TypeInv => TypeOK BY DEF TypeInv
<1> QED BY <1>1, TypeInit, TypeNext, PTL DEF Spec

-----------------------------------------------------------------------------
(* Sound is inductive, up to the store that loses a change of a count.     *)

\* The threads that ask for an object are finitely many.
LEMMA AskersFinite ==
  ASSUME NEW o \in Object
  PROVE  IsFiniteSet(Askers(o)) /\ Cardinality(Askers(o)) \in Nat
<1>1. IsFiniteSet(Thread) BY ConstantAssumption
<1>2. Askers(o) \subseteq Thread BY DEF Askers
<1> QED BY <1>1, <1>2, FS_Subset, FS_CardinalityType

\* A call or a return that touches no lock.
LEMMA InvQuiet ==
  ASSUME TypeInv, Sound, NEW t \in Thread, NEW to \in {"idle", "lock", "done"},
         NEW p \in Object,
         pc[t] \in {"idle", "lock", "done"},
         pc' = [pc EXCEPT ![t] = to],
         ob' = ob \/ ob' = [ob EXCEPT ![t] = p],
         UNCHANGED <<ob_lock, queue, allocated, waiting, thread_id, owner, pool_mutex, ref_mutex, pl, reg, held>>
  PROVE  Sound'
<1>1. \A u \in Thread : /\ pc'[u] = IF u = t THEN to ELSE pc[u]
                        /\ u # t => ob'[u] = ob[u]
  BY DEF TypeInv, TypeOK
<1>2. Operand'
  BY <1>1 DEF Sound, Operand, AskPCs, HasPCs, LeavePCs
<1>3. Places'
  BY DEF Sound, Places
<1>4. Exclusion'
  BY <1>1 DEF Sound, Exclusion, Occupies, Has, Leaves, HasPCs, LeavePCs
<1>5. Counts'
  <2>1. \A x \in Object : Askers(x)' = Askers(x) /\ Taken(x)' = Taken(x)
    BY <1>1 DEF Askers, Asks, AskPCs, Taken, Has, HasPCs
  <2>2. \A u \in Thread : pc'[u] = "done_take" => pc[u] = "done_take"
    BY <1>1
  <2> QED BY <2>1, <2>2 DEF Sound, Counts
<1>6. Idents'
  BY <1>1 DEF Sound, Idents
<1>7. Mutexes'
  BY <1>1 DEF Sound, Mutexes
<1>8. Ready'
  BY DEF Sound, Ready
<1> QED BY <1>2, <1>3, <1>4, <1>5, <1>6, <1>7, <1>8 DEF Sound

\* PyMutex_Lock returns: the thread that asked has the object.
LEMMA InvLockMutex ==
  ASSUME TypeInv, Sound, NEW t \in Thread,
         LockMutex(t)
  PROVE  Sound'
<1>9. PICK o \in Object : ob[t] = o
  BY DEF LockMutex, MutexLock, Goto, Sound, Operand, AskPCs
<1>0. /\ pc[t] = "lock_wait" /\ ob[t] = o /\ pl[t] = ob_lock[o]
      /\ ob_lock[o] \in Lock /\ o \notin held[t] /\ owner[pl[t]] = NULL
      /\ pc' = [pc EXCEPT ![t] = "lock_own"]
      /\ owner' = [owner EXCEPT ![pl[t]] = t]
      /\ UNCHANGED <<ob_lock, queue, allocated, waiting, thread_id, pool_mutex,
                     ref_mutex, ob, pl, reg, held>>
  BY <1>9 DEF LockMutex, MutexLock, Goto, Sound, Operand, AskPCs
<1>1. \A u \in Thread : ~Occupies(u, o)
  BY <1>0 DEF Sound, Exclusion
<1>2. Operand'
  BY <1>0, <1>1 DEF Sound, Operand, AskPCs, HasPCs, LeavePCs, TypeInv, TypeOK
<1>3. Places'
  BY <1>0, <1>1 DEF Sound, Places, TypeInv, TypeOK
<1>4. Exclusion'
  BY <1>0, <1>1, ConstantAssumption DEF Sound, Exclusion, Operand, Places, Occupies, Has, Leaves, HasPCs, LeavePCs, TypeInv, TypeOK
<1>5. Counts'
  <2>1. Askers(o)' = Askers(o) \ {t} /\ t \in Askers(o)
    BY <1>0, <1>1 DEF Askers, Asks, AskPCs, TypeInv, TypeOK
  <2>2. Cardinality(Askers(o)') = Cardinality(Askers(o)) - 1
    BY <2>1, AskersFinite, FS_RemoveElement
  <2>3. Taken(o) = 0 /\ Taken(o)' = 1
    BY <1>0, <1>1 DEF Taken, Occupies, Has, Leaves, HasPCs, LeavePCs, TypeInv, TypeOK
  <2>4. ASSUME NEW p \in Object, p # o
        PROVE  Askers(p)' = Askers(p) /\ Taken(p)' = Taken(p)
    BY <1>0, <2>4 DEF Askers, Asks, AskPCs, Taken, Has, HasPCs, TypeInv, TypeOK
  <2>5. ASSUME NEW p \in Object, ob_lock'[p] # NULL
        PROVE  waiting'[ob_lock'[p]] = Cardinality(Askers(p)') + Taken(p)'
    <3>1. CASE p = o
      <4>1. waiting'[ob_lock'[o]] = waiting[ob_lock[o]]
        BY <1>0 DEF TypeInv, TypeOK
      <4>2. waiting[ob_lock[o]] = Cardinality(Askers(o)) + Taken(o)
        BY <1>0, ConstantAssumption DEF Sound, Counts
      <4>3. Taken(o) \in {0, 1} BY DEF Taken
      <4>4. Cardinality(Askers(o)) \in Nat BY AskersFinite
      <4>5. waiting'[ob_lock'[o]] = Cardinality(Askers(o)') + Taken(o)'
        BY <2>2, <2>3, <4>1, <4>2, <4>3, <4>4
      <4> QED BY <3>1, <4>5
    <3>2. CASE p # o
      BY <1>0, <1>1, <2>4, <2>5, <3>2, ConstantAssumption DEF Sound, Counts, Places, TypeInv, TypeOK
    <3> QED BY <3>1, <3>2
  <2>6. ASSUME NEW u \in Thread, pc'[u] = "done_take" PROVE waiting'[pl'[u]] = 1
    BY <1>0, <1>1, <2>6 DEF Sound, Counts, TypeInv, TypeOK
  <2> QED BY <2>5, <2>6 DEF Counts
<1>6. Idents'
  BY <1>0, <1>1, ConstantAssumption DEF Sound, Idents, Places, TypeInv, TypeOK
<1>7. Mutexes'
  <2>1. ASSUME NEW u \in Thread PROVE ref_mutex' = u <=> pc'[u] = "lazy_decr"
    BY <1>0, ConstantAssumption DEF Sound, Mutexes, TypeInv, TypeOK
  <2>2. ASSUME NEW u \in Thread
        PROVE  pool_mutex' = u <=> pc'[u] \in {"lock_incr", "lock_check", "done_take"}
    BY <1>0, ConstantAssumption DEF Sound, Mutexes, TypeInv, TypeOK
  <2> QED BY <2>1, <2>2 DEF Mutexes
<1>8. Ready'
  BY <1>0, <1>1, ConstantAssumption DEF Sound, Ready, Places, TypeInv, TypeOK
<1> QED BY <1>2, <1>3, <1>4, <1>5, <1>6, <1>7, <1>8 DEF Sound

\* The object has a lock: its count is loaded under pooled_lock_mutex.
LEMMA InvLockExisting ==
  ASSUME TypeInv, Sound, NEW t \in Thread,
         LockExisting(t)
  PROVE  Sound'
<1>9. PICK o \in Object : ob[t] = o
  BY DEF LockExisting, Goto, TypeInv, TypeOK, Operands
<1>0. /\ pc[t] = "lock" /\ ob[t] = o /\ ob_lock[o] \in Lock
      /\ pool_mutex = NULL /\ pool_mutex' = t
      /\ pc' = [pc EXCEPT ![t] = "lock_incr"]
      /\ pl' = [pl EXCEPT ![t] = ob_lock[o]]
      /\ UNCHANGED <<ob_lock, queue, allocated, waiting, thread_id, owner,
                     ref_mutex, ob, held>>
  BY <1>9 DEF LockExisting, Goto, TypeInv, TypeOK, Operands
<1>1. \A u \in Thread, p \in Object : Occupies(u, p)' <=> Occupies(u, p)
  BY <1>0 DEF Occupies, Has, Leaves, HasPCs, LeavePCs, TypeInv, TypeOK
<1>2. Operand'
  BY <1>0, <1>1 DEF Sound, Operand, AskPCs, HasPCs, LeavePCs, TypeInv, TypeOK
<1>3. Places'
  BY <1>0 DEF Sound, Places
<1>4. Exclusion'
  BY <1>0, <1>1 DEF Sound, Exclusion
<1>5. Counts'
  <2>1. \A p \in Object : Askers(p)' = Askers(p) /\ Taken(p)' = Taken(p)
    BY <1>0 DEF Askers, Asks, AskPCs, Taken, Has, HasPCs, TypeInv, TypeOK
  <2>2. \A u \in Thread : pc'[u] = "done_take" => pc[u] = "done_take" /\ pl'[u] = pl[u]
    BY <1>0 DEF TypeInv, TypeOK
  <2> QED BY <1>0, <2>1, <2>2 DEF Sound, Counts
<1>6. Idents'
  BY <1>0, ConstantAssumption DEF Sound, Idents, TypeInv, TypeOK
<1>7. Mutexes'
  <2>1. ASSUME NEW u \in Thread PROVE ref_mutex' = u <=> pc'[u] = "lazy_decr"
    BY <1>0, ConstantAssumption DEF Sound, Mutexes, TypeInv, TypeOK
  <2>2. ASSUME NEW u \in Thread
        PROVE  pool_mutex' = u <=> pc'[u] \in {"lock_incr", "lock_check", "done_take"}
    BY <1>0, ConstantAssumption DEF Sound, Mutexes, TypeInv, TypeOK
  <2> QED BY <2>1, <2>2 DEF Mutexes
<1>8. Ready'
  BY <1>0 DEF Sound, Ready
<1> QED BY <1>2, <1>3, <1>4, <1>5, <1>6, <1>7, <1>8 DEF Sound

\* The count is stored and nothing is lost: the caller asks for the object.
LEMMA InvLockIncrStore ==
  ASSUME TypeInv, Sound, NEW t \in Thread,
         LockIncrStore(t), waiting[pl[t]] = reg[t]
  PROVE  Sound'
<1>9. PICK o \in Object : ob[t] = o
  BY DEF LockIncrStore, Goto, Sound, Operand
<1>0. /\ pc[t] = "lock_incr" /\ ob[t] = o /\ ob_lock[o] \in Lock
      /\ pl[t] = ob_lock[o] /\ pool_mutex = t
      /\ pc' = [pc EXCEPT ![t] = "lock_check"]
      /\ waiting' = [waiting EXCEPT ![ob_lock[o]] = @ + 1]
      /\ UNCHANGED <<ob_lock, queue, allocated, thread_id, owner, pool_mutex,
                     ref_mutex, ob, pl, held>>
  BY <1>9 DEF LockIncrStore, Store, Goto, Sound, Operand, Mutexes
<1>1. \A u \in Thread : pc[u] \notin {"lock_check", "done_take"}
  BY <1>0, ConstantAssumption DEF Sound, Mutexes
<1>2. Operand'
  BY <1>0, <1>1 DEF Sound, Operand, AskPCs, HasPCs, LeavePCs, TypeInv, TypeOK
<1>3. Places'
  BY <1>0, <1>1 DEF Sound, Places, TypeInv, TypeOK
<1>4. Exclusion'
  BY <1>0, <1>1, ConstantAssumption DEF Sound, Exclusion, Operand, Places, Occupies, Has, Leaves, HasPCs, LeavePCs, TypeInv, TypeOK
<1>5. Counts'
  <2>1. Askers(o)' = Askers(o) \cup {t} /\ t \notin Askers(o)
    BY <1>0, <1>1 DEF Askers, Asks, AskPCs, TypeInv, TypeOK
  <2>2. Cardinality(Askers(o)') = Cardinality(Askers(o)) + 1
    BY <2>1, AskersFinite, FS_AddElement
  <2>3. Taken(o)' = Taken(o)
    BY <1>0 DEF Taken, Occupies, Has, Leaves, HasPCs, LeavePCs, TypeInv, TypeOK
  <2>4. ASSUME NEW p \in Object, p # o
        PROVE  Askers(p)' = Askers(p) /\ Taken(p)' = Taken(p)
    BY <1>0, <2>4 DEF Askers, Asks, AskPCs, Taken, Has, HasPCs, TypeInv, TypeOK
  <2>5. ASSUME NEW p \in Object, ob_lock'[p] # NULL
        PROVE  waiting'[ob_lock'[p]] = Cardinality(Askers(p)') + Taken(p)'
    <3>1. CASE p = o
      <4>1. waiting'[ob_lock'[o]] = waiting[ob_lock[o]] + 1
        BY <1>0 DEF TypeInv, TypeOK
      <4>2. waiting[ob_lock[o]] = Cardinality(Askers(o)) + Taken(o)
        BY <1>0, ConstantAssumption DEF Sound, Counts
      <4>3. Taken(o) \in {0, 1} BY DEF Taken
      <4>4. Cardinality(Askers(o)) \in Nat BY AskersFinite
      <4>5. waiting'[ob_lock'[o]] = Cardinality(Askers(o)') + Taken(o)'
        BY <2>2, <2>3, <4>1, <4>2, <4>3, <4>4
      <4> QED BY <3>1, <4>5
    <3>2. CASE p # o
      BY <1>0, <1>1, <2>4, <2>5, <3>2, ConstantAssumption DEF Sound, Counts, Places, TypeInv, TypeOK
    <3> QED BY <3>1, <3>2
  <2>6. ASSUME NEW u \in Thread, pc'[u] = "done_take" PROVE waiting'[pl'[u]] = 1
    BY <1>0, <1>1, <2>6 DEF TypeInv, TypeOK
  <2> QED BY <2>5, <2>6 DEF Counts
<1>6. Idents'
  BY <1>0, <1>1, ConstantAssumption DEF Sound, Idents, Places, TypeInv, TypeOK
<1>7. Mutexes'
  <2>1. ASSUME NEW u \in Thread PROVE ref_mutex' = u <=> pc'[u] = "lazy_decr"
    BY <1>0, ConstantAssumption DEF Sound, Mutexes, TypeInv, TypeOK
  <2>2. ASSUME NEW u \in Thread
        PROVE  pool_mutex' = u <=> pc'[u] \in {"lock_incr", "lock_check", "done_take"}
    BY <1>0, ConstantAssumption DEF Sound, Mutexes, TypeInv, TypeOK
  <2> QED BY <2>1, <2>2 DEF Mutexes
<1>8. Ready'
  BY <1>0, <1>1, ConstantAssumption DEF Sound, Ready, Places, TypeInv, TypeOK
<1> QED BY <1>2, <1>3, <1>4, <1>5, <1>6, <1>7, <1>8 DEF Sound

\* "deadlock detected": the caller asks no more.
LEMMA InvLockDeadlock ==
  ASSUME TypeInv, Sound, NEW t \in Thread,
         LockDeadlock(t)
  PROVE  Sound'
<1>9. PICK o \in Object : ob[t] = o
  BY DEF LockDeadlock, Goto, Sound, Operand, Mutexes, AskPCs
<1>0. /\ pc[t] = "lock_check" /\ ob[t] = o /\ ob_lock[o] \in Lock
      /\ pl[t] = ob_lock[o]
      /\ pc' = [pc EXCEPT ![t] = "idle"]
      /\ pool_mutex = t /\ pool_mutex' = NULL
      /\ waiting' = [waiting EXCEPT ![ob_lock[o]] = @ - 1]
      /\ UNCHANGED <<ob_lock, queue, allocated, thread_id, owner,
                     ref_mutex, ob, pl, reg, held>>
  BY <1>9 DEF LockDeadlock, Goto, Sound, Operand, Mutexes, AskPCs
<1>1. \A u \in Thread : pc[u] # "done_take"
  BY <1>0, ConstantAssumption DEF Sound, Mutexes
<1>2. Operand'
  BY <1>0, <1>1 DEF Sound, Operand, AskPCs, HasPCs, LeavePCs, TypeInv, TypeOK
<1>3. Places'
  BY <1>0, <1>1 DEF Sound, Places, TypeInv, TypeOK
<1>4. Exclusion'
  BY <1>0, <1>1, ConstantAssumption DEF Sound, Exclusion, Operand, Places, Occupies, Has, Leaves, HasPCs, LeavePCs, TypeInv, TypeOK
<1>5. Counts'
  <2>1. Askers(o)' = Askers(o) \ {t} /\ t \in Askers(o)
    BY <1>0, <1>1 DEF Askers, Asks, AskPCs, TypeInv, TypeOK
  <2>2. Cardinality(Askers(o)') = Cardinality(Askers(o)) - 1
    BY <2>1, AskersFinite, FS_RemoveElement
  <2>3. Taken(o)' = Taken(o)
    BY <1>0 DEF Taken, Occupies, Has, Leaves, HasPCs, LeavePCs, TypeInv, TypeOK
  <2>4. ASSUME NEW p \in Object, p # o
        PROVE  Askers(p)' = Askers(p) /\ Taken(p)' = Taken(p)
    BY <1>0, <2>4 DEF Askers, Asks, AskPCs, Taken, Has, HasPCs, TypeInv, TypeOK
  <2>5. ASSUME NEW p \in Object, ob_lock'[p] # NULL
        PROVE  waiting'[ob_lock'[p]] = Cardinality(Askers(p)') + Taken(p)'
    <3>1. CASE p = o
      <4>1. waiting'[ob_lock'[o]] = waiting[ob_lock[o]] - 1
        BY <1>0 DEF TypeInv, TypeOK
      <4>2. waiting[ob_lock[o]] = Cardinality(Askers(o)) + Taken(o)
        BY <1>0, ConstantAssumption DEF Sound, Counts
      <4>3. Taken(o) \in {0, 1} BY DEF Taken
      <4>4. Cardinality(Askers(o)) \in Nat BY AskersFinite
      <4>5. waiting'[ob_lock'[o]] = Cardinality(Askers(o)') + Taken(o)'
        BY <2>2, <2>3, <4>1, <4>2, <4>3, <4>4
      <4> QED BY <3>1, <4>5
    <3>2. CASE p # o
      BY <1>0, <1>1, <2>4, <2>5, <3>2, ConstantAssumption DEF Sound, Counts, Places, TypeInv, TypeOK
    <3> QED BY <3>1, <3>2
  <2>6. ASSUME NEW u \in Thread, pc'[u] = "done_take" PROVE waiting'[pl'[u]] = 1
    BY <1>0, <1>1, <2>6 DEF TypeInv, TypeOK
  <2> QED BY <2>5, <2>6 DEF Counts
<1>6. Idents'
  BY <1>0, <1>1, ConstantAssumption DEF Sound, Idents, Places, TypeInv, TypeOK
<1>7. Mutexes'
  <2>1. ASSUME NEW u \in Thread PROVE ref_mutex' = u <=> pc'[u] = "lazy_decr"
    BY <1>0, ConstantAssumption DEF Sound, Mutexes, TypeInv, TypeOK
  <2>2. ASSUME NEW u \in Thread
        PROVE  pool_mutex' = u <=> pc'[u] \in {"lock_incr", "lock_check", "done_take"}
    BY <1>0, ConstantAssumption DEF Sound, Mutexes, TypeInv, TypeOK
  <2> QED BY <2>1, <2>2 DEF Mutexes
<1>8. Ready'
  BY <1>0, <1>1, ConstantAssumption DEF Sound, Ready, Places, TypeInv, TypeOK
<1> QED BY <1>2, <1>3, <1>4, <1>5, <1>6, <1>7, <1>8 DEF Sound

\* Not the holder: the caller goes on to wait for an object it does not have.
LEMMA InvLockNoDeadlock ==
  ASSUME TypeInv, Sound, NEW t \in Thread,
         LockNoDeadlock(t)
  PROVE  Sound'
<1>9. PICK o \in Object : ob[t] = o
  BY DEF LockNoDeadlock, IsHolder, Goto, Sound, Operand, Mutexes, AskPCs
<1>0. /\ pc[t] = "lock_check" /\ ob[t] = o /\ ob_lock[o] \in Lock
      /\ pl[t] = ob_lock[o] /\ thread_id[ob_lock[o]] # t
      /\ pc' = [pc EXCEPT ![t] = "lock_wait"]
      /\ pool_mutex = t /\ pool_mutex' = NULL
      /\ UNCHANGED <<ob_lock, queue, allocated, waiting, thread_id, owner,
                     ref_mutex, ob, pl, reg, held>>
  BY <1>9 DEF LockNoDeadlock, IsHolder, Goto, Sound, Operand, Mutexes, AskPCs
<1>1. o \notin held[t]
  BY <1>0, ConstantAssumption DEF Sound, Idents
<1>2. Operand'
  BY <1>0, <1>1 DEF Sound, Operand, AskPCs, HasPCs, LeavePCs, TypeInv, TypeOK
<1>3. Places'
  BY <1>0, <1>1 DEF Sound, Places, TypeInv, TypeOK
<1>4. Exclusion'
  BY <1>0, <1>1, ConstantAssumption DEF Sound, Exclusion, Operand, Places, Occupies, Has, Leaves, HasPCs, LeavePCs, TypeInv, TypeOK
<1>5. Counts'
  <2>3. Askers(o)' = Askers(o) /\ Taken(o)' = Taken(o)
    BY <1>0 DEF Askers, Asks, AskPCs, Taken, Occupies, Has, Leaves, HasPCs, LeavePCs, TypeInv, TypeOK
  <2>4. ASSUME NEW p \in Object, p # o
        PROVE  Askers(p)' = Askers(p) /\ Taken(p)' = Taken(p)
    BY <1>0, <2>4 DEF Askers, Asks, AskPCs, Taken, Has, HasPCs, TypeInv, TypeOK
  <2>5. ASSUME NEW p \in Object, ob_lock'[p] # NULL
        PROVE  waiting'[ob_lock'[p]] = Cardinality(Askers(p)') + Taken(p)'
    <3>1. CASE p = o
      <4>1. waiting'[ob_lock'[o]] = waiting[ob_lock[o]]
        BY <1>0 DEF TypeInv, TypeOK
      <4>2. waiting[ob_lock[o]] = Cardinality(Askers(o)) + Taken(o)
        BY <1>0, ConstantAssumption DEF Sound, Counts
      <4>3. Taken(o) \in {0, 1} BY DEF Taken
      <4>4. Cardinality(Askers(o)) \in Nat BY AskersFinite
      <4>5. waiting'[ob_lock'[o]] = Cardinality(Askers(o)') + Taken(o)'
        BY <2>3, <4>1, <4>2, <4>3, <4>4
      <4> QED BY <3>1, <4>5
    <3>2. CASE p # o
      BY <1>0, <1>1, <2>4, <2>5, <3>2, ConstantAssumption DEF Sound, Counts, Places, TypeInv, TypeOK
    <3> QED BY <3>1, <3>2
  <2>6. ASSUME NEW u \in Thread, pc'[u] = "done_take" PROVE waiting'[pl'[u]] = 1
    BY <1>0, <1>1, <2>6 DEF Sound, Counts, TypeInv, TypeOK
  <2> QED BY <2>5, <2>6 DEF Counts
<1>6. Idents'
  BY <1>0, <1>1, ConstantAssumption DEF Sound, Idents, Places, TypeInv, TypeOK
<1>7. Mutexes'
  <2>1. ASSUME NEW u \in Thread PROVE ref_mutex' = u <=> pc'[u] = "lazy_decr"
    BY <1>0, ConstantAssumption DEF Sound, Mutexes, TypeInv, TypeOK
  <2>2. ASSUME NEW u \in Thread
        PROVE  pool_mutex' = u <=> pc'[u] \in {"lock_incr", "lock_check", "done_take"}
    BY <1>0, ConstantAssumption DEF Sound, Mutexes, TypeInv, TypeOK
  <2> QED BY <2>1, <2>2 DEF Mutexes
<1>8. Ready'
  BY <1>0, <1>1, ConstantAssumption DEF Sound, Ready, Places, TypeInv, TypeOK
<1> QED BY <1>2, <1>3, <1>4, <1>5, <1>6, <1>7, <1>8 DEF Sound

\* The lock is granted: the caller's identity is recorded.
LEMMA InvLockReturn ==
  ASSUME TypeInv, Sound, NEW t \in Thread,
         LockReturn(t)
  PROVE  Sound'
<1>9. PICK o \in Object : ob[t] = o
  BY DEF LockReturn, SetId, Goto, Sound, Operand, HasPCs
<1>0. /\ pc[t] = "lock_own" /\ ob[t] = o /\ ob_lock[o] \in Lock
      /\ pl[t] = ob_lock[o] /\ o \notin held[t]
      /\ pc' = [pc EXCEPT ![t] = "idle"]
      /\ thread_id' = [thread_id EXCEPT ![ob_lock[o]] = t]
      /\ held' = [held EXCEPT ![t] = @ \cup {o}]
      /\ UNCHANGED <<ob_lock, queue, allocated, waiting, owner, pool_mutex,
                     ref_mutex, ob, pl, reg>>
  BY <1>9 DEF LockReturn, SetId, Goto, Sound, Operand, HasPCs
<1>1. \A u \in Thread : Occupies(u, o) => u = t
  BY <1>0 DEF Sound, Exclusion, Occupies, Has, HasPCs
<1>2. Operand'
  BY <1>0, <1>1 DEF Sound, Operand, AskPCs, HasPCs, LeavePCs, TypeInv, TypeOK
<1>3. Places'
  BY <1>0, <1>1 DEF Sound, Places, TypeInv, TypeOK
<1>4. Exclusion'
  BY <1>0, <1>1, ConstantAssumption DEF Sound, Exclusion, Operand, Places, Occupies, Has, Leaves, HasPCs, LeavePCs, TypeInv, TypeOK
<1>5. Counts'
  <2>3. Askers(o)' = Askers(o) /\ Taken(o)' = Taken(o)
    BY <1>0 DEF Askers, Asks, AskPCs, Taken, Occupies, Has, Leaves, HasPCs, LeavePCs, TypeInv, TypeOK
  <2>4. ASSUME NEW p \in Object, p # o
        PROVE  Askers(p)' = Askers(p) /\ Taken(p)' = Taken(p)
    BY <1>0, <2>4 DEF Askers, Asks, AskPCs, Taken, Has, HasPCs, TypeInv, TypeOK
  <2>5. ASSUME NEW p \in Object, ob_lock'[p] # NULL
        PROVE  waiting'[ob_lock'[p]] = Cardinality(Askers(p)') + Taken(p)'
    <3>1. CASE p = o
      <4>1. waiting'[ob_lock'[o]] = waiting[ob_lock[o]]
        BY <1>0 DEF TypeInv, TypeOK
      <4>2. waiting[ob_lock[o]] = Cardinality(Askers(o)) + Taken(o)
        BY <1>0, ConstantAssumption DEF Sound, Counts
      <4>3. Taken(o) \in {0, 1} BY DEF Taken
      <4>4. Cardinality(Askers(o)) \in Nat BY AskersFinite
      <4>5. waiting'[ob_lock'[o]] = Cardinality(Askers(o)') + Taken(o)'
        BY <2>3, <4>1, <4>2, <4>3, <4>4
      <4> QED BY <3>1, <4>5
    <3>2. CASE p # o
      BY <1>0, <1>1, <2>4, <2>5, <3>2, ConstantAssumption DEF Sound, Counts, Places, TypeInv, TypeOK
    <3> QED BY <3>1, <3>2
  <2>6. ASSUME NEW u \in Thread, pc'[u] = "done_take" PROVE waiting'[pl'[u]] = 1
    BY <1>0, <1>1, <2>6 DEF Sound, Counts, TypeInv, TypeOK
  <2> QED BY <2>5, <2>6 DEF Counts
<1>6. Idents'
  BY <1>0, <1>1, ConstantAssumption DEF Sound, Idents, Places, Occupies, Has, Leaves, HasPCs, LeavePCs, TypeInv, TypeOK
<1>7. Mutexes'
  <2>1. ASSUME NEW u \in Thread PROVE ref_mutex' = u <=> pc'[u] = "lazy_decr"
    BY <1>0, ConstantAssumption DEF Sound, Mutexes, TypeInv, TypeOK
  <2>2. ASSUME NEW u \in Thread
        PROVE  pool_mutex' = u <=> pc'[u] \in {"lock_incr", "lock_check", "done_take"}
    BY <1>0, ConstantAssumption DEF Sound, Mutexes, TypeInv, TypeOK
  <2> QED BY <2>1, <2>2 DEF Mutexes
<1>8. Ready'
  BY <1>0, <1>1, ConstantAssumption DEF Sound, Ready, Places, TypeInv, TypeOK
<1> QED BY <1>2, <1>3, <1>4, <1>5, <1>6, <1>7, <1>8 DEF Sound

\* A lock taken from the queue is owned at once.
LEMMA InvLockFromPool ==
  ASSUME TypeInv, Sound, NEW t \in Thread,
         LockFromPool(t)
  PROVE  Sound'
<1>9. PICK o \in Object : ob[t] = o
  BY DEF LockFromPool, Goto, TypeInv, TypeOK, Operands
<1>0. /\ pc[t] = "lock" /\ ob[t] = o /\ ob_lock[o] = NULL /\ queue # <<>>
      /\ pool_mutex = NULL
      /\ pc' = [pc EXCEPT ![t] = "lock_own"]
      /\ pl' = [pl EXCEPT ![t] = Head(queue)]
      /\ ob_lock' = [ob_lock EXCEPT ![o] = Head(queue)]
      /\ queue' = Tail(queue)
      /\ UNCHANGED <<allocated, waiting, thread_id, owner, pool_mutex,
                     ref_mutex, ob, reg, held>>
  BY <1>9 DEF LockFromPool, Goto, TypeInv, TypeOK, Operands
<1>1. /\ Head(queue) \in Lock /\ Head(queue) # NULL
      /\ Head(queue) \in allocated
      /\ waiting[Head(queue)] = 1
      /\ owner[Head(queue)] # NULL
      /\ thread_id[Head(queue)] = NULL
      /\ \A p \in Object : ob_lock[p] # Head(queue)
  <2>1. 1 \in 1 .. Len(queue) /\ Head(queue) = queue[1] /\ queue[1] \in Lock
    BY <1>0 DEF TypeInv, TypeOK
  <2> QED BY <2>1, ConstantAssumption DEF Sound, Places, Ready
<1>10. /\ Tail(queue) \in Seq(Lock)
       /\ \A i \in 1 .. Len(Tail(queue)) :
            /\ i + 1 \in 1 .. Len(queue) /\ i + 1 # 1 /\ 1 \in 1 .. Len(queue)
            /\ Tail(queue)[i] = queue[i + 1] /\ Head(queue) = queue[1]
  BY <1>0 DEF TypeInv, TypeOK
<1>11. \A u \in Thread : ~Occupies(u, o) /\ ~Asks(u, o)
  BY <1>0, ConstantAssumption DEF Sound, Operand, Occupies, Asks, Has, Leaves, AskPCs, HasPCs, LeavePCs
<1>12. \A u \in Thread : /\ o \notin held[u]
                         /\ pc[u] \in AskPCs \cup HasPCs \cup LeavePCs => ob[u] # o
  BY <1>11 DEF Occupies, Has, Leaves, Asks
<1>13. \A u \in Thread : pc[u] # "lock_incr"
  BY <1>0, ConstantAssumption DEF Sound, Mutexes
<1>2. Operand'
  BY <1>13, <1>0, <1>1, <1>12 DEF Sound, Operand, AskPCs, HasPCs, LeavePCs, TypeInv, TypeOK
<1>3. Places'
  <2>1. /\ \A p, q \in Object : ob_lock'[p] # NULL /\ ob_lock'[p] = ob_lock'[q] => p = q
        /\ \A p \in Object : ob_lock'[p] # NULL => ob_lock'[p] \in allocated'
    BY <1>0, <1>1 DEF Sound, Places, TypeInv, TypeOK
  <2>2. ASSUME NEW i \in 1 .. Len(queue')
        PROVE  /\ queue'[i] \in allocated'
               /\ \A p \in Object : ob_lock'[p] # queue'[i]
               /\ \A j \in 1 .. Len(queue') : queue'[i] = queue'[j] => i = j
    <3>1. queue'[i] = queue[i + 1] /\ i + 1 \in 1 .. Len(queue) /\ i + 1 # 1
      BY <1>0, <1>10
    <3>2. queue[i + 1] # Head(queue)
      BY <3>1, <1>10 DEF Sound, Places
    <3>3. \A p \in Object : ob_lock'[p] # queue'[i]
      BY <1>0, <3>1, <3>2 DEF Sound, Places, TypeInv, TypeOK
    <3>4. ASSUME NEW j \in 1 .. Len(queue'), queue'[i] = queue'[j] PROVE i = j
      <4>1. queue'[j] = queue[j + 1] /\ j + 1 \in 1 .. Len(queue)
        BY <1>0, <1>10
      <4>2. i + 1 = j + 1 BY <3>1, <3>4, <4>1 DEF Sound, Places
      <4>3. i \in Int /\ j \in Int OBVIOUS
      <4> QED BY <4>2, <4>3
    <3>5. queue'[i] \in allocated' BY <1>0, <3>1 DEF Sound, Places
    <3> QED BY <3>3, <3>4, <3>5
  <2> QED BY <2>1, <2>2 DEF Places
<1>4. Exclusion'
  BY <1>0, <1>1, <1>11, ConstantAssumption DEF Sound, Exclusion, Operand, Places, Occupies, Has, Leaves, HasPCs, LeavePCs, TypeInv, TypeOK
<1>5. Counts'
  <2>1. Askers(o)' = {}
    BY <1>0, <1>1, <1>11 DEF Askers, Asks, AskPCs, TypeInv, TypeOK
  <2>2. Cardinality(Askers(o)') = 0
    BY <2>1, FS_EmptySet
  <2>3. Taken(o)' = 1
    BY <1>0, <1>1, <1>11 DEF Taken, Occupies, Has, Leaves, HasPCs, LeavePCs, TypeInv, TypeOK
  <2>4. ASSUME NEW p \in Object, p # o
        PROVE  Askers(p)' = Askers(p) /\ Taken(p)' = Taken(p)
    BY <1>0, <2>4 DEF Askers, Asks, AskPCs, Taken, Has, HasPCs, TypeInv, TypeOK
  <2>5. ASSUME NEW p \in Object, ob_lock'[p] # NULL
        PROVE  waiting'[ob_lock'[p]] = Cardinality(Askers(p)') + Taken(p)'
    <3>1. CASE p = o
      <4>1. waiting'[ob_lock'[o]] = 1
        BY <1>0, <1>1, <1>11 DEF TypeInv, TypeOK
      <4>2. waiting'[ob_lock'[o]] = Cardinality(Askers(o)') + Taken(o)'
        BY <2>2, <2>3, <4>1
      <4> QED BY <3>1, <4>2
    <3>2. CASE p # o
      BY <1>0, <1>1, <1>11, <2>4, <2>5, <3>2, ConstantAssumption DEF Sound, Counts, Places, TypeInv, TypeOK
    <3> QED BY <3>1, <3>2
  <2>6. ASSUME NEW u \in Thread, pc'[u] = "done_take" PROVE waiting'[pl'[u]] = 1
    BY <1>0, <1>1, <1>11, <2>6 DEF Sound, Counts, TypeInv, TypeOK
  <2> QED BY <2>5, <2>6 DEF Counts
<1>6. Idents'
  BY <1>0, <1>1, <1>12, ConstantAssumption DEF Sound, Idents, TypeInv, TypeOK
<1>7. Mutexes'
  <2>1. ASSUME NEW u \in Thread PROVE ref_mutex' = u <=> pc'[u] = "lazy_decr"
    BY <1>0, ConstantAssumption DEF Sound, Mutexes, TypeInv, TypeOK
  <2>2. ASSUME NEW u \in Thread
        PROVE  pool_mutex' = u <=> pc'[u] \in {"lock_incr", "lock_check", "done_take"}
    BY <1>0, ConstantAssumption DEF Sound, Mutexes, TypeInv, TypeOK
  <2> QED BY <2>1, <2>2 DEF Mutexes
<1>8. Ready'
  <2>1. ASSUME NEW i \in 1 .. Len(queue')
        PROVE  queue'[i] = queue[i + 1] /\ i + 1 \in 1 .. Len(queue)
    BY <1>0, <1>10
  <2> QED BY <1>0, <2>1 DEF Sound, Ready
<1> QED BY <1>2, <1>3, <1>4, <1>5, <1>6, <1>7, <1>8 DEF Sound

\* A new lock: its mutex is free and its creator asks for it.
LEMMA InvLockMalloc ==
  ASSUME TypeInv, Sound, NEW t \in Thread,
         NEW l \in Lock, LockMalloc(t, l)
  PROVE  Sound'
<1>9. PICK o \in Object : ob[t] = o
  BY DEF LockMalloc, Goto, TypeInv, TypeOK, Operands
<1>0. /\ pc[t] = "lock" /\ ob[t] = o /\ ob_lock[o] = NULL /\ queue = <<>>
      /\ pool_mutex = NULL /\ l \notin allocated
      /\ allocated' = allocated \cup {l}
      /\ pc' = [pc EXCEPT ![t] = "lock_wait"]
      /\ pl' = [pl EXCEPT ![t] = l]
      /\ ob_lock' = [ob_lock EXCEPT ![o] = l]
      /\ waiting' = [waiting EXCEPT ![l] = 1]
      /\ thread_id' = [thread_id EXCEPT ![l] = NULL]
      /\ owner' = [owner EXCEPT ![l] = NULL]
      /\ UNCHANGED <<queue, pool_mutex, ref_mutex, ob, reg, held>>
  BY <1>9 DEF LockMalloc, Goto, TypeInv, TypeOK, Operands
<1>1. l # NULL /\ \A p \in Object : ob_lock[p] # l
  BY <1>0, ConstantAssumption DEF Sound, Places
<1>11. \A u \in Thread : ~Occupies(u, o) /\ ~Asks(u, o)
  BY <1>0, ConstantAssumption DEF Sound, Operand, Occupies, Asks, Has, Leaves, AskPCs, HasPCs, LeavePCs
<1>12. \A u \in Thread : /\ o \notin held[u]
                         /\ pc[u] \in AskPCs \cup HasPCs \cup LeavePCs => ob[u] # o
  BY <1>11 DEF Occupies, Has, Leaves, Asks
<1>13. \A u \in Thread : pc[u] # "lock_incr"
  BY <1>0, ConstantAssumption DEF Sound, Mutexes
<1>2. Operand'
  BY <1>13, <1>0, <1>1, <1>12 DEF Sound, Operand, AskPCs, HasPCs, LeavePCs, TypeInv, TypeOK
<1>3. Places'
  BY <1>0, <1>1 DEF Sound, Places, TypeInv, TypeOK
<1>4. Exclusion'
  BY <1>0, <1>1, <1>11, ConstantAssumption DEF Sound, Exclusion, Operand, Places, Occupies, Has, Leaves, HasPCs, LeavePCs, TypeInv, TypeOK
<1>5. Counts'
  <2>1. Askers(o)' = {t}
    BY <1>0, <1>1, <1>11 DEF Askers, Asks, AskPCs, TypeInv, TypeOK
  <2>2. Cardinality(Askers(o)') = 1
    BY <2>1, FS_Singleton
  <2>3. Taken(o)' = 0
    BY <1>0, <1>1, <1>11 DEF Taken, Occupies, Has, Leaves, HasPCs, LeavePCs, TypeInv, TypeOK
  <2>4. ASSUME NEW p \in Object, p # o
        PROVE  Askers(p)' = Askers(p) /\ Taken(p)' = Taken(p)
    BY <1>0, <2>4 DEF Askers, Asks, AskPCs, Taken, Has, HasPCs, TypeInv, TypeOK
  <2>5. ASSUME NEW p \in Object, ob_lock'[p] # NULL
        PROVE  waiting'[ob_lock'[p]] = Cardinality(Askers(p)') + Taken(p)'
    <3>1. CASE p = o
      <4>1. waiting'[ob_lock'[o]] = 1
        BY <1>0, <1>1, <1>11 DEF TypeInv, TypeOK
      <4>2. waiting'[ob_lock'[o]] = Cardinality(Askers(o)') + Taken(o)'
        BY <2>2, <2>3, <4>1
      <4> QED BY <3>1, <4>2
    <3>2. CASE p # o
      BY <1>0, <1>1, <1>11, <2>4, <2>5, <3>2, ConstantAssumption DEF Sound, Counts, Places, TypeInv, TypeOK
    <3> QED BY <3>1, <3>2
  <2>6. ASSUME NEW u \in Thread, pc'[u] = "done_take" PROVE waiting'[pl'[u]] = 1
    <3>1. u # t /\ pc[u] = "done_take" BY <1>0, <2>6 DEF TypeInv, TypeOK
    <3>2. pl[u] # l BY <1>1, <3>1 DEF Sound, Operand, AskPCs
    <3> QED BY <1>0, <3>1, <3>2 DEF Sound, Counts, TypeInv, TypeOK
  <2> QED BY <2>5, <2>6 DEF Counts
<1>6. Idents'
  BY <1>0, <1>1, <1>12, ConstantAssumption DEF Sound, Idents, TypeInv, TypeOK
<1>7. Mutexes'
  <2>1. ASSUME NEW u \in Thread PROVE ref_mutex' = u <=> pc'[u] = "lazy_decr"
    BY <1>0, ConstantAssumption DEF Sound, Mutexes, TypeInv, TypeOK
  <2>2. ASSUME NEW u \in Thread
        PROVE  pool_mutex' = u <=> pc'[u] \in {"lock_incr", "lock_check", "done_take"}
    BY <1>0, ConstantAssumption DEF Sound, Mutexes, TypeInv, TypeOK
  <2> QED BY <2>1, <2>2 DEF Mutexes
<1>8. Ready'
  BY <1>0 DEF Ready, TypeInv, TypeOK
<1> QED BY <1>2, <1>3, <1>4, <1>5, <1>6, <1>7, <1>8 DEF Sound

\* Unlock or LazyUnlock is called: the caller still has the object.
LEMMA InvReleaseCall ==
  ASSUME TypeInv, Sound, NEW t \in Thread,
         NEW o \in Object, NEW to \in {"unlock", "lazy"},
         pc[t] = "idle", o \in held[t],
         pc' = [pc EXCEPT ![t] = IF ob_lock[o] = NULL THEN "segv" ELSE to],
         ob' = [ob EXCEPT ![t] = o],
         pl' = [pl EXCEPT ![t] = ob_lock[o]],
         held' = [held EXCEPT ![t] = @ \ {o}],
         UNCHANGED <<ob_lock, queue, allocated, waiting, thread_id, owner, pool_mutex, ref_mutex, reg>>
  PROVE  Sound'
<1>0. /\ pc[t] = "idle" /\ o \in held[t] /\ ob_lock[o] \in Lock
      /\ pc' = [pc EXCEPT ![t] = to]
      /\ ob' = [ob EXCEPT ![t] = o]
      /\ pl' = [pl EXCEPT ![t] = ob_lock[o]]
      /\ held' = [held EXCEPT ![t] = @ \ {o}]
      /\ UNCHANGED <<ob_lock, queue, allocated, waiting, thread_id, owner, pool_mutex, ref_mutex, reg>>
  BY ConstantAssumption DEF Sound, Operand
<1>1. thread_id[ob_lock[o]] = t
  BY <1>0, ConstantAssumption DEF Sound, Idents
<1>10. \A u \in Thread, p \in Object : Occupies(u, p)' <=> Occupies(u, p)
  BY <1>0 DEF Occupies, Has, Leaves, HasPCs, LeavePCs, TypeInv, TypeOK
<1>2. Operand'
  BY <1>0, <1>1 DEF Sound, Operand, AskPCs, HasPCs, LeavePCs, TypeInv, TypeOK
<1>3. Places'
  BY <1>0, <1>1 DEF Sound, Places, TypeInv, TypeOK
<1>4. Exclusion'
  BY <1>0, <1>10 DEF Sound, Exclusion
<1>5. Counts'
  <2>1. \A p \in Object : Askers(p)' = Askers(p) /\ Taken(p)' = Taken(p)
    BY <1>0, <1>1 DEF Askers, Asks, AskPCs, Taken, Has, HasPCs, TypeInv, TypeOK
  <2>2. \A u \in Thread : pc'[u] = "done_take" => pc[u] = "done_take" /\ pl'[u] = pl[u]
    BY <1>0 DEF TypeInv, TypeOK
  <2> QED BY <1>0, <2>1, <2>2 DEF Sound, Counts
<1>6. Idents'
  BY <1>0, <1>1, ConstantAssumption DEF Sound, Idents, Places, TypeInv, TypeOK
<1>7. Mutexes'
  <2>1. ASSUME NEW u \in Thread PROVE ref_mutex' = u <=> pc'[u] = "lazy_decr"
    BY <1>0, ConstantAssumption DEF Sound, Mutexes, TypeInv, TypeOK
  <2>2. ASSUME NEW u \in Thread
        PROVE  pool_mutex' = u <=> pc'[u] \in {"lock_incr", "lock_check", "done_take"}
    BY <1>0, ConstantAssumption DEF Sound, Mutexes, TypeInv, TypeOK
  <2> QED BY <2>1, <2>2 DEF Mutexes
<1>8. Ready'
  BY <1>0, <1>1, ConstantAssumption DEF Sound, Ready, Places, TypeInv, TypeOK
<1> QED BY <1>2, <1>3, <1>4, <1>5, <1>6, <1>7, <1>8 DEF Sound

\* Nobody asks for the object: its lock goes to the pool, ready to be taken.
LEMMA InvUnlockLast ==
  ASSUME TypeInv, Sound, NEW t \in Thread,
         UnlockLast(t)
  PROVE  Sound'
<1>9. PICK o \in Object : ob[t] = o
  BY DEF UnlockLast, NoWaiters, ToPool, ClearId, Goto, Sound, Operand, HasPCs
<1>0. /\ pc[t] = "unlock" /\ ob[t] = o /\ ob_lock[o] \in Lock
      /\ pl[t] = ob_lock[o] /\ o \notin held[t] /\ waiting[ob_lock[o]] = 1
      /\ pool_mutex = NULL
      /\ pc' = [pc EXCEPT ![t] = "idle"]
      /\ queue' = <<pl[t]>> \o queue
      /\ ob_lock' = [ob_lock EXCEPT ![o] = NULL]
      /\ thread_id' = [thread_id EXCEPT ![pl[t]] = NULL]
      /\ UNCHANGED <<allocated, waiting, owner, pool_mutex, ref_mutex,
                     ob, pl, reg, held>>
  BY <1>9 DEF UnlockLast, NoWaiters, ToPool, ClearId, Goto, Sound, Operand, HasPCs
<1>1. /\ owner[pl[t]] # NULL
      /\ \A u \in Thread : Occupies(u, o) => u = t
  <2>1. Occupies(t, o) BY <1>0 DEF Occupies, Has, HasPCs
  <2> QED BY <1>0, <2>1 DEF Sound, Exclusion
<1>11. \A u \in Thread : ~Asks(u, o)
  <2>1. Taken(o) = 1 BY <1>0 DEF Taken, Has, HasPCs
  <2>2. 1 = Cardinality(Askers(o)) + Taken(o)
    BY <1>0, ConstantAssumption DEF Sound, Counts
  <2>3. IsFiniteSet(Askers(o)) /\ Cardinality(Askers(o)) \in Nat BY AskersFinite
  <2>4. Cardinality(Askers(o)) = 0 BY <2>1, <2>2, <2>3
  <2>5. Askers(o) = {} BY <2>3, <2>4, FS_EmptySet
  <2> QED BY <2>5 DEF Askers
<1>12. \A u \in Thread : /\ o \notin held'[u]
                         /\ pc'[u] \in AskPCs \cup HasPCs \cup LeavePCs => ob'[u] # o
  BY <1>0, <1>1, <1>11 DEF Asks, Occupies, Has, Leaves, AskPCs, HasPCs, LeavePCs, TypeInv, TypeOK
<1>10. /\ Len(queue') = Len(queue) + 1 /\ queue'[1] = pl[t]
       /\ \A i \in 2 .. Len(queue') : i - 1 \in 1 .. Len(queue) /\ queue'[i] = queue[i - 1]
  BY <1>0 DEF TypeInv, TypeOK
<1>13. \A u \in Thread : pc[u] # "lock_incr"
  BY <1>0, ConstantAssumption DEF Sound, Mutexes
<1>2. Operand'
  BY <1>13, <1>0, <1>12 DEF Sound, Operand, AskPCs, HasPCs, LeavePCs, TypeInv, TypeOK
<1>3. Places'
  <2>1. /\ \A p, q \in Object : ob_lock'[p] # NULL /\ ob_lock'[p] = ob_lock'[q] => p = q
        /\ \A p \in Object : ob_lock'[p] # NULL => ob_lock'[p] \in allocated'
    BY <1>0 DEF Sound, Places, TypeInv, TypeOK
  <2>2. /\ pl[t] \in allocated
        /\ \A p \in Object : ob_lock'[p] # pl[t]
        /\ \A i \in 1 .. Len(queue) : queue[i] # pl[t]
    BY <1>0, ConstantAssumption DEF Sound, Places, TypeInv, TypeOK
  <2>3. ASSUME NEW i \in 1 .. Len(queue')
        PROVE  /\ queue'[i] \in allocated'
               /\ \A p \in Object : ob_lock'[p] # queue'[i]
    <3>1. CASE i = 1 BY <1>0, <1>10, <2>2, <3>1
    <3>2. CASE i # 1
      <4>1. i \in 2 .. Len(queue') BY <3>2
      <4>2. i - 1 \in 1 .. Len(queue) /\ queue'[i] = queue[i - 1] BY <1>10, <4>1
      <4>3. queue[i - 1] \in allocated /\ \A p \in Object : ob_lock[p] # queue[i - 1]
        BY <4>2 DEF Sound, Places
      <4>4. queue[i - 1] # NULL BY <4>3, ConstantAssumption DEF TypeInv, TypeOK
      <4> QED BY <1>0, <4>2, <4>3, <4>4 DEF TypeInv, TypeOK
    <3> QED BY <3>1, <3>2
  <2>4. ASSUME NEW i \in 1 .. Len(queue'), NEW j \in 1 .. Len(queue'),
               queue'[i] = queue'[j]
        PROVE  i = j
    <3>1. \A k \in 1 .. Len(queue') : k = 1 \/ k \in 2 .. Len(queue')
      OBVIOUS
    <3>2. \A k \in 2 .. Len(queue') : queue'[k] # queue'[1]
      BY <1>10, <2>2
    <3>3. ASSUME i \in 2 .. Len(queue'), j \in 2 .. Len(queue') PROVE i = j
      <4>1. i - 1 = j - 1 BY <1>10, <2>4, <3>3 DEF Sound, Places
      <4>2. i \in Int /\ j \in Int OBVIOUS
      <4> QED BY <4>1, <4>2
    <3> QED BY <2>4, <3>1, <3>2, <3>3
  <2> QED BY <2>1, <2>3, <2>4 DEF Places
<1>4. Exclusion'
  BY <1>0, <1>12, ConstantAssumption DEF Sound, Exclusion, Operand, Places, Occupies, Has, Leaves, HasPCs, LeavePCs, TypeInv, TypeOK
<1>5. Counts'
  <2>4. ASSUME NEW p \in Object, p # o
        PROVE  Askers(p)' = Askers(p) /\ Taken(p)' = Taken(p)
    BY <1>0, <2>4 DEF Askers, Asks, AskPCs, Taken, Has, HasPCs, TypeInv, TypeOK
  <2>5. ASSUME NEW p \in Object, ob_lock'[p] # NULL
        PROVE  waiting'[ob_lock'[p]] = Cardinality(Askers(p)') + Taken(p)'
    <3>1. CASE p = o BY <1>0, <2>5, <3>1 DEF TypeInv, TypeOK
    <3>2. CASE p # o
      BY <1>0, <1>12, <2>4, <2>5, <3>2, ConstantAssumption DEF Sound, Counts, Places, TypeInv, TypeOK
    <3> QED BY <3>1, <3>2
  <2>6. ASSUME NEW u \in Thread, pc'[u] = "done_take" PROVE waiting'[pl'[u]] = 1
    BY <1>0, <1>12, <2>6 DEF Sound, Counts, TypeInv, TypeOK
  <2> QED BY <2>5, <2>6 DEF Counts
<1>6. Idents'
  BY <1>0, <1>12, ConstantAssumption DEF Sound, Idents, Places, TypeInv, TypeOK
<1>7. Mutexes'
  <2>1. ASSUME NEW u \in Thread PROVE ref_mutex' = u <=> pc'[u] = "lazy_decr"
    BY <1>0, ConstantAssumption DEF Sound, Mutexes, TypeInv, TypeOK
  <2>2. ASSUME NEW u \in Thread
        PROVE  pool_mutex' = u <=> pc'[u] \in {"lock_incr", "lock_check", "done_take"}
    BY <1>0, ConstantAssumption DEF Sound, Mutexes, TypeInv, TypeOK
  <2> QED BY <2>1, <2>2 DEF Mutexes
<1>8. Ready'
  <2>1. ASSUME NEW i \in 1 .. Len(queue')
        PROVE  /\ waiting'[queue'[i]] = 1
               /\ owner'[queue'[i]] # NULL
               /\ thread_id'[queue'[i]] = NULL
    <3>1. CASE i = 1 BY <1>0, <1>1, <1>10, <3>1, ConstantAssumption DEF TypeInv, TypeOK
    <3>2. CASE i # 1
      <4>1. i \in 2 .. Len(queue') BY <3>2
      <4>2. i - 1 \in 1 .. Len(queue) /\ queue'[i] = queue[i - 1] BY <1>10, <4>1
      <4>3. queue[i - 1] \in Lock BY <4>2 DEF TypeInv, TypeOK
      <4>4. queue[i - 1] # pl[t]
        BY <1>0, <4>2 DEF Sound, Places
      <4> QED BY <1>0, <4>2, <4>3, <4>4 DEF Sound, Ready, TypeInv, TypeOK
    <3> QED BY <3>1, <3>2
  <2> QED BY <2>1 DEF Ready
<1> QED BY <1>2, <1>3, <1>4, <1>5, <1>6, <1>7, <1>8 DEF Sound

\* Py_SafeDecr loads the count: the caller still counts in it.
LEMMA InvLazyDecrLoad ==
  ASSUME TypeInv, Sound, NEW t \in Thread,
         LazyDecrLoad(t)
  PROVE  Sound'
<1>0. /\ pc[t] = "lazy" /\ ref_mutex = NULL /\ ref_mutex' = t
      /\ pc' = [pc EXCEPT ![t] = "lazy_decr"]
      /\ UNCHANGED <<ob_lock, queue, allocated, waiting, thread_id, owner,
                     pool_mutex, ob, pl, held>>
  BY DEF LazyDecrLoad, Goto
<1>1. \A u \in Thread, p \in Object : Occupies(u, p)' <=> Occupies(u, p)
  BY <1>0 DEF Occupies, Has, Leaves, HasPCs, LeavePCs, TypeInv, TypeOK
<1>2. Operand'
  BY <1>0, <1>1 DEF Sound, Operand, AskPCs, HasPCs, LeavePCs, TypeInv, TypeOK
<1>3. Places'
  BY <1>0 DEF Sound, Places
<1>4. Exclusion'
  BY <1>0, <1>1 DEF Sound, Exclusion
<1>5. Counts'
  <2>1. \A p \in Object : Askers(p)' = Askers(p) /\ Taken(p)' = Taken(p)
    BY <1>0 DEF Askers, Asks, AskPCs, Taken, Has, HasPCs, TypeInv, TypeOK
  <2>2. \A u \in Thread : pc'[u] = "done_take" => pc[u] = "done_take" /\ pl'[u] = pl[u]
    BY <1>0 DEF TypeInv, TypeOK
  <2> QED BY <1>0, <2>1, <2>2 DEF Sound, Counts
<1>6. Idents'
  BY <1>0, ConstantAssumption DEF Sound, Idents, TypeInv, TypeOK
<1>7. Mutexes'
  <2>1. ASSUME NEW u \in Thread PROVE ref_mutex' = u <=> pc'[u] = "lazy_decr"
    BY <1>0, ConstantAssumption DEF Sound, Mutexes, TypeInv, TypeOK
  <2>2. ASSUME NEW u \in Thread
        PROVE  pool_mutex' = u <=> pc'[u] \in {"lock_incr", "lock_check", "done_take"}
    BY <1>0, ConstantAssumption DEF Sound, Mutexes, TypeInv, TypeOK
  <2> QED BY <2>1, <2>2 DEF Mutexes
<1>8. Ready'
  BY <1>0 DEF Sound, Ready
<1> QED BY <1>2, <1>3, <1>4, <1>5, <1>6, <1>7, <1>8 DEF Sound

\* The releasing thread counts no more, but has the mutex.
LEMMA InvDecr ==
  ASSUME TypeInv, Sound, NEW t \in Thread,
         pc[t] \in {"unlock", "lazy_decr"}, NEW to \in {"unlock_clear", "lazy_clear"},
         pc' = [pc EXCEPT ![t] = to],
         waiting' = [waiting EXCEPT ![pl[t]] = @ - 1],
         UNCHANGED <<ob_lock, queue, allocated, thread_id, owner,
                     pool_mutex, ob, pl, held>>,
         ref_mutex' = IF pc[t] = "lazy_decr" THEN NULL ELSE ref_mutex,
         pc[t] = "unlock" <=> to = "unlock_clear"
  PROVE  Sound'
<1>9. PICK o \in Object : ob[t] = o
  BY DEF Sound, Operand, HasPCs
<1>0. /\ pc[t] \in {"unlock", "lazy_decr"} /\ ob[t] = o /\ ob_lock[o] \in Lock
      /\ pl[t] = ob_lock[o] /\ o \notin held[t]
      /\ pc' = [pc EXCEPT ![t] = to]
      /\ waiting' = [waiting EXCEPT ![ob_lock[o]] = @ - 1]
      /\ UNCHANGED <<ob_lock, queue, allocated, thread_id, owner,
                     pool_mutex, ob, pl, held>>
      /\ ref_mutex' = IF pc[t] = "lazy_decr" THEN NULL ELSE ref_mutex
  BY <1>9 DEF Sound, Operand, HasPCs
<1>1. \A u \in Thread : Occupies(u, o) => u = t
  <2>1. Occupies(t, o) BY <1>0 DEF Occupies, Has, HasPCs
  <2> QED BY <1>0, <2>1 DEF Sound, Exclusion
<1>10. \A u \in Thread, p \in Object : Occupies(u, p)' <=> Occupies(u, p)
  BY <1>0 DEF Occupies, Has, Leaves, HasPCs, LeavePCs, TypeInv, TypeOK
<1>2. Operand'
  BY <1>0, <1>1 DEF Sound, Operand, AskPCs, HasPCs, LeavePCs, TypeInv, TypeOK
<1>3. Places'
  BY <1>0, <1>1 DEF Sound, Places, TypeInv, TypeOK
<1>4. Exclusion'
  BY <1>0, <1>10 DEF Sound, Exclusion
<1>5. Counts'
  <2>3. Askers(o)' = Askers(o) /\ Taken(o) = 1 /\ Taken(o)' = 0
    BY <1>0, <1>1 DEF Askers, Asks, AskPCs, Taken, Occupies, Has, Leaves, HasPCs, LeavePCs, TypeInv, TypeOK
  <2>4. ASSUME NEW p \in Object, p # o
        PROVE  Askers(p)' = Askers(p) /\ Taken(p)' = Taken(p)
    BY <1>0, <2>4 DEF Askers, Asks, AskPCs, Taken, Has, HasPCs, TypeInv, TypeOK
  <2>5. ASSUME NEW p \in Object, ob_lock'[p] # NULL
        PROVE  waiting'[ob_lock'[p]] = Cardinality(Askers(p)') + Taken(p)'
    <3>1. CASE p = o
      <4>1. waiting'[ob_lock'[o]] = waiting[ob_lock[o]] - 1
        BY <1>0 DEF TypeInv, TypeOK
      <4>2. waiting[ob_lock[o]] = Cardinality(Askers(o)) + Taken(o)
        BY <1>0, ConstantAssumption DEF Sound, Counts
      <4>3. Taken(o) \in {0, 1} BY DEF Taken
      <4>4. Cardinality(Askers(o)) \in Nat BY AskersFinite
      <4>5. waiting'[ob_lock'[o]] = Cardinality(Askers(o)') + Taken(o)'
        BY <2>3, <4>1, <4>2, <4>3, <4>4
      <4> QED BY <3>1, <4>5
    <3>2. CASE p # o
      BY <1>0, <1>1, <2>4, <2>5, <3>2, ConstantAssumption DEF Sound, Counts, Places, TypeInv, TypeOK
    <3> QED BY <3>1, <3>2
  <2>6. ASSUME NEW u \in Thread, pc'[u] = "done_take" PROVE waiting'[pl'[u]] = 1
    <3>1. u # t /\ pc[u] = "done_take" BY <1>0, <2>6 DEF TypeInv, TypeOK
    <3>2. waiting[pl[u]] = 1 /\ ob[u] \in Object /\ pl[u] = ob_lock[ob[u]]
      BY <3>1 DEF Sound, Counts, Operand, AskPCs
    <3>3. ob[u] # o
      <4> SUFFICES ASSUME ob[u] = o PROVE FALSE OBVIOUS
      <4>1. u \in Askers(o) BY <3>1 DEF Askers, Asks, AskPCs
      <4>2. IsFiniteSet(Askers(o)) /\ Cardinality(Askers(o)) \in Nat BY AskersFinite
      <4>3. Cardinality(Askers(o)) # 0 BY <4>1, <4>2, FS_EmptySet
      <4>4. waiting[ob_lock[o]] = Cardinality(Askers(o)) + Taken(o)
        BY <1>0, ConstantAssumption DEF Sound, Counts
      <4> QED BY <2>3, <3>2, <4>2, <4>3, <4>4
    <3>4. pl[u] # ob_lock[o]
      BY <1>0, <3>2, <3>3, ConstantAssumption DEF Sound, Places
    <3> QED BY <1>0, <3>2, <3>4 DEF TypeInv, TypeOK
  <2> QED BY <2>5, <2>6 DEF Counts
<1>6. Idents'
  BY <1>0, <1>1, ConstantAssumption DEF Sound, Idents, Places, TypeInv, TypeOK
<1>7. Mutexes'
  <2>1. ASSUME NEW u \in Thread PROVE ref_mutex' = u <=> pc'[u] = "lazy_decr"
    BY <1>0, ConstantAssumption DEF Sound, Mutexes, TypeInv, TypeOK
  <2>2. ASSUME NEW u \in Thread
        PROVE  pool_mutex' = u <=> pc'[u] \in {"lock_incr", "lock_check", "done_take"}
    BY <1>0, ConstantAssumption DEF Sound, Mutexes, TypeInv, TypeOK
  <2> QED BY <2>1, <2>2 DEF Mutexes
<1>8. Ready'
  BY <1>0, <1>1, ConstantAssumption DEF Sound, Ready, Places, TypeInv, TypeOK
<1> QED BY <1>2, <1>3, <1>4, <1>5, <1>6, <1>7, <1>8 DEF Sound

\* thread_id is cleared while the thread still has the mutex.
LEMMA InvClear ==
  ASSUME TypeInv, Sound, NEW t \in Thread,
         pc[t] \in {"unlock_clear", "lazy_clear"},
         NEW to \in {"unlock_release", "lazy_release"},
         pc' = [pc EXCEPT ![t] = to],
         thread_id' = [thread_id EXCEPT ![pl[t]] = NULL],
         UNCHANGED <<ob_lock, queue, allocated, waiting, owner,
                     pool_mutex, ref_mutex, ob, pl, reg, held>>
  PROVE  Sound'
<1>9. PICK o \in Object : ob[t] = o
  BY DEF Sound, Operand, LeavePCs
<1>0. /\ pc[t] \in {"unlock_clear", "lazy_clear"} /\ ob[t] = o /\ ob_lock[o] \in Lock
      /\ pl[t] = ob_lock[o] /\ o \notin held[t]
      /\ pc' = [pc EXCEPT ![t] = to]
      /\ thread_id' = [thread_id EXCEPT ![ob_lock[o]] = NULL]
      /\ UNCHANGED <<ob_lock, queue, allocated, waiting, owner,
                     pool_mutex, ref_mutex, ob, pl, reg, held>>
  BY <1>9 DEF Sound, Operand, LeavePCs
<1>1. \A u \in Thread : Occupies(u, o) => u = t
  <2>1. Occupies(t, o) BY <1>0 DEF Occupies, Leaves, LeavePCs
  <2> QED BY <1>0, <2>1 DEF Sound, Exclusion
<1>10. \A u \in Thread, p \in Object : Occupies(u, p)' <=> Occupies(u, p)
  BY <1>0 DEF Occupies, Has, Leaves, HasPCs, LeavePCs, TypeInv, TypeOK
<1>11. \A u \in Thread : o \notin held[u] BY <1>0, <1>1 DEF Occupies, Has
<1>2. Operand'
  BY <1>0, <1>11 DEF Sound, Operand, AskPCs, HasPCs, LeavePCs, TypeInv, TypeOK
<1>3. Places'
  BY <1>0, <1>11 DEF Sound, Places, TypeInv, TypeOK
<1>4. Exclusion'
  BY <1>0, <1>10 DEF Sound, Exclusion
<1>5. Counts'
  <2>1. \A p \in Object : Askers(p)' = Askers(p) /\ Taken(p)' = Taken(p)
    BY <1>0, <1>11 DEF Askers, Asks, AskPCs, Taken, Has, HasPCs, TypeInv, TypeOK
  <2>2. \A u \in Thread : pc'[u] = "done_take" => pc[u] = "done_take" /\ pl'[u] = pl[u]
    BY <1>0 DEF TypeInv, TypeOK
  <2> QED BY <1>0, <2>1, <2>2 DEF Sound, Counts
<1>6. Idents'
  BY <1>0, <1>11, ConstantAssumption DEF Sound, Idents, Places, TypeInv, TypeOK
<1>7. Mutexes'
  <2>1. ASSUME NEW u \in Thread PROVE ref_mutex' = u <=> pc'[u] = "lazy_decr"
    BY <1>0, ConstantAssumption DEF Sound, Mutexes, TypeInv, TypeOK
  <2>2. ASSUME NEW u \in Thread
        PROVE  pool_mutex' = u <=> pc'[u] \in {"lock_incr", "lock_check", "done_take"}
    BY <1>0, ConstantAssumption DEF Sound, Mutexes, TypeInv, TypeOK
  <2> QED BY <2>1, <2>2 DEF Mutexes
<1>8. Ready'
  BY <1>0, <1>11, ConstantAssumption DEF Sound, Ready, Places, TypeInv, TypeOK
<1> QED BY <1>2, <1>3, <1>4, <1>5, <1>6, <1>7, <1>8 DEF Sound

\* The mutex is released: nobody has the object.
LEMMA InvRelease ==
  ASSUME TypeInv, Sound, NEW t \in Thread,
         pc[t] \in {"unlock_release", "lazy_release"},
         pc' = [pc EXCEPT ![t] = "idle"],
         MutexUnlock(pl[t]),
         UNCHANGED <<ob_lock, queue, allocated, waiting, thread_id, pool_mutex,
                     ref_mutex, ob, pl, reg, held>>
  PROVE  Sound'
<1>9. PICK o \in Object : ob[t] = o
  BY DEF Sound, Operand, LeavePCs, Mutexes, MutexUnlock
<1>0. /\ pc[t] \in {"unlock_release", "lazy_release"} /\ ob[t] = o /\ ob_lock[o] \in Lock
      /\ pl[t] = ob_lock[o] /\ o \notin held[t]
      /\ pc' = [pc EXCEPT ![t] = "idle"]
      /\ owner' = [owner EXCEPT ![ob_lock[o]] = NULL]
      /\ UNCHANGED <<ob_lock, queue, allocated, waiting, thread_id, pool_mutex,
                     ref_mutex, ob, pl, reg, held>>
  BY <1>9 DEF Sound, Operand, LeavePCs, Mutexes, MutexUnlock
<1>1. \A u \in Thread : ~Occupies(u, o)'
  <2>1. Occupies(t, o) BY <1>0 DEF Occupies, Leaves, LeavePCs
  <2>2. \A u \in Thread : Occupies(u, o) => u = t BY <1>0, <2>1 DEF Sound, Exclusion
  <2> QED BY <1>0, <2>2 DEF Occupies, Has, Leaves, HasPCs, LeavePCs, TypeInv, TypeOK
<1>10. \A u \in Thread, p \in Object : Occupies(u, p)' => Occupies(u, p)
  BY <1>0 DEF Occupies, Has, Leaves, HasPCs, LeavePCs, TypeInv, TypeOK
<1>11. \A u \in Thread, p \in Object : Occupies(u, p)' => p # o /\ ob_lock[p] # ob_lock[o]
  <2> SUFFICES ASSUME NEW u \in Thread, NEW p \in Object, Occupies(u, p)'
               PROVE  p # o /\ ob_lock[p] # ob_lock[o]
    OBVIOUS
  <2>1. p # o BY <1>1
  <2> QED BY <1>0, <2>1, ConstantAssumption DEF Sound, Places
<1>2. Operand'
  BY <1>0 DEF Sound, Operand, AskPCs, HasPCs, LeavePCs, TypeInv, TypeOK
<1>3. Places'
  BY <1>0 DEF Sound, Places, TypeInv, TypeOK
<1>4. Exclusion'
  <2> SUFFICES ASSUME NEW u \in Thread, NEW p \in Object, Occupies(u, p)'
               PROVE  /\ owner'[ob_lock'[p]] # NULL
                      /\ \A v \in Thread : Occupies(v, p)' => v = u
    BY DEF Exclusion
  <2>1. Occupies(u, p) /\ ob_lock[p] # ob_lock[o] BY <1>10, <1>11
  <2>2. owner[ob_lock[p]] # NULL /\ \A v \in Thread : Occupies(v, p) => v = u
    BY <2>1 DEF Sound, Exclusion
  <2>3. ob_lock[p] \in Lock BY <2>1 DEF Sound, Operand, Occupies, Has, Leaves, HasPCs, LeavePCs
  <2> QED BY <1>0, <1>10, <2>1, <2>2, <2>3 DEF TypeInv, TypeOK
<1>5. Counts'
  <2>1. \A p \in Object : Askers(p)' = Askers(p) /\ Taken(p)' = Taken(p)
    BY <1>0 DEF Askers, Asks, AskPCs, Taken, Has, HasPCs, TypeInv, TypeOK
  <2>2. \A u \in Thread : pc'[u] = "done_take" => pc[u] = "done_take" /\ pl'[u] = pl[u]
    BY <1>0 DEF TypeInv, TypeOK
  <2> QED BY <1>0, <2>1, <2>2 DEF Sound, Counts
<1>6. Idents'
  BY <1>0, ConstantAssumption DEF Sound, Idents, Places, TypeInv, TypeOK
<1>7. Mutexes'
  <2>1. ASSUME NEW u \in Thread PROVE ref_mutex' = u <=> pc'[u] = "lazy_decr"
    BY <1>0, ConstantAssumption DEF Sound, Mutexes, TypeInv, TypeOK
  <2>2. ASSUME NEW u \in Thread
        PROVE  pool_mutex' = u <=> pc'[u] \in {"lock_incr", "lock_check", "done_take"}
    BY <1>0, ConstantAssumption DEF Sound, Mutexes, TypeInv, TypeOK
  <2> QED BY <2>1, <2>2 DEF Mutexes
<1>8. Ready'
  BY <1>0, ConstantAssumption DEF Sound, Ready, Places, TypeInv, TypeOK
<1> QED BY <1>2, <1>3, <1>4, <1>5, <1>6, <1>7, <1>8 DEF Sound

\* A lock nobody uses: LazyDone asks for it.
LEMMA InvLazyDoneTake ==
  ASSUME TypeInv, Sound, NEW t \in Thread,
         LazyDoneTake(t)
  PROVE  Sound'
<1>9. PICK o \in Object : ob[t] = o
  BY DEF LazyDoneTake, Unused, Goto, TypeInv, TypeOK, Operands
<1>0. /\ pc[t] = "done" /\ ob[t] = o /\ ob_lock[o] \in Lock
      /\ waiting[ob_lock[o]] = 0
      /\ pool_mutex = NULL /\ pool_mutex' = t
      /\ pc' = [pc EXCEPT ![t] = "done_take"]
      /\ pl' = [pl EXCEPT ![t] = ob_lock[o]]
      /\ waiting' = [waiting EXCEPT ![ob_lock[o]] = 1]
      /\ UNCHANGED <<ob_lock, queue, allocated, thread_id, owner,
                     ref_mutex, ob, reg, held>>
  BY <1>9 DEF LazyDoneTake, Unused, Goto, TypeInv, TypeOK, Operands
<1>1. \A u \in Thread : ~Asks(u, o) /\ ~Has(u, o)
  <2>1. IsFiniteSet(Askers(o)) /\ Cardinality(Askers(o)) \in Nat BY AskersFinite
  <2>2. 0 = Cardinality(Askers(o)) + Taken(o)
    BY <1>0, ConstantAssumption DEF Sound, Counts
  <2>3. Taken(o) \in {0, 1} BY DEF Taken
  <2>4. Cardinality(Askers(o)) = 0 /\ Taken(o) = 0 BY <2>1, <2>2, <2>3
  <2>5. Askers(o) = {} BY <2>1, <2>4, FS_EmptySet
  <2> QED BY <2>4, <2>5 DEF Askers, Taken
<1>10. \A u \in Thread, p \in Object : Occupies(u, p)' <=> Occupies(u, p)
  BY <1>0 DEF Occupies, Has, Leaves, HasPCs, LeavePCs, TypeInv, TypeOK
<1>11. \A u \in Thread : pc[u] # "done_take"
  BY <1>0, ConstantAssumption DEF Sound, Mutexes
<1>12. o \notin held[t] BY <1>1 DEF Has
<1>2. Operand'
  BY <1>0, <1>12 DEF Sound, Operand, AskPCs, HasPCs, LeavePCs, TypeInv, TypeOK
<1>3. Places'
  BY <1>0, <1>1 DEF Sound, Places, TypeInv, TypeOK
<1>4. Exclusion'
  BY <1>0, <1>10 DEF Sound, Exclusion
<1>5. Counts'
  <2>1. Askers(o)' = {t}
    BY <1>0, <1>1 DEF Askers, Asks, AskPCs, TypeInv, TypeOK
  <2>2. Cardinality(Askers(o)') = 1
    BY <2>1, FS_Singleton
  <2>3. Taken(o)' = 0
    BY <1>0, <1>1 DEF Taken, Occupies, Has, Leaves, HasPCs, LeavePCs, TypeInv, TypeOK
  <2>4. ASSUME NEW p \in Object, p # o
        PROVE  Askers(p)' = Askers(p) /\ Taken(p)' = Taken(p)
    BY <1>0, <2>4 DEF Askers, Asks, AskPCs, Taken, Has, HasPCs, TypeInv, TypeOK
  <2>5. ASSUME NEW p \in Object, ob_lock'[p] # NULL
        PROVE  waiting'[ob_lock'[p]] = Cardinality(Askers(p)') + Taken(p)'
    <3>1. CASE p = o
      <4>1. waiting'[ob_lock'[o]] = 1
        BY <1>0, <1>1 DEF TypeInv, TypeOK
      <4>2. waiting'[ob_lock'[o]] = Cardinality(Askers(o)') + Taken(o)'
        BY <2>2, <2>3, <4>1
      <4> QED BY <3>1, <4>2
    <3>2. CASE p # o
      BY <1>0, <1>1, <2>4, <2>5, <3>2, ConstantAssumption DEF Sound, Counts, Places, TypeInv, TypeOK
    <3> QED BY <3>1, <3>2
  <2>6. ASSUME NEW u \in Thread, pc'[u] = "done_take" PROVE waiting'[pl'[u]] = 1
    BY <1>0, <1>11, <2>6 DEF TypeInv, TypeOK
  <2> QED BY <2>5, <2>6 DEF Counts
<1>6. Idents'
  BY <1>0, <1>1, ConstantAssumption DEF Sound, Idents, Places, TypeInv, TypeOK
<1>7. Mutexes'
  <2>1. ASSUME NEW u \in Thread PROVE ref_mutex' = u <=> pc'[u] = "lazy_decr"
    BY <1>0, ConstantAssumption DEF Sound, Mutexes, TypeInv, TypeOK
  <2>2. ASSUME NEW u \in Thread
        PROVE  pool_mutex' = u <=> pc'[u] \in {"lock_incr", "lock_check", "done_take"}
    BY <1>0, ConstantAssumption DEF Sound, Mutexes, TypeInv, TypeOK
  <2> QED BY <2>1, <2>2 DEF Mutexes
<1>8. Ready'
  BY <1>0, <1>1, ConstantAssumption DEF Sound, Ready, Places, TypeInv, TypeOK
<1> QED BY <1>2, <1>3, <1>4, <1>5, <1>6, <1>7, <1>8 DEF Sound

\* LazyDone has the mutex and puts the lock into the pool.
LEMMA InvLazyDoneReturn ==
  ASSUME TypeInv, Sound, NEW t \in Thread,
         LazyDoneReturn(t)
  PROVE  Sound'
<1>9. PICK o \in Object : ob[t] = o
  BY DEF LazyDoneReturn, MutexLock, ToPool, Goto, Sound, Operand, Mutexes, Counts, AskPCs
<1>0. /\ pc[t] = "done_take" /\ ob[t] = o /\ ob_lock[o] \in Lock
      /\ pl[t] = ob_lock[o] /\ o \notin held[t] /\ waiting[ob_lock[o]] = 1
      /\ owner[ob_lock[o]] = NULL
      /\ pool_mutex = t /\ pool_mutex' = NULL
      /\ pc' = [pc EXCEPT ![t] = "idle"]
      /\ owner' = [owner EXCEPT ![pl[t]] = t]
      /\ queue' = <<pl[t]>> \o queue
      /\ ob_lock' = [ob_lock EXCEPT ![o] = NULL]
      /\ UNCHANGED <<allocated, waiting, thread_id, ref_mutex, ob, pl, reg, held>>
  BY <1>9 DEF LazyDoneReturn, MutexLock, ToPool, Goto, Sound, Operand, Mutexes, Counts, AskPCs
<1>13. \A u \in Thread : ~Occupies(u, o)
  BY <1>0 DEF Sound, Exclusion
<1>1. thread_id[pl[t]] = NULL
  <2>1. \A u \in Thread : thread_id[ob_lock[o]] # u
    BY <1>0, <1>13, ConstantAssumption
       DEF Sound, Idents, Occupies, Has, Leaves, HasPCs, LeavePCs
  <2> QED BY <1>0, <2>1 DEF TypeInv, TypeOK
<1>11. \A u \in Thread : Asks(u, o) => u = t
  <2>1. IsFiniteSet(Askers(o)) /\ Cardinality(Askers(o)) \in Nat BY AskersFinite
  <2>2. 1 = Cardinality(Askers(o)) + Taken(o)
    BY <1>0, ConstantAssumption DEF Sound, Counts
  <2>3. Taken(o) = 0 BY <1>13 DEF Taken, Occupies
  <2>4. t \in Askers(o) BY <1>0 DEF Askers, Asks, AskPCs
  <2>5. Cardinality(Askers(o)) = 1 BY <2>1, <2>2, <2>3
  <2>6. \E u : Askers(o) = {u} BY <2>1, <2>5, FS_Singleton
  <2> QED BY <2>4, <2>6 DEF Askers
<1>12. \A u \in Thread : /\ o \notin held'[u]
                         /\ pc'[u] \in AskPCs \cup HasPCs \cup LeavePCs => ob'[u] # o
  BY <1>0, <1>11, <1>13 DEF Asks, Occupies, Has, Leaves, AskPCs, HasPCs, LeavePCs, TypeInv, TypeOK
<1>10. /\ Len(queue') = Len(queue) + 1 /\ queue'[1] = pl[t]
       /\ \A i \in 2 .. Len(queue') : i - 1 \in 1 .. Len(queue) /\ queue'[i] = queue[i - 1]
  BY <1>0 DEF TypeInv, TypeOK
<1>14. \A u \in Thread : pc[u] # "lock_incr"
  BY <1>0, ConstantAssumption DEF Sound, Mutexes
<1>2. Operand'
  BY <1>14, <1>0, <1>12 DEF Sound, Operand, AskPCs, HasPCs, LeavePCs, TypeInv, TypeOK
<1>3. Places'
  <2>1. /\ \A p, q \in Object : ob_lock'[p] # NULL /\ ob_lock'[p] = ob_lock'[q] => p = q
        /\ \A p \in Object : ob_lock'[p] # NULL => ob_lock'[p] \in allocated'
    BY <1>0 DEF Sound, Places, TypeInv, TypeOK
  <2>2. /\ pl[t] \in allocated
        /\ \A p \in Object : ob_lock'[p] # pl[t]
        /\ \A i \in 1 .. Len(queue) : queue[i] # pl[t]
    BY <1>0, ConstantAssumption DEF Sound, Places, TypeInv, TypeOK
  <2>3. ASSUME NEW i \in 1 .. Len(queue')
        PROVE  /\ queue'[i] \in allocated'
               /\ \A p \in Object : ob_lock'[p] # queue'[i]
    <3>1. CASE i = 1 BY <1>0, <1>10, <2>2, <3>1
    <3>2. CASE i # 1
      <4>1. i \in 2 .. Len(queue') BY <3>2
      <4>2. i - 1 \in 1 .. Len(queue) /\ queue'[i] = queue[i - 1] BY <1>10, <4>1
      <4>3. queue[i - 1] \in allocated /\ \A p \in Object : ob_lock[p] # queue[i - 1]
        BY <4>2 DEF Sound, Places
      <4>4. queue[i - 1] # NULL BY <4>3, ConstantAssumption DEF TypeInv, TypeOK
      <4> QED BY <1>0, <4>2, <4>3, <4>4 DEF TypeInv, TypeOK
    <3> QED BY <3>1, <3>2
  <2>4. ASSUME NEW i \in 1 .. Len(queue'), NEW j \in 1 .. Len(queue'),
               queue'[i] = queue'[j]
        PROVE  i = j
    <3>1. \A k \in 1 .. Len(queue') : k = 1 \/ k \in 2 .. Len(queue')
      OBVIOUS
    <3>2. \A k \in 2 .. Len(queue') : queue'[k] # queue'[1]
      BY <1>10, <2>2
    <3>3. ASSUME i \in 2 .. Len(queue'), j \in 2 .. Len(queue') PROVE i = j
      <4>1. i - 1 = j - 1 BY <1>10, <2>4, <3>3 DEF Sound, Places
      <4>2. i \in Int /\ j \in Int OBVIOUS
      <4> QED BY <4>1, <4>2
    <3> QED BY <2>4, <3>1, <3>2, <3>3
  <2> QED BY <2>1, <2>3, <2>4 DEF Places
<1>4. Exclusion'
  BY <1>0, <1>12, ConstantAssumption DEF Sound, Exclusion, Operand, Places, Occupies, Has, Leaves, HasPCs, LeavePCs, TypeInv, TypeOK
<1>5. Counts'
  <2>4. ASSUME NEW p \in Object, p # o
        PROVE  Askers(p)' = Askers(p) /\ Taken(p)' = Taken(p)
    BY <1>0, <2>4 DEF Askers, Asks, AskPCs, Taken, Has, HasPCs, TypeInv, TypeOK
  <2>5. ASSUME NEW p \in Object, ob_lock'[p] # NULL
        PROVE  waiting'[ob_lock'[p]] = Cardinality(Askers(p)') + Taken(p)'
    <3>1. CASE p = o BY <1>0, <2>5, <3>1 DEF TypeInv, TypeOK
    <3>2. CASE p # o
      BY <1>0, <1>12, <2>4, <2>5, <3>2, ConstantAssumption DEF Sound, Counts, Places, TypeInv, TypeOK
    <3> QED BY <3>1, <3>2
  <2>6. ASSUME NEW u \in Thread, pc'[u] = "done_take" PROVE waiting'[pl'[u]] = 1
    BY <1>0, <1>12, <2>6 DEF Sound, Counts, TypeInv, TypeOK
  <2> QED BY <2>5, <2>6 DEF Counts
<1>6. Idents'
  BY <1>0, <1>12, ConstantAssumption DEF Sound, Idents, Places, TypeInv, TypeOK
<1>7. Mutexes'
  <2>1. ASSUME NEW u \in Thread PROVE ref_mutex' = u <=> pc'[u] = "lazy_decr"
    BY <1>0, ConstantAssumption DEF Sound, Mutexes, TypeInv, TypeOK
  <2>2. ASSUME NEW u \in Thread
        PROVE  pool_mutex' = u <=> pc'[u] \in {"lock_incr", "lock_check", "done_take"}
    BY <1>0, ConstantAssumption DEF Sound, Mutexes, TypeInv, TypeOK
  <2> QED BY <2>1, <2>2 DEF Mutexes
<1>8. Ready'
  <2>1. ASSUME NEW i \in 1 .. Len(queue')
        PROVE  /\ waiting'[queue'[i]] = 1
               /\ owner'[queue'[i]] # NULL
               /\ thread_id'[queue'[i]] = NULL
    <3>1. CASE i = 1 BY <1>0, <1>1, <1>10, <3>1, ConstantAssumption DEF TypeInv, TypeOK
    <3>2. CASE i # 1
      <4>1. i \in 2 .. Len(queue') BY <3>2
      <4>2. i - 1 \in 1 .. Len(queue) /\ queue'[i] = queue[i - 1] BY <1>10, <4>1
      <4>3. queue[i - 1] \in Lock BY <4>2 DEF TypeInv, TypeOK
      <4>4. queue[i - 1] # pl[t]
        BY <1>0, <4>2 DEF Sound, Places
      <4> QED BY <1>0, <4>2, <4>3, <4>4 DEF Sound, Ready, TypeInv, TypeOK
    <3> QED BY <3>1, <3>2
  <2> QED BY <2>1 DEF Ready
<1> QED BY <1>2, <1>3, <1>4, <1>5, <1>6, <1>7, <1>8 DEF Sound

\* Before any thread runs there is no lock, and nobody asks.
LEMMA InvInit == Init => Sound
<1> SUFFICES ASSUME Init PROVE Sound
  OBVIOUS
<1>1. Operand BY DEF Init, Operand, AskPCs, HasPCs, LeavePCs
<1>2. Places BY DEF Init, Places
<1>3. Exclusion BY DEF Init, Exclusion, Occupies, Has, Leaves, HasPCs, LeavePCs
<1>4. Counts BY DEF Init, Counts
<1>5. Idents BY DEF Init, Idents
<1>6. Mutexes BY ConstantAssumption DEF Init, Mutexes
<1>7. Ready BY DEF Init, Ready
<1> QED BY <1>1, <1>2, <1>3, <1>4, <1>5, <1>6, <1>7 DEF Sound

\* A store that loses nothing finds the count it loaded.
LEMMA StoreExact ==
  ASSUME NEW t \in Thread, NEW n, Store(t, n), ~torn'
  PROVE  ~torn /\ waiting[pl[t]] = reg[t]
BY DEF Store

\* A step inside one of the entry points that loses no change of a count.
LEMMA InvStep ==
  ASSUME TypeInv, Sound, ~torn', NEW t \in Thread, Step(t)
  PROVE  Sound'
<1>1. CASE Lock_(t)
  <2>1. CASE LockExisting(t) BY <2>1, InvLockExisting
  <2>2. CASE LockIncrStore(t)
    <3>1. waiting[pl[t]] = reg[t] BY <2>2, StoreExact DEF LockIncrStore
    <3> QED BY <2>2, <3>1, InvLockIncrStore
  <2>3. CASE LockDeadlock(t) BY <2>3, InvLockDeadlock
  <2>4. CASE LockNoDeadlock(t) BY <2>4, InvLockNoDeadlock
  <2>5. CASE LockFromPool(t) BY <2>5, InvLockFromPool
  <2>6. CASE \E l \in Lock : LockMalloc(t, l) BY <2>6, InvLockMalloc
  <2>7. CASE LockNoMemory(t)
    <3>1. ob[t] \in Object BY <2>7 DEF LockNoMemory, Goto, TypeInv, Operands
    <3> QED BY <2>7, <3>1, InvQuiet DEF LockNoMemory, Goto
  <2>8. CASE LockMutex(t) BY <2>8, InvLockMutex
  <2>9. CASE LockReturn(t) BY <2>9, InvLockReturn
  <2> QED BY <1>1, <2>1, <2>2, <2>3, <2>4, <2>5, <2>6, <2>7, <2>8, <2>9
          DEF Lock_
<1>2. CASE Unlock_(t)
  <2>1. CASE UnlockLast(t) BY <2>1, InvUnlockLast
  <2>2. CASE UnlockWaiters(t) BY <2>2, InvDecr DEF UnlockWaiters, Goto
  <2>3. CASE UnlockClear(t) BY <2>3, InvClear DEF UnlockClear, ClearId, Goto
  <2>4. CASE UnlockRelease(t) BY <2>4, InvRelease DEF UnlockRelease, Goto
  <2> QED BY <1>2, <2>1, <2>2, <2>3, <2>4 DEF Unlock_
<1>3. CASE LazyUnlock_(t)
  <2>1. CASE LazyDecrLoad(t) BY <2>1, InvLazyDecrLoad
  <2>2. CASE LazyDecrStore(t)
    <3>1. waiting[pl[t]] = reg[t] BY <2>2, StoreExact DEF LazyDecrStore
    <3>2. pl[t] \in Lock BY <2>2 DEF LazyDecrStore, Goto, TypeInv, Operands
    <3>3. waiting' = [waiting EXCEPT ![pl[t]] = @ - 1]
      BY <2>2, <3>1, <3>2 DEF LazyDecrStore, Store, TypeInv, TypeOK
    <3> QED BY <2>2, <3>3, InvDecr DEF LazyDecrStore, Goto
  <2>3. CASE LazyClear(t) BY <2>3, InvClear DEF LazyClear, ClearId, Goto
  <2>4. CASE LazyRelease(t) BY <2>4, InvRelease DEF LazyRelease, Goto
  <2> QED BY <1>3, <2>1, <2>2, <2>3, <2>4 DEF LazyUnlock_
<1>4. CASE LazyDone_(t)
  <2>1. CASE LazyDoneSkip(t)
    <3>1. ob[t] \in Object BY <2>1 DEF LazyDoneSkip, Goto, TypeInv, Operands
    <3> QED BY <2>1, <3>1, InvQuiet DEF LazyDoneSkip, Goto
  <2>2. CASE LazyDoneTake(t) BY <2>2, InvLazyDoneTake
  <2>3. CASE LazyDoneReturn(t) BY <2>3, InvLazyDoneReturn
  <2> QED BY <1>4, <2>1, <2>2, <2>3 DEF LazyDone_
<1> QED BY <1>1, <1>2, <1>3, <1>4 DEF Step

\* A call of an entry point.
LEMMA InvCall ==
  ASSUME TypeInv, Sound, NEW t \in Thread, Call_(t)
  PROVE  Sound'
<1>1. ASSUME NEW o \in Object, UnlockCall(t, o) PROVE Sound'
  BY <1>1, InvReleaseCall DEF UnlockCall, Goto
<1>2. ASSUME NEW o \in Object, LazyUnlockCall(t, o) PROVE Sound'
  BY <1>2, InvReleaseCall DEF LazyUnlockCall, Goto
<1>3. ASSUME NEW o \in Object, LockCall(t, o) PROVE Sound'
  BY <1>3, InvQuiet DEF LockCall, Goto
<1>4. ASSUME NEW o \in Object, LazyDoneCall(t, o) PROVE Sound'
  BY <1>4, InvQuiet DEF LazyDoneCall, Goto
<1> QED BY <1>1, <1>2, <1>3, <1>4 DEF Call_, Release_

\* A lost change is never made good: what was excused stays excused.
LEMMA TornStays ==
  ASSUME [Next]_vars, torn
  PROVE  torn'
<1>1. ASSUME NEW t \in Thread, Lock_(t) PROVE torn'
  BY <1>1 DEF Lock_, LockExisting, LockIncrStore, Store, LockDeadlock,
              LockNoDeadlock, LockFromPool, LockMalloc, LockNoMemory, LockMutex,
              LockReturn
<1>2. ASSUME NEW t \in Thread, Unlock_(t) PROVE torn'
  BY <1>2 DEF Unlock_, UnlockLast, UnlockWaiters, UnlockClear, UnlockRelease
<1>3. ASSUME NEW t \in Thread, LazyUnlock_(t) PROVE torn'
  BY <1>3 DEF LazyUnlock_, LazyDecrLoad, LazyDecrStore, Store, LazyClear,
              LazyRelease
<1>4. ASSUME NEW t \in Thread, LazyDone_(t) PROVE torn'
  BY <1>4 DEF LazyDone_, LazyDoneSkip, LazyDoneTake, LazyDoneReturn
<1>5. ASSUME NEW t \in Thread, Call_(t) PROVE torn'
  BY <1>5 DEF Call_, Release_, UnlockCall, LazyUnlockCall, LockCall, LazyDoneCall
<1>6. CASE UNCHANGED vars BY <1>6 DEF vars
<1> QED BY <1>1, <1>2, <1>3, <1>4, <1>5, <1>6 DEF Next, Step

\* Every step that loses no change of a count keeps the locks sound.
LEMMA SoundNext ==
  ASSUME TypeInv, Sound, ~torn', [Next]_vars
  PROVE  Sound'
<1>1. CASE Next BY <1>1, InvStep, InvCall DEF Next
<1>2. CASE UNCHANGED vars
  <2> USE <1>2 DEF Sound, vars
  <2>1. Operand' BY DEF Operand
  <2>2. Places' BY DEF Places
  <2>3. Exclusion' BY DEF Exclusion, Occupies, Has, Leaves
  <2>4. Counts' BY DEF Counts, Askers, Asks, Taken, Has
  <2>5. Idents' BY DEF Idents
  <2>6. Mutexes' BY DEF Mutexes
  <2>7. Ready' BY DEF Ready
  <2> QED BY <2>1, <2>2, <2>3, <2>4, <2>5, <2>6, <2>7
<1> QED BY <1>1, <1>2

\* Every step preserves the invariant.
LEMMA InvNext ==
  ASSUME TypeInv, IInv, [Next]_vars
  PROVE  IInv'
<1>1. CASE torn BY <1>1, TornStays DEF IInv
<1>2. CASE Sound /\ ~torn' BY <1>2, SoundNext DEF IInv
<1>3. CASE torn' BY <1>3 DEF IInv
<1> QED BY <1>1, <1>2, <1>3 DEF IInv

\* Until a change of a waiting count is lost, the lock of an object counts the
\* threads that ask for the object or have it and is locked and names the
\* thread that occupies it, whatever the threads, objects and locks.
THEOREM InvHolds == Spec => []IInv
<1>1. Init => TypeInv /\ IInv BY TypeInit, InvInit DEF IInv
<1>2. TypeInv /\ IInv /\ [Next]_vars => (TypeInv /\ IInv)'
  BY TypeNext, InvNext
<1> QED BY <1>1, <1>2, PTL DEF Spec

\* Until a count is lost, PyPooledLock_Lock never grants one object to two
\* threads.
THEOREM ExclusionHolds == Spec => []MutualExclusion
<1>1. TypeInv /\ IInv => MutualExclusion
  BY DEF TypeInv, TypeOK, IInv, Sound, Exclusion, Occupies, Has, MutualExclusion
<1>2. Spec => []TypeInv
  BY TypeInit, TypeNext, PTL DEF Spec
<1> QED BY <1>1, <1>2, InvHolds, PTL

\* The lock a thread waits for or was granted stays the object's lock: the
\* INVARIANT comments of pypooledlock.c, until a count is lost.
THEOREM ValidHolds == Spec => []PlValidUntilTorn
<1>1. ASSUME TypeInv, Sound PROVE PlRemainsValid
  <2>1. ASSUME NEW t \in Thread, NEW o \in Object, ob_lock[o] \in Lock,
               Has(t, o) \/ Asks(t, o)
        PROVE  waiting[ob_lock[o]] >= 1
    <3>1. IsFiniteSet(Askers(o)) /\ Cardinality(Askers(o)) \in Nat
      BY AskersFinite
    <3>2. waiting[ob_lock[o]] = Cardinality(Askers(o)) + Taken(o)
      BY <1>1, <2>1, ConstantAssumption DEF Sound, Counts
    <3>3. CASE Has(t, o)
      <4>1. Taken(o) = 1 BY <3>3 DEF Taken
      <4> QED BY <3>1, <3>2, <4>1
    <3>4. CASE Asks(t, o)
      <4>1. t \in Askers(o) BY <3>4 DEF Askers
      <4>2. Cardinality(Askers(o)) # 0 BY <3>1, <4>1, FS_EmptySet
      <4>3. Taken(o) \in {0, 1} BY DEF Taken
      <4> QED BY <3>1, <3>2, <4>2, <4>3
    <3> QED BY <2>1, <3>3, <3>4
  <2>2. ASSUME NEW t \in Thread, pc[t] \in {"lock_wait", "lock_own", "unlock", "lazy"}
        PROVE  ob_lock[ob[t]] = pl[t] /\ waiting[pl[t]] >= 1
    <3>1. PICK o \in Object : ob[t] = o
      BY <1>1, <2>2 DEF Sound, Operand, AskPCs, HasPCs
    <3>2. ob_lock[o] \in Lock /\ pl[t] = ob_lock[o]
      BY <1>1, <2>2, <3>1 DEF Sound, Operand, AskPCs, HasPCs
    <3>3. Has(t, o) \/ Asks(t, o) BY <2>2, <3>1 DEF Has, Asks, HasPCs, AskPCs
    <3> QED BY <2>1, <3>1, <3>2, <3>3
  <2>3. ASSUME NEW t \in Thread, NEW o \in held[t]
        PROVE  ob_lock[o] # NULL /\ waiting[ob_lock[o]] >= 1
    <3>1. o \in Object BY <1>1 DEF TypeInv, TypeOK
    <3>2. ob_lock[o] \in Lock /\ Has(t, o) BY <1>1 DEF Sound, Operand, Has
    <3> QED BY <2>1, <3>1, <3>2, ConstantAssumption
  <2> QED BY <2>2, <2>3 DEF PlRemainsValid
<1>2. Spec => []TypeInv
  BY TypeInit, TypeNext, PTL DEF Spec
<1>3. TypeInv /\ IInv => PlValidUntilTorn BY <1>1 DEF IInv, PlValidUntilTorn
<1> QED BY <1>2, <1>3, InvHolds, PTL

\* Until a count is lost, every free lock is ready to be owned: the ASSERT of
\* PyPooledLock_Lock.
THEOREM ReadyHolds == Spec => []PooledReady
<1>1. IInv => PooledReady BY DEF IInv, Sound, Ready, PooledReady
<1> QED BY <1>1, InvHolds, PTL

\* Until a count is lost, "deadlock detected" is raised exactly for the thread
\* that has the object.
THEOREM DetectionHolds == Spec => []DetectionExact
<1>1. IInv => DetectionExact
  <2> SUFFICES ASSUME Sound, NEW t \in Thread
               PROVE  /\ pc[t] = "lock_check" =>
                           (thread_id[pl[t]] = t <=> ob[t] \in held[t])
                      /\ pc[t] = "lock_wait" => ob[t] \notin held[t]
    BY DEF DetectionExact, IInv
  <2>1. ASSUME pc[t] = "lock_check"
        PROVE  thread_id[pl[t]] = t <=> ob[t] \in held[t]
    <3>1. ob[t] \in Object /\ ob_lock[ob[t]] \in Lock /\ pl[t] = ob_lock[ob[t]]
      BY <2>1 DEF Sound, Operand, AskPCs
    <3> QED BY <2>1, <3>1, ConstantAssumption DEF Sound, Idents
  <2>2. pc[t] = "lock_wait" => ob[t] \notin held[t] BY DEF Sound, Operand
  <2> QED BY <2>1, <2>2
<1> QED BY <1>1, InvHolds, PTL

\* A lock leaves the queue only into an object and an object only into the
\* queue.
LEMMA AccountedNext ==
  ASSUME TypeInv, Sound, Accounted, [Next]_vars
  PROVE  Accounted'
<1> DEFINE Free(l) == \E i \in 1 .. Len(queue) : queue[i] = l
           Used(l) == \E o \in Object : ob_lock[o] = l
<1>1. ASSUME NEW t \in Thread, LockFromPool(t) PROVE Accounted'
  <2>1. PICK o \in Object : ob[t] = o
    BY <1>1 DEF LockFromPool, Goto, TypeInv, Operands
  <2>2. /\ queue \in Seq(Lock) /\ queue # <<>> /\ queue' = Tail(queue)
        /\ ob_lock' = [ob_lock EXCEPT ![o] = Head(queue)]
        /\ ob_lock[o] = NULL /\ ob_lock \in [Object -> Lock \cup {NULL}]
        /\ allocated' = allocated /\ allocated \subseteq Lock
    BY <1>1, <2>1 DEF LockFromPool, TypeInv, TypeOK
  <2>3. ASSUME NEW l \in allocated' PROVE Free(l)' \/ Used(l)'
    <3>1. l \in allocated /\ l # NULL BY <2>2, ConstantAssumption
    <3>2. CASE l = Head(queue)
      <4>1. ob_lock'[o] = l BY <2>2, <3>2
      <4> QED BY <4>1
    <3>3. CASE Free(l) /\ l # Head(queue)
      <4>1. PICK i \in 1 .. Len(queue) : queue[i] = l BY <3>3
      <4>2. i # 1 BY <2>2, <3>3, <4>1
      <4>3. i - 1 \in 1 .. Len(queue') /\ queue'[i - 1] = l
        BY <2>2, <4>1, <4>2
      <4> QED BY <4>3
    <3>4. CASE Used(l)
      <4>1. PICK p \in Object : ob_lock[p] = l BY <3>4
      <4>2. ob_lock'[p] = l BY <2>2, <3>1, <4>1
      <4> QED BY <4>2
    <3> QED BY <3>1, <3>2, <3>3, <3>4 DEF Accounted
  <2> QED BY <2>3 DEF Accounted
<1>2. ASSUME NEW t \in Thread, NEW m \in Lock, LockMalloc(t, m) PROVE Accounted'
  <2>1. PICK o \in Object : ob[t] = o
    BY <1>2 DEF LockMalloc, Goto, TypeInv, Operands
  <2>2. /\ queue' = queue /\ allocated' = allocated \cup {m}
        /\ ob_lock' = [ob_lock EXCEPT ![o] = m]
        /\ ob_lock[o] = NULL /\ ob_lock \in [Object -> Lock \cup {NULL}]
        /\ allocated \subseteq Lock
    BY <1>2, <2>1 DEF LockMalloc, TypeInv, TypeOK
  <2>3. ASSUME NEW l \in allocated', l # m PROVE Free(l)' \/ Used(l)'
    <3>1. l \in allocated /\ l # NULL BY <2>2, <2>3, ConstantAssumption
    <3> QED BY <2>2, <3>1 DEF Accounted
  <2>4. Used(m)' BY <2>2
  <2> QED BY <2>3, <2>4 DEF Accounted
<1>3. ASSUME NEW t \in Thread, UnlockLast(t) \/ LazyDoneReturn(t) PROVE Accounted'
  <2>0. pc[t] \in {"unlock", "done_take"}
    BY <1>3 DEF UnlockLast, LazyDoneReturn, Goto
  <2>1. PICK o \in Object : ob[t] = o
    BY <2>0 DEF Sound, Operand, AskPCs, HasPCs
  <2>2. /\ queue \in Seq(Lock) /\ queue' = <<pl[t]>> \o queue
        /\ ob_lock' = [ob_lock EXCEPT ![o] = NULL]
        /\ ob_lock \in [Object -> Lock \cup {NULL}]
        /\ allocated' = allocated
    BY <1>3, <2>1 DEF UnlockLast, LazyDoneReturn, ToPool, TypeInv, TypeOK
  <2>3. pl[t] = ob_lock[o] /\ pl[t] \in Lock
    BY <2>0, <2>1 DEF Sound, Operand, AskPCs, HasPCs
  <2>4. ASSUME NEW l \in allocated' PROVE Free(l)' \/ Used(l)'
    <3>1. l \in allocated BY <2>2
    <3>2. CASE l = pl[t]
      <4>1. 1 \in 1 .. Len(queue') /\ queue'[1] = l BY <2>2, <2>3, <3>2
      <4> QED BY <4>1
    <3>3. CASE Free(l)
      <4>1. PICK i \in 1 .. Len(queue) : queue[i] = l BY <3>3
      <4>2. i + 1 \in 1 .. Len(queue') /\ queue'[i + 1] = l
        BY <2>2, <2>3, <4>1
      <4> QED BY <4>2
    <3>4. CASE Used(l) /\ l # pl[t]
      <4>1. PICK p \in Object : ob_lock[p] = l BY <3>4
      <4>2. ob_lock'[p] = l BY <2>2, <2>3, <3>4, <4>1
      <4> QED BY <4>2
    <3> QED BY <3>1, <3>2, <3>3, <3>4 DEF Accounted
  <2> QED BY <2>4 DEF Accounted
<1>4. ASSUME UNCHANGED <<queue, ob_lock, allocated>> PROVE Accounted'
  BY <1>4 DEF Accounted
<1>5. ASSUME NEW t \in Thread, Lock_(t) PROVE Accounted'
  BY <1>1, <1>2, <1>4, <1>5
     DEF Lock_, LockExisting, LockIncrStore, LockDeadlock, LockNoDeadlock,
         LockNoMemory, LockMutex, LockReturn
<1>6. ASSUME NEW t \in Thread, Unlock_(t) \/ LazyUnlock_(t) \/ LazyDone_(t)
      PROVE  Accounted'
  BY <1>3, <1>4, <1>6
     DEF Unlock_, LazyUnlock_, LazyDone_, UnlockWaiters, UnlockClear,
         UnlockRelease, LazyDecrLoad, LazyDecrStore, LazyClear,
         LazyRelease, LazyDoneSkip, LazyDoneTake
<1>7. ASSUME NEW t \in Thread, Call_(t) PROVE Accounted'
  BY <1>4, <1>7
     DEF Call_, Release_, UnlockCall, LazyUnlockCall, LockCall, LazyDoneCall
<1>8. CASE UNCHANGED vars BY <1>4, <1>8 DEF vars
<1> QED BY <1>5, <1>6, <1>7, <1>8 DEF Next, Step

\* Until a count is lost, no lock is lost or in two places: each is free or in
\* exactly one object.
THEOREM NoLockLostHolds == Spec => []NoLockLost
<1> DEFINE AInv == torn \/ Accounted
<1>1. ASSUME TypeInv, IInv, AInv PROVE NoLockLost
  <2> SUFFICES ASSUME Sound, Accounted PROVE NoLockLost
    BY <1>1 DEF IInv, NoLockLost
  <2>1. \A i, j \in 1 .. Len(queue) : i # j => queue[i] # queue[j]
    BY DEF Sound, Places
  <2>2. ASSUME NEW l \in allocated, NEW i \in 1 .. Len(queue), queue[i] = l
        PROVE  {o \in Object : ob_lock[o] = l} = {}
    BY <2>2 DEF Sound, Places
  <2>3. ASSUME NEW l \in allocated, ~ \E i \in 1 .. Len(queue) : queue[i] = l
        PROVE  \E o \in Object : {p \in Object : ob_lock[p] = l} = {o}
    <3>1. PICK o \in Object : ob_lock[o] = l BY <2>3 DEF Accounted
    <3>2. l # NULL BY <1>1, ConstantAssumption DEF TypeInv, TypeOK
    <3>3. \A p \in Object : ob_lock[p] = l <=> p = o
      BY <3>1, <3>2 DEF Sound, Places
    <3> QED BY <3>3
  <2> QED BY <2>1, <2>2, <2>3 DEF NoLockLost
<1>2. Init => TypeInv /\ IInv /\ AInv
  BY TypeInit, InvInit DEF Init, Accounted, IInv
<1>3. ASSUME TypeInv, IInv, AInv, [Next]_vars PROVE AInv'
  <2>1. CASE torn BY <1>3, <2>1, TornStays
  <2>2. CASE ~torn BY <1>3, <2>2, AccountedNext DEF IInv
  <2> QED BY <2>1, <2>2
<1>4. TypeInv /\ IInv /\ AInv /\ [Next]_vars => (TypeInv /\ IInv /\ AInv)'
  BY <1>3, TypeNext, InvNext
<1> QED BY <1>1, <1>2, <1>4, PTL DEF Spec

-----------------------------------------------------------------------------
(***************************************************************************)
(* Until a count is lost, the pooled locks implement ObjectLock.  A call   *)
(* maps to Request, the return that grants the object to Grant, "deadlock  *)
(* detected" and MemoryError to Refuse, a call of either unlock to         *)
(* Release; every other step changes nothing that the caller of the locks  *)
(* can tell.                                                               *)
(***************************************************************************)

\* Holder[o] is the thread that has been granted o.
LEMMA HolderIs ==
  ASSUME MutualExclusion, ~torn, NEW o \in Object
  PROVE  /\ \A t \in Thread : o \in held[t] => Holder[o] = t
         /\ (\A t \in Thread : o \notin held[t]) => Holder[o] = NULL
         /\ \A t \in Thread : Holder[o] = t => o \in held[t]
<1>1. ASSUME NEW t \in Thread, o \in held[t] PROVE Holder[o] = t
  <2>1. \A u \in Thread : o \in held[u] => u = t
    BY <1>1 DEF MutualExclusion
  <2> QED BY <1>1, <2>1 DEF Holder
<1>2. ASSUME \A t \in Thread : o \notin held[t] PROVE Holder[o] = NULL
  BY <1>2 DEF Holder
<1>3. ASSUME NEW t \in Thread, Holder[o] = t PROVE o \in held[t]
  <2>1. \E u \in Thread : o \in held[u] BY <1>2, <1>3, ConstantAssumption
  <2> QED BY <1>1, <1>3, <2>1
<1> QED BY <1>1, <1>2, <1>3

\* A step that grants and takes back nothing.
LEMMA SameHolder ==
  ASSUME UNCHANGED held
  PROVE  Holder' = Holder
BY DEF Holder

\* A step that changes neither what is held nor who is inside Lock.
LEMMA Stutters ==
  ASSUME TypeInv, NEW t \in Thread, NEW to,
         pc' = [pc EXCEPT ![t] = to],
         pc[t] \in LockPCs <=> to \in LockPCs,
         UNCHANGED held,
         ob' = ob \/ (pc[t] \notin LockPCs /\ \E p : ob' = [ob EXCEPT ![t] = p])
  PROVE  UNCHANGED <<Holder, Want>>
<1>1. Holder' = Holder BY SameHolder
<1>2. ASSUME NEW u \in Thread
      PROVE  (IF pc'[u] \in LockPCs THEN ob'[u] ELSE NULL)
              = IF pc[u] \in LockPCs THEN ob[u] ELSE NULL
  <2>1. CASE u = t BY <2>1 DEF TypeInv, TypeOK
  <2>2. CASE u # t
    <3>1. pc'[u] = pc[u] /\ ob'[u] = ob[u] BY <2>2 DEF TypeInv, TypeOK
    <3> QED BY <3>1
  <2> QED BY <2>1, <2>2
<1>3. Want' = Want BY <1>2 DEF Want
<1> QED BY <1>1, <1>3

\* How Want changes when thread t enters or leaves Lock.
LEMMA WantChanges ==
  ASSUME TypeInv, NEW t \in Thread, NEW to, NEW v,
         pc' = [pc EXCEPT ![t] = to],
         \A u \in Thread \ {t} : ob'[u] = ob[u],
         v = IF to \in LockPCs THEN ob'[t] ELSE NULL
  PROVE  Want' = [Want EXCEPT ![t] = v]
<1>1. Want' = [u \in Thread |-> IF pc'[u] \in LockPCs THEN ob'[u] ELSE NULL]
  BY DEF Want
<1>2. ASSUME NEW u \in Thread
      PROVE  (IF pc'[u] \in LockPCs THEN ob'[u] ELSE NULL)
              = IF u = t THEN v ELSE Want[u]
  <2>1. CASE u = t
    <3>1. pc'[t] = to BY DEF TypeInv, TypeOK
    <3> QED BY <2>1, <3>1
  <2>2. CASE u # t
    <3>1. pc'[u] = pc[u] /\ ob'[u] = ob[u] BY <2>2 DEF TypeInv, TypeOK
    <3> QED BY <2>2, <3>1 DEF Want
  <2> QED BY <2>1, <2>2
<1>3. [Want EXCEPT ![t] = v] = [u \in Thread |-> IF u = t THEN v ELSE Want[u]]
  BY DEF Want
<1> QED BY <1>1, <1>2, <1>3

\* Every call is a request of the abstract lock.
LEMMA RefinesLockCall ==
  ASSUME TypeInv, NEW t \in Thread, NEW o \in Object, LockCall(t, o)
  PROVE  Abstract!Request(t, o)
<1>1. /\ pc[t] = "idle" /\ pc' = [pc EXCEPT ![t] = "lock"]
      /\ ob' = [ob EXCEPT ![t] = o] /\ held' = held
  BY DEF LockCall, Goto
<1>2. ob'[t] = o /\ \A u \in Thread \ {t} : ob'[u] = ob[u]
  BY <1>1 DEF TypeInv, TypeOK
<1>3. Want[t] = NULL BY <1>1 DEF Want, LockPCs
<1>4. Want' = [Want EXCEPT ![t] = o]
  BY <1>1, <1>2, WantChanges DEF LockPCs
<1>5. Holder' = Holder BY <1>1, SameHolder
<1> QED BY <1>3, <1>4, <1>5 DEF Abstract!Request

\* A thread whose request fails had the object itself, or nobody has it.
LEMMA RefinesRefuse ==
  ASSUME TypeInv, Sound, MutualExclusion, ~torn, NEW t \in Thread,
         LockDeadlock(t) \/ LockNoMemory(t)
  PROVE  Abstract!Refuse(t)
<1>1. /\ pc[t] \in {"lock_check", "lock"} /\ pc' = [pc EXCEPT ![t] = "idle"]
      /\ ob' = ob /\ held' = held
  BY DEF LockDeadlock, LockNoMemory, Goto
<1>2. PICK o \in Object : ob[t] = o
  BY <1>1 DEF TypeInv, Operands
<1>3. Want[t] = o BY <1>1, <1>2 DEF Want, LockPCs
<1>4. Want' = [Want EXCEPT ![t] = NULL]
  BY <1>1, WantChanges DEF LockPCs
<1>5. Holder' = Holder BY <1>1, SameHolder
<1>6. Holder[o] \in {t, NULL}
  <2>1. CASE LockDeadlock(t)
    <3>1. pc[t] = "lock_check" /\ thread_id[pl[t]] = t
      BY <2>1 DEF LockDeadlock, IsHolder, Goto
    <3>2. pl[t] = ob_lock[o] /\ ob_lock[o] \in Lock
      BY <1>2, <3>1 DEF Sound, Operand, AskPCs
    <3>3. o \in held[t]
      BY <1>2, <3>1, <3>2, ConstantAssumption DEF Sound, Idents
    <3> QED BY <3>3, HolderIs
  <2>2. CASE LockNoMemory(t)
    <3>1. ob_lock[o] = NULL BY <1>2, <2>2 DEF LockNoMemory
    <3>2. \A u \in Thread : o \notin held[u]
      BY <3>1, ConstantAssumption DEF Sound, Operand
    <3> QED BY <3>2, HolderIs
  <2> QED BY <2>1, <2>2
<1> QED BY <1>2, <1>3, <1>4, <1>5, <1>6, ConstantAssumption DEF Abstract!Refuse

\* A step that changes who has o, and nothing else.
LEMMA HolderChanges ==
  ASSUME MutualExclusion, ~torn, NEW o \in Object, NEW v,
         \A p \in Object \ {o}, u \in Thread : p \in held'[u] <=> p \in held[u],
         \/ v = NULL /\ \A u \in Thread : o \notin held'[u]
         \/ v \in Thread /\ \A u \in Thread : o \in held'[u] <=> u = v
  PROVE  Holder' = [Holder EXCEPT ![o] = v]
<1> DEFINE H(h, p) == IF \E u \in Thread : p \in h[u]
                      THEN CHOOSE u \in Thread : p \in h[u] ELSE NULL
<1>1. Holder = [p \in Object |-> H(held, p)] BY DEF Holder
<1>2. Holder' = [p \in Object |-> H(held', p)] BY DEF Holder
<1>3. ASSUME NEW p \in Object, p # o PROVE H(held', p) = H(held, p)
  <2>1. \A u \in Thread : p \in held'[u] <=> p \in held[u] BY <1>3
  <2>2. CASE \E u \in Thread : p \in held[u]
    <3>1. PICK u \in Thread : p \in held[u] BY <2>2
    <3>2. \A w \in Thread : p \in held[w] => w = u BY <3>1 DEF MutualExclusion
    <3>3. H(held, p) = u BY <3>1, <3>2
    <3>4. p \in held'[u] /\ \A w \in Thread : p \in held'[w] => w = u
      BY <2>1, <3>1, <3>2
    <3>5. H(held', p) = u BY <3>4
    <3> QED BY <3>3, <3>5
  <2>3. CASE \A u \in Thread : p \notin held[u] BY <2>1, <2>3
  <2> QED BY <2>2, <2>3
<1>4. H(held', o) = v OBVIOUS
<1>5. [Holder EXCEPT ![o] = v] = [p \in Object |-> IF p = o THEN v ELSE H(held, p)]
  BY <1>1
<1> HIDE DEF H
<1> QED BY <1>2, <1>3, <1>4, <1>5

\* The return that grants the object: nobody had it.
LEMMA RefinesGrant ==
  ASSUME TypeInv, Sound, MutualExclusion, ~torn, NEW t \in Thread, LockReturn(t)
  PROVE  Abstract!Grant(t)
<1>1. PICK o \in Object : ob[t] = o
  BY DEF LockReturn, Goto, TypeInv, Operands
<1>2. /\ pc[t] = "lock_own" /\ pc' = [pc EXCEPT ![t] = "idle"]
      /\ ob' = ob /\ held' = [held EXCEPT ![t] = @ \cup {o}]
  BY <1>1 DEF LockReturn, Goto
<1>3. Want[t] = o BY <1>1, <1>2 DEF Want, LockPCs
<1>4. Want' = [Want EXCEPT ![t] = NULL]
  BY <1>2, WantChanges DEF LockPCs
<1>5. \A u \in Thread : o \notin held[u]
  <2>1. o \notin held[t] BY <1>1, <1>2 DEF Sound, Operand, HasPCs
  <2>2. Occupies(t, o) BY <1>1, <1>2 DEF Occupies, Has, HasPCs
  <2>3. \A u \in Thread : o \in held[u] => u = t
    BY <2>2 DEF Sound, Exclusion, Occupies, Has
  <2> QED BY <2>1, <2>3
<1>6. Holder[o] = NULL BY <1>5, HolderIs
<1>7. Holder' = [Holder EXCEPT ![o] = t]
  <2>1. \A p \in Object \ {o}, u \in Thread : p \in held'[u] <=> p \in held[u]
    BY <1>2 DEF TypeInv, TypeOK
  <2>2. \A u \in Thread : o \in held'[u] <=> u = t
    BY <1>2, <1>5 DEF TypeInv, TypeOK
  <2> QED BY <2>1, <2>2, HolderChanges
<1> QED BY <1>1, <1>3, <1>4, <1>6, <1>7, ConstantAssumption DEF Abstract!Grant

\* Either unlock gives the object up at once, as far as callers can tell.
LEMMA RefinesRelease ==
  ASSUME TypeInv, Sound, MutualExclusion, ~torn, NEW t \in Thread, NEW o \in Object,
         UnlockCall(t, o) \/ LazyUnlockCall(t, o)
  PROVE  Abstract!Release(t, o)
<1>1. PICK to \in {"segv", "unlock", "lazy"} :
         /\ pc[t] = "idle" /\ pc' = [pc EXCEPT ![t] = to]
         /\ o \in held[t] /\ held' = [held EXCEPT ![t] = @ \ {o}]
         /\ ob' = [ob EXCEPT ![t] = o]
  BY DEF UnlockCall, LazyUnlockCall, Goto
<1>2. Want[t] = NULL BY <1>1 DEF Want, LockPCs
<1>3. UNCHANGED Want
  <2>1. \A u \in Thread \ {t} : ob'[u] = ob[u] BY <1>1 DEF TypeInv, TypeOK
  <2>2. Want' = [Want EXCEPT ![t] = NULL]
    BY <1>1, <2>1, WantChanges DEF LockPCs
  <2> QED BY <1>2, <2>2 DEF Want
<1>4. Holder[o] = t BY <1>1, HolderIs
<1>5. Holder' = [Holder EXCEPT ![o] = NULL]
  <2>1. \A p \in Object \ {o}, u \in Thread : p \in held'[u] <=> p \in held[u]
    BY <1>1 DEF TypeInv, TypeOK
  <2>2. \A u \in Thread : o \notin held'[u]
    BY <1>1 DEF TypeInv, TypeOK, MutualExclusion
  <2> QED BY <2>1, <2>2, HolderChanges
<1> QED BY <1>2, <1>3, <1>4, <1>5 DEF Abstract!Release

\* The steps between a call and its return are invisible.
LEMMA RefinesStutter ==
  ASSUME TypeInv, Sound, NEW t \in Thread,
         \/ LockExisting(t) \/ LockIncrStore(t) \/ LockNoDeadlock(t)
         \/ LockFromPool(t) \/ (\E l \in Lock : LockMalloc(t, l)) \/ LockMutex(t)
         \/ Unlock_(t) \/ LazyUnlock_(t) \/ LazyDone_(t)
         \/ \E o \in Object : LazyDoneCall(t, o)
  PROVE  UNCHANGED <<Holder, Want>>
<1>1. ASSUME \/ LockExisting(t) \/ LockIncrStore(t) \/ LockNoDeadlock(t)
             \/ LockFromPool(t) \/ (\E l \in Lock : LockMalloc(t, l))
             \/ LockMutex(t)
      PROVE  UNCHANGED <<Holder, Want>>
  <2>1. PICK to \in LockPCs : pc' = [pc EXCEPT ![t] = to]
    BY <1>1 DEF LockExisting, LockIncrStore, LockNoDeadlock, LockFromPool,
                LockMalloc, LockMutex, Goto, LockPCs
  <2>2. pc[t] \in LockPCs /\ UNCHANGED <<held, ob>>
    BY <1>1 DEF LockExisting, LockIncrStore, LockNoDeadlock, LockFromPool,
                LockMalloc, LockMutex, Goto, LockPCs
  <2> QED BY <2>1, <2>2, Stutters
<1>2. ASSUME Unlock_(t) \/ LazyUnlock_(t) \/ LazyDone_(t)
      PROVE  UNCHANGED <<Holder, Want>>
  <2>1. PICK to : to \notin LockPCs /\ pc' = [pc EXCEPT ![t] = to]
    BY <1>2 DEF Unlock_, LazyUnlock_, LazyDone_, UnlockLast, UnlockWaiters,
                UnlockClear, UnlockRelease, LazyDecrLoad,
                LazyDecrStore, LazyClear, LazyRelease, LazyDoneSkip,
                LazyDoneTake, LazyDoneReturn, Goto, LockPCs
  <2>2. pc[t] \notin LockPCs /\ UNCHANGED <<held, ob>>
    BY <1>2 DEF Unlock_, LazyUnlock_, LazyDone_, UnlockLast, UnlockWaiters,
                UnlockClear, UnlockRelease, LazyDecrLoad,
                LazyDecrStore, LazyClear, LazyRelease, LazyDoneSkip,
                LazyDoneTake, LazyDoneReturn, Goto, LockPCs
  <2> QED BY <2>1, <2>2, Stutters
<1>3. ASSUME NEW o \in Object, LazyDoneCall(t, o)
      PROVE  UNCHANGED <<Holder, Want>>
  BY <1>3, Stutters DEF LazyDoneCall, Goto, LockPCs
<1> QED BY <1>1, <1>2, <1>3

\* Before any call no object is held and no request is in progress.
LEMMA RefinesInit == Init => Abstract!LockInit
BY DEF Init, Abstract!LockInit, Holder, Want, LockPCs

\* Every step is one of the abstract lock's, or invisible.
LEMMA RefinesNext ==
  ASSUME TypeInv, Sound, MutualExclusion, ~torn, [Next]_vars
  PROVE  [Abstract!LockNext]_<<Holder, Want>>
<1>1. ASSUME NEW t \in Thread, Step(t)
      PROVE  [Abstract!LockNext]_<<Holder, Want>>
  <2>1. CASE LockDeadlock(t) \/ LockNoMemory(t)
    BY <2>1, RefinesRefuse DEF Abstract!LockNext
  <2>2. CASE LockReturn(t)
    BY <2>2, RefinesGrant DEF Abstract!LockNext
  <2>3. CASE ~(LockDeadlock(t) \/ LockNoMemory(t) \/ LockReturn(t))
    BY <1>1, <2>3, RefinesStutter DEF Step, Lock_
  <2> QED BY <2>1, <2>2, <2>3
<1>2. ASSUME NEW t \in Thread, Call_(t)
      PROVE  [Abstract!LockNext]_<<Holder, Want>>
  <2>1. ASSUME NEW o \in Object, LockCall(t, o)
        PROVE  Abstract!LockNext
    BY <2>1, RefinesLockCall DEF Abstract!LockNext
  <2>2. ASSUME NEW o \in Object, UnlockCall(t, o) \/ LazyUnlockCall(t, o)
        PROVE  Abstract!LockNext
    BY <2>2, RefinesRelease DEF Abstract!LockNext
  <2>3. ASSUME NEW o \in Object, LazyDoneCall(t, o)
        PROVE  UNCHANGED <<Holder, Want>>
    BY <2>3, RefinesStutter
  <2> QED BY <1>2, <2>1, <2>2, <2>3 DEF Call_, Release_
<1>3. CASE UNCHANGED vars
  <2>1. UNCHANGED <<held, pc, ob>> BY <1>3 DEF vars
  <2> QED BY <2>1 DEF Holder, Want
<1> QED BY <1>1, <1>2, <1>3 DEF Next

\* The same, until a change of a count is lost.
LEMMA RefinesUntilTorn ==
  ASSUME TypeInv, IInv, MutualExclusion, [Next]_vars
  PROVE  [Abstract!LockNext \/ torn']_<<Holder, Want>>
<1>1. CASE torn BY <1>1, TornStays
<1>2. CASE ~torn BY <1>2, RefinesNext DEF IInv
<1> QED BY <1>1, <1>2

\* PyPooledLock_Lock, _Unlock, _LazyUnlock and _LazyDone together behave as
\* one lock per object, up to the step that loses a change of a count.
THEOREM Refinement == Spec => ImplementsObjectLock
<1>1. Spec => []TypeInv BY TypeInit, TypeNext, PTL DEF Spec
<1>2. TypeInv /\ IInv /\ MutualExclusion /\ [Next]_vars
        => [Abstract!LockNext \/ torn']_<<Holder, Want>>
  BY RefinesUntilTorn
<1> QED BY <1>1, <1>2, RefinesInit, InvHolds, ExclusionHolds, PTL
        DEF Spec, ImplementsObjectLock, Abstract!lockVars
=============================================================================
