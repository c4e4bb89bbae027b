---------------------------- MODULE PooledLockInv ----------------------------
(***************************************************************************)
(* The inductive invariant of PooledLock.  It speaks of objects rather     *)
(* than locks: who asks for an object, has it or leaves it, and what that  *)
(* says about the lock installed in it, until a change of a waiting count  *)
(* is lost.                                                                *)
(***************************************************************************)
EXTENDS PooledLock

AskPCs == {"lock_check", "lock_wait", "done_take"}
HasPCs == {"lock_own", "unlock", "lazy", "lazy_decr"}
LeavePCs == {"unlock_clear", "unlock_release", "lazy_clear", "lazy_release"}

\* t counts in waiting, but has not been granted the mutex.
Asks(t, o) == ob[t] = o /\ pc[t] \in AskPCs

\* t has the mutex and counts in waiting.
Has(t, o) == o \in held[t] \/ (ob[t] = o /\ pc[t] \in HasPCs)

\* t still has the mutex and no longer counts in waiting.
Leaves(t, o) == ob[t] = o /\ pc[t] \in LeavePCs

Occupies(t, o) == Has(t, o) \/ Leaves(t, o)

Askers(o) == {t \in Thread : Asks(t, o)}

\* 1 if some thread has o.
Taken(o) == IF \E t \in Thread : Has(t, o) THEN 1 ELSE 0

\* The calls refer to the object's own lock.
Operand ==
  \A t \in Thread :
    /\ pc[t] # "segv"
    /\ pc[t] \in AskPCs \cup HasPCs \cup LeavePCs \cup {"lock_incr"} =>
         /\ ob[t] \in Object
         /\ ob_lock[ob[t]] \in Lock
         /\ pl[t] = ob_lock[ob[t]]
    /\ pc[t] \in HasPCs \cup LeavePCs \cup {"lock_wait", "done_take"} =>
         ob[t] \notin held[t]
    /\ \A o \in held[t] : ob_lock[o] \in Lock

\* Installed locks are distinct, free locks are distinct, no lock is both.
Places ==
  /\ \A o, p \in Object : ob_lock[o] # NULL /\ ob_lock[o] = ob_lock[p] => o = p
  /\ \A o \in Object : ob_lock[o] # NULL => ob_lock[o] \in allocated
  /\ \A i \in 1 .. Len(queue) :
       /\ queue[i] \in allocated
       /\ \A o \in Object : ob_lock[o] # queue[i]
       /\ \A j \in 1 .. Len(queue) : queue[i] = queue[j] => i = j

\* One thread at a time, and only while the mutex is locked.
Exclusion ==
  \A o \in Object, t \in Thread :
    Occupies(t, o) =>
      /\ owner[ob_lock[o]] # NULL
      /\ \A u \in Thread : Occupies(u, o) => u = t

\* waiting counts the threads that ask for the object and the one that has it.
Counts ==
  /\ \A o \in Object :
       ob_lock[o] # NULL =>
         waiting[ob_lock[o]] = Cardinality(Askers(o)) + Taken(o)
  /\ \A t \in Thread : pc[t] = "done_take" => waiting[pl[t]] = 1

\* thread_id names the thread that has the object, once it is recorded and
\* until it is cleared.
Idents ==
  \A o \in Object, t \in Thread :
    ob_lock[o] # NULL =>
      /\ o \in held[t] => thread_id[ob_lock[o]] = t
      /\ thread_id[ob_lock[o]] = t =>
           \/ o \in held[t]
           \/ ob[t] = o /\ pc[t] \in {"unlock", "unlock_clear", "lazy", "lazy_decr", "lazy_clear"}

Mutexes ==
  /\ \A t \in Thread : ref_mutex = t <=> pc[t] = "lazy_decr"
  /\ \A t \in Thread : pool_mutex = t <=> pc[t] \in {"lock_incr", "lock_check", "done_take"}

\* Whoever takes a lock from the queue owns it at once.
Ready ==
  \A i \in 1 .. Len(queue) :
    /\ waiting[queue[i]] = 1
    /\ owner[queue[i]] # NULL
    /\ thread_id[queue[i]] = NULL

\* Every lock malloc() returned is in the queue or in an object.
Accounted ==
  \A l \in allocated :
    \/ \E i \in 1 .. Len(queue) : queue[i] = l
    \/ \E o \in Object : ob_lock[o] = l

\* Every step of the pooled locks preserves this invariant: the lock of an
\* object counts the threads that ask for it or have it, has a locked mutex
\* while some thread occupies the object, and names that thread.
Sound ==
  /\ Operand
  /\ Places
  /\ Exclusion
  /\ Counts
  /\ Idents
  /\ Mutexes
  /\ Ready

IInv == torn \/ Sound
=============================================================================
