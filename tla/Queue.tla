-------------------------------- MODULE Queue --------------------------------
(* Class Queue of src/Lib/Queue.py: a list and three thread locks.  mutex    *)
(* guards the list; esema is free only while there is something to get,      *)
(* fsema only while there is room.  Neither is owned by a thread: put()      *)
(* acquires fsema and get() may release it.                                  *)
(*                                                                           *)
(* What a thread does between acquiring and releasing the mutex is one step, *)
(* after the step that acquires it.  qsize(), empty() and full() only read.  *)
EXTENDS Naturals, Sequences

CONSTANTS
  Thread,    \* the threads that share the queue
  Item,      \* what they put
  Sizes,     \* the arguments of Queue(); 0 means no bound
  MaxPuts,   \* bound on the number of puts, for model checking
  NULL       \* no thread, no item

ASSUME SizesAssumption == Sizes \subseteq Nat
ASSUME MaxPutsAssumption == MaxPuts \in Nat
ASSUME NULLAssumption == NULL \notin Thread \cup Item

VARIABLES
  maxsize,   \* self.maxsize
  queue,     \* self.queue
  mutex,     \* owner of self.mutex, or NULL
  esema,     \* self.esema is acquired
  fsema,     \* self.fsema is acquired
  pc,        \* where each thread is
  item,      \* the argument of its put()
  locked,    \* local of get_nowait(): it has esema
  puts       \* puts begun

vars == <<maxsize, queue, mutex, esema, fsema, pc, item, locked, puts>>

pcs == {"idle", "put", "put_fsema", "put_mutex", "get", "get_esema", "get_mutex",
        "nowait", "nowait_mutex"}

TypeOK ==
  /\ maxsize \in Sizes
  /\ queue \in Seq(Item)
  /\ mutex \in Thread \cup {NULL} /\ esema \in BOOLEAN /\ fsema \in BOOLEAN
  /\ pc \in [Thread -> pcs]
  /\ item \in [Thread -> Item \cup {NULL}]
  /\ locked \in [Thread -> BOOLEAN]
  /\ puts \in 0 .. MaxPuts

Init ==
  /\ maxsize \in Sizes
  /\ queue = <<>>
  /\ mutex = NULL /\ esema = TRUE /\ fsema = FALSE
  /\ pc = [t \in Thread |-> "idle"]
  /\ item = [t \in Thread |-> NULL]
  /\ locked = [t \in Thread |-> FALSE]
  /\ puts = 0

goto(t, from, to) == pc[t] = from /\ pc' = [pc EXCEPT ![t] = to]

LockMutex(t) == mutex = NULL /\ mutex' = t
UnlockMutex(t) == mutex = t /\ mutex' = NULL

empty(q) == q = <<>>

full(q) == maxsize > 0 /\ Len(q) = maxsize

------------------------------------------------------------------------------
PutCall(t, i) ==
  /\ goto(t, "idle", "put")
  /\ puts < MaxPuts /\ puts' = puts + 1
  /\ item' = [item EXCEPT ![t] = i]
  /\ UNCHANGED <<maxsize, queue, mutex, esema, fsema, locked>>

PutFsema(t) ==
  /\ ~fsema
  /\ goto(t, "put", "put_fsema")
  /\ fsema' = TRUE
  /\ UNCHANGED <<maxsize, queue, mutex, esema, item, locked, puts>>

PutMutex(t) ==
  /\ LockMutex(t)
  /\ goto(t, "put_fsema", "put_mutex")
  /\ UNCHANGED <<maxsize, queue, esema, fsema, item, locked, puts>>

BadPutSemas ==
  /\ esema' = IF empty(queue) THEN FALSE ELSE esema
  /\ fsema' = IF full(queue) THEN fsema ELSE FALSE

(* put() lets a getter in when the queue was empty, and the next put() when  *)
(* there is still room.                                                      *)
PutSemas ==
  /\ esema' = IF empty(queue) THEN FALSE ELSE esema
  /\ fsema' = IF full(queue') THEN fsema ELSE FALSE

PutDo(t) ==
  /\ goto(t, "put_mutex", "idle")
  /\ queue' = Append(queue, item[t])
  /\ item' = [item EXCEPT ![t] = NULL]
  /\ PutSemas
  /\ UnlockMutex(t)
  /\ UNCHANGED <<maxsize, locked, puts>>

GetCall(t) ==
  /\ goto(t, "idle", "get")
  /\ UNCHANGED <<maxsize, queue, mutex, esema, fsema, item, locked, puts>>

GetEsema(t) ==
  /\ ~esema
  /\ goto(t, "get", "get_esema")
  /\ esema' = TRUE
  /\ UNCHANGED <<maxsize, queue, mutex, fsema, item, locked, puts>>

GetMutex(t) ==
  /\ LockMutex(t)
  /\ goto(t, "get_esema", "get_mutex")
  /\ UNCHANGED <<maxsize, queue, esema, fsema, item, locked, puts>>

BadTakeFull ==
  /\ queue' = Tail(queue)
  /\ esema' = empty(queue')
  /\ UNCHANGED fsema

BadTakeLast ==
  /\ queue' = SubSeq(queue, 1, Len(queue) - 1)
  /\ esema' = empty(queue')
  /\ fsema' = IF full(queue) THEN FALSE ELSE fsema

(* get() and get_nowait() with esema and mutex: putters are let in when the  *)
(* queue was full, the next get() when it is not empty.                      *)
Take ==
  /\ queue' = Tail(queue)
  /\ esema' = empty(queue')
  /\ fsema' = IF full(queue) THEN FALSE ELSE fsema

GetDo(t) ==
  /\ goto(t, "get_mutex", "idle")
  /\ Take
  /\ UnlockMutex(t)
  /\ UNCHANGED <<maxsize, item, locked, puts>>

(* get_nowait() takes esema if it can, and goes on without it.               *)
NowaitCall(t) ==
  /\ goto(t, "idle", "nowait")
  /\ locked' = [locked EXCEPT ![t] = ~esema]
  /\ esema' = TRUE
  /\ UNCHANGED <<maxsize, queue, mutex, fsema, item, puts>>

NowaitMutex(t) ==
  /\ LockMutex(t)
  /\ goto(t, "nowait", "nowait_mutex")
  /\ UNCHANGED <<maxsize, queue, esema, fsema, item, locked, puts>>

BadMayTake(t) == ~empty(queue)

(* It may take an item if it has esema now or can get it at once.            *)
MayTake(t) == ~empty(queue) /\ (locked[t] \/ ~esema)

(* raise Empty: empty, or somebody else has esema.                           *)
NowaitEmpty(t) ==
  /\ ~MayTake(t)
  /\ goto(t, "nowait_mutex", "idle")
  /\ locked' = [locked EXCEPT ![t] = FALSE]
  /\ UnlockMutex(t)
  /\ UNCHANGED <<maxsize, queue, esema, fsema, item, puts>>

NowaitDo(t) ==
  /\ MayTake(t)
  /\ goto(t, "nowait_mutex", "idle")
  /\ Take
  /\ locked' = [locked EXCEPT ![t] = FALSE]
  /\ UnlockMutex(t)
  /\ UNCHANGED <<maxsize, item, puts>>

Steps(t) ==
  \/ PutFsema(t) \/ PutMutex(t) \/ PutDo(t)
  \/ GetEsema(t) \/ GetMutex(t) \/ GetDo(t)
  \/ NowaitMutex(t) \/ NowaitEmpty(t) \/ NowaitDo(t)

Next == \E t \in Thread :
  \/ (\E i \in Item : PutCall(t, i)) \/ GetCall(t) \/ NowaitCall(t)
  \/ Steps(t)

Spec == Init /\ [][Next]_vars

(* A thread goes on when it is not blocked, and gets a lock that is free     *)
(* again and again.                                                          *)
Fairness == \A t \in Thread :
  /\ WF_vars(Steps(t))
  /\ SF_vars(PutFsema(t) \/ GetEsema(t))
  /\ SF_vars(PutMutex(t) \/ GetMutex(t) \/ NowaitMutex(t))

FairSpec == Spec /\ Fairness
------------------------------------------------------------------------------
PutHolders == {t \in Thread : pc[t] \in {"put_fsema", "put_mutex"}}
GetHolders == {t \in Thread : locked[t] \/ pc[t] \in {"get_esema", "get_mutex"}}

(* esema and fsema mean what the code relies on: esema is free exactly while *)
(* there is an item that nobody is coming for, fsema while there is room     *)
(* that nobody is coming to fill; at most one thread has each.               *)
SemasExact ==
  /\ ~esema <=> (queue # <<>> /\ GetHolders = {})
  /\ ~fsema <=> (~full(queue) /\ PutHolders = {})
  /\ \A t, u \in GetHolders : t = u
  /\ \A t, u \in PutHolders : t = u

(* A thread that was let in finds what it came for when it has the mutex at  *)
(* last: get() an item, put() room, and get_nowait() is never left with      *)
(* esema on an empty queue ("we can't have esema").                          *)
LetInRightly ==
  /\ GetHolders # {} => queue # <<>>
  /\ PutHolders # {} => ~full(queue)

(* The queue is a bounded FIFO queue with atomic operations.                 *)
Abstract == INSTANCE BoundedQueue WITH items <- queue

ImplementsQueue == Abstract!Spec

(* get() does not wait forever beside an item, nor put() beside room.        *)
NobodySleepsOn == \A t \in Thread :
  /\ (pc[t] = "get" /\ queue # <<>>) ~> (pc[t] # "get" \/ queue = <<>>)
  /\ (pc[t] = "put" /\ ~full(queue)) ~> (pc[t] # "put" \/ full(queue))
=============================================================================
