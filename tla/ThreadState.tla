----------------------------- MODULE ThreadState -----------------------------
(***************************************************************************)
(* Python/threadstate.c: the linked list of per-thread states.  Readers    *)
(* walk it without a lock while other threads move their own state to the  *)
(* front, push a new one or remove one; writers hold states_mutex.         *)
(*                                                                         *)
(* Every load of states or p->next by a walker is a step of its own, and   *)
(* so is every store a walker can see.  The thread_id of a state is set    *)
(* before others can find it and never changes, so its test belongs to the *)
(* step that follows.  What a writer only reads under states_mutex belongs *)
(* to its next store.                                                      *)
(***************************************************************************)
EXTENDS Integers, FiniteSets

CONSTANTS
  Thread,      \* thread identifiers (get_thread_ident)
  main_thread, \* the thread that called _PyThreadState_Init
  Node,        \* addresses malloc() can return for a PyThreadStateLL
  NULL         \* the null pointer

ASSUME ConstantAssumption ==
  /\ main_thread \in Thread
  /\ NULL \notin Thread
  /\ NULL \notin Node
  /\ Node # {}

VARIABLES
  states,        \* head of the list
  next,          \* p->next
  thread_id,     \* p->thread_id
  heap,          \* the nodes malloc() returned and free() did not get back
  states_mutex,  \* its owner, or NULL
  pc,            \* where each thread is
  pts,           \* the local variable pts
  prev,          \* prev of PyThreadState_Get; ptsMain of PyThreadState_New
  dangling       \* history: a state was thrown out under a thread that stood
                 \* on it

vars == <<states, next, thread_id, heap, states_mutex, pc, pts, prev, dangling>>

\* "none": a thread Python does not know; "run": one that has a state;
\* "fatal": after Py_FatalError; "segv": after a null pointer was followed.
PCs == {"none", "run", "ensure", "new", "new_find", "new_link", "new_front",
        "get", "get_lock", "get_link", "get_front", "free", "fatal", "segv"}

\* The thread has reached n on its walk for its own state, or will use n as
\* the predecessor of its state, and holds no mutex that keeps n there.
StandsOn(t, n) ==
  \/ pc[t] \in {"get", "ensure"} /\ pts[t] = n
  \/ pc[t] \in {"get", "get_lock"} /\ prev[t] = n

\* The process is gone: no thread takes another step.
Aborted == \E t \in Thread : pc[t] \in {"fatal", "segv"}

Goto(t, from, to) ==
  /\ ~Aborted
  /\ pc[t] = from
  /\ pc' = [pc EXCEPT ![t] = to]

\* The nodes that following the links from n visits: the least set that
\* contains n and is closed under next.
Closed(S) == \A m \in S : next[m] # NULL => next[m] \in S

Reach(n) ==
  {m \in Node : \A S \in SUBSET Node : n \in S /\ Closed(S) => m \in S}

-----------------------------------------------------------------------------
(* _PyThreadState_Init: the main thread has created its own state.         *)

Init ==
  \E n \in Node :
    /\ states = n
    /\ next = [m \in Node |-> NULL]
    /\ thread_id = [m \in Node |-> IF m = n THEN main_thread ELSE NULL]
    /\ heap = {n}
    /\ states_mutex = NULL
    /\ pc = [t \in Thread |-> IF t = main_thread THEN "run" ELSE "none"]
    /\ pts = [t \in Thread |-> IF t = main_thread THEN n ELSE NULL]
    /\ prev = [t \in Thread |-> NULL]
    /\ dangling = FALSE

-----------------------------------------------------------------------------
(* PyThreadState_Get                                                       *)

\* pts = states
GetCall(t) ==
  /\ Goto(t, "run", "get")
  /\ pts' = [pts EXCEPT ![t] = states]
  /\ prev' = [prev EXCEPT ![t] = NULL]
  /\ UNCHANGED <<states, next, thread_id, heap, states_mutex, dangling>>

\* The fast path: the first state is the caller's.
GetFast(t) ==
  /\ Goto(t, "get", "run")
  /\ prev[t] = NULL
  /\ thread_id[pts[t]] = t
  /\ UNCHANGED <<states, next, thread_id, heap, states_mutex, pts, prev, dangling>>

\* prev = pts; pts = pts->next; at the end of the list, "could not find
\* thread state".
GetNext(t) ==
  /\ Goto(t, "get", IF next[pts[t]] = NULL THEN "fatal" ELSE "get")
  /\ thread_id[pts[t]] # t
  /\ prev' = [prev EXCEPT ![t] = pts[t]]
  /\ pts' = [pts EXCEPT ![t] = next[pts[t]]]
  /\ UNCHANGED <<states, next, thread_id, heap, states_mutex, dangling>>

\* Found behind the first one: it will be moved to the front.
GetFound(t) ==
  /\ Goto(t, "get", "get_lock")
  /\ prev[t] # NULL
  /\ thread_id[pts[t]] = t
  /\ UNCHANGED <<states, next, thread_id, heap, states_mutex, pts, prev, dangling>>

\* prev, found again where "another thread moved the prior threadstate".
Pred(t) ==
  IF next[prev[t]] = pts[t]
  THEN prev[t]
  ELSE CHOOSE p \in Reach(states) : next[p] = pts[t]

BadUnlinked(t) == next

\* prev->next = pts->next
Unlinked(t) == [next EXCEPT ![Pred(t)] = next[pts[t]]]

\* Lock; unlink pts.  Where the list holds no predecessor the
\* search for it never ends.
GetUnlink(t) ==
  /\ Goto(t, "get_lock", "get_link")
  /\ states_mutex = NULL
  /\ \E p \in Reach(states) \cup {prev[t]} : next[p] = pts[t]
  /\ states_mutex' = t
  /\ prev' = [prev EXCEPT ![t] = Pred(t)]
  /\ next' = Unlinked(t)
  /\ UNCHANGED <<states, thread_id, heap, pts, dangling>>

BadGetLink(t) ==
  /\ Goto(t, "get_link", "get_front")
  /\ states' = pts[t]
  /\ UNCHANGED <<next, thread_id, heap, states_mutex, pts, prev, dangling>>

\* pts->next = states
GetLink(t) ==
  /\ Goto(t, "get_link", "get_front")
  /\ next' = [next EXCEPT ![pts[t]] = states]
  /\ UNCHANGED <<states, thread_id, heap, states_mutex, pts, prev, dangling>>

\* states = pts; unlock; return &pts->state
GetFront(t) ==
  /\ Goto(t, "get_front", "run")
  /\ states' = pts[t]
  /\ states_mutex' = NULL
  /\ UNCHANGED <<next, thread_id, heap, pts, prev, dangling>>

-----------------------------------------------------------------------------
(* PyThreadState_New                                                       *)

\* A thread that start_new_thread created (t_bootstrap).
NewCall(t) ==
  /\ Goto(t, "none", "new")
  /\ UNCHANGED <<states, next, thread_id, heap, states_mutex, pts, prev, dangling>>

\* malloc(), memset(), thread_id = get_thread_ident(); ptsMain = states
NewMalloc(t, n) ==
  /\ Goto(t, "new", "new_find")
  /\ n \notin heap
  /\ heap' = heap \cup {n}
  /\ next' = [next EXCEPT ![n] = NULL]
  /\ thread_id' = [thread_id EXCEPT ![n] = t]
  /\ pts' = [pts EXCEPT ![t] = n]
  /\ prev' = [prev EXCEPT ![t] = states]
  /\ UNCHANGED <<states, states_mutex, dangling>>

\* malloc() returns NULL, which memset() writes to.
NewNoMemory(t) ==
  /\ Goto(t, "new", "segv")
  /\ pts' = [pts EXCEPT ![t] = NULL]
  /\ UNCHANGED <<states, next, thread_id, heap, states_mutex, prev, dangling>>

\* ptsMain = ptsMain->next, or "could not find main thread state"
NewNext(t) ==
  LET p == next[prev[t]] IN
  /\ Goto(t, "new_find", IF p = NULL THEN "fatal" ELSE "new_find")
  /\ thread_id[prev[t]] # main_thread
  /\ prev' = [prev EXCEPT ![t] = p]
  /\ UNCHANGED <<states, next, thread_id, heap, states_mutex, pts, dangling>>

\* The main thread's state is found; what is inherited from it is left out.
NewFound(t) ==
  /\ Goto(t, "new_find", "new_link")
  /\ thread_id[prev[t]] = main_thread
  /\ UNCHANGED <<states, next, thread_id, heap, states_mutex, pts, prev, dangling>>

\* Lock; pts->next = states
NewLink(t) ==
  /\ Goto(t, "new_link", "new_front")
  /\ states_mutex = NULL
  /\ states_mutex' = t
  /\ next' = [next EXCEPT ![pts[t]] = states]
  /\ UNCHANGED <<states, thread_id, heap, pts, prev, dangling>>

\* states = pts; unlock
NewFront(t) ==
  /\ Goto(t, "new_front", "run")
  /\ states' = pts[t]
  /\ states_mutex' = NULL
  /\ UNCHANGED <<next, thread_id, heap, pts, prev, dangling>>

-----------------------------------------------------------------------------
(* PyThreadState_Ensure, called by a C program's thread before it calls    *)
(* into Python: for the first time, or from a function that Python called. *)

EnsureCall(t) ==
  /\ ~Aborted
  /\ pc[t] \in {"none", "run"}
  /\ pc' = [pc EXCEPT ![t] = "ensure"]
  /\ pts' = [pts EXCEPT ![t] = states]
  /\ UNCHANGED <<states, next, thread_id, heap, states_mutex, prev, dangling>>

EnsureNext(t) ==
  /\ Goto(t, "ensure", "ensure")
  /\ pts[t] # NULL
  /\ thread_id[pts[t]] # t
  /\ pts' = [pts EXCEPT ![t] = next[pts[t]]]
  /\ UNCHANGED <<states, next, thread_id, heap, states_mutex, prev, dangling>>

\* return 0
EnsureFound(t) ==
  /\ Goto(t, "ensure", "run")
  /\ pts[t] # NULL
  /\ thread_id[pts[t]] = t
  /\ UNCHANGED <<states, next, thread_id, heap, states_mutex, pts, prev, dangling>>

\* PyThreadState_New(); return 1
EnsureMiss(t) ==
  /\ Goto(t, "ensure", "new")
  /\ pts[t] = NULL
  /\ UNCHANGED <<states, next, thread_id, heap, states_mutex, pts, prev, dangling>>

-----------------------------------------------------------------------------
(* PyThreadState_Free                                                      *)

Own(t) == {n \in Reach(states) : thread_id[n] = t}

\* Take n out of the list: it is the first one or has a predecessor.
Remove(t, n) ==
  IF states = n
  THEN states' = next[n] /\ UNCHANGED next
  ELSE LET p == CHOOSE p \in Reach(states) : next[p] = n
       IN next' = [next EXCEPT ![p] = next[n]] /\ UNCHANGED states

\* Lock, search, unlink, unlock; "could not find thread state for freeing"
\* keeps the mutex.  The main thread's state is never thrown out.  Nobody
\* asks whether another thread stands on the state.
FreeUnlink(t) ==
  /\ t # main_thread
  /\ states_mutex = NULL
  /\ IF Own(t) = {}
     THEN /\ Goto(t, "run", "fatal")
          /\ states_mutex' = t
          /\ UNCHANGED <<states, next, pts, dangling>>
     ELSE LET n == CHOOSE n \in Own(t) : TRUE IN
          /\ Goto(t, "run", "free")
          /\ Remove(t, n)
          /\ pts' = [pts EXCEPT ![t] = n]
          /\ dangling' = (dangling \/ \E u \in Thread : StandsOn(u, n))
          /\ UNCHANGED states_mutex
  /\ UNCHANGED <<thread_id, heap, prev>>

\* Py_XDECREF of what it refers to; free(pts).  The memory keeps its
\* contents until malloc() returns it again.
FreeNode(t) ==
  /\ Goto(t, "free", "none")
  /\ heap' = heap \ {pts[t]}
  /\ UNCHANGED <<states, next, thread_id, states_mutex, pts, prev, dangling>>

-----------------------------------------------------------------------------

Get_(t) ==
  GetFast(t) \/ GetNext(t) \/ GetFound(t) \/ GetUnlink(t) \/ GetLink(t)
  \/ GetFront(t)

New_(t) ==
  \/ \E n \in Node : NewMalloc(t, n)
  \/ NewNoMemory(t) \/ NewNext(t) \/ NewFound(t) \/ NewLink(t) \/ NewFront(t)

Ensure_(t) == EnsureNext(t) \/ EnsureFound(t) \/ EnsureMiss(t)

Call_(t) == GetCall(t) \/ NewCall(t) \/ EnsureCall(t) \/ FreeUnlink(t)

Step(t) == Get_(t) \/ New_(t) \/ Ensure_(t) \/ FreeNode(t)

Next == \E t \in Thread : Step(t) \/ Call_(t)

Spec == Init /\ [][Next]_vars

-----------------------------------------------------------------------------
(* Properties.                                                             *)

TypeOK ==
  /\ states \in Node
  /\ next \in [Node -> Node \cup {NULL}]
  /\ thread_id \in [Node -> Thread \cup {NULL}]
  /\ heap \subseteq Node
  /\ states_mutex \in Thread \cup {NULL}
  /\ pc \in [Thread -> PCs]
  /\ pts \in [Thread -> Node \cup {NULL}]
  /\ prev \in [Thread -> Node \cup {NULL}]
  /\ dangling \in BOOLEAN

(* The next two hold until a state is thrown out under a thread that       *)
(* stands on it: what follows is excused, nothing before it.               *)

\* "progressing through the links will eventually bring you to the proper
\* state structure" (threadstate.c:27), as the safety property behind it: the
\* state of a thread that walks the list to find it is always ahead of it,
\* whatever the other threads have moved or thrown out meanwhile, elsewhere.
StateAhead ==
  dangling \/ \A t \in Thread :
    \/ pc[t] = "get"
    \/ pc[t] = "ensure" /\ \E n \in heap : thread_id[n] = t
    => /\ pts[t] # NULL
       /\ \E n \in Reach(pts[t]) : thread_id[n] = t

\* Outside a move the list holds exactly the states that were created and
\* not thrown out, one for each thread, and it ends.
ListExact ==
  dangling \/ (states_mutex = NULL =>
    /\ Reach(states) =
         {n \in heap : \A t \in Thread :
            pts[t] = n =>
              pc[t] \notin {"new_find", "new_link", "free", "fatal"}}
    /\ \A m, n \in Reach(states) : thread_id[m] = thread_id[n] => m = n
    /\ \E n \in Reach(states) : next[n] = NULL)
=============================================================================
