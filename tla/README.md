# Python 1.4 with free threading: a TLA+ development

The repository is the Python 1.4 interpreter with the *free threading* patches
described in `src/threading.README`: with `WITH_FREE_THREAD` defined there is
no global interpreter lock, and lists, dictionaries, reference counts and the
per-thread interpreter state are protected by locks of their own.  Above the
interpreter the repository has Python code that several threads, processes or
machines run at once: queues, synchronization objects, a database, remote
procedure calls, lock files.  These two layers are the part of the program that
tests hardly reach; they are what this development models, checks with TLC and
proves with TLAPS.

`PROJECT.json` lists the components, the runs, the source lines every
definition stands for, the hazards and the theorems.  Run a check with
`tlc -config X.cfg M`, a proof with `tlapm M.tla`.

## 1. The system

| component | state | operations | interacts with | hard part |
|---|---|---|---|---|
| Pooled locks (`Python/pypooledlock.c`) | `pooled_lock_queue`; per lock: mutex, `waiting`, `thread_id`; per object: `ob_lock` | Lock, Unlock, LazyUnlock, LazyDone, Init | called by lists and dictionaries; uses `pymutex` | a lock moves between objects while threads wait for it; a count changed under two mutexes; deadlock detection by unlocked reads |
| Thread states (`Python/threadstate.c`) | linked list `states`, one node per thread | Init, New, Get, Ensure, Free | `threadmodule.c` (thread start and exit), every `PyThreadState_Get` of the evaluator | lock-free walks over a list that is rearranged and whose nodes are freed |
| Dictionaries (`Objects/mappingobject.c`) | table, `ma_size`, `ma_fill`, `ma_used` | lookup, insert, remove, clear, has_key, keys/values/items, resize | pooled locks; reference counts | open addressing must always stop; values read before the lock; allocation failing in a resize |
| Lists (`Objects/listobject.c`) | item vector | indexing, slices, concat, append, insert, remove, sort, compare | pooled locks, two at once | sizes read before the lock, lazy unlocking between elements, two locks |
| Mutexes, reference counts (`pymutex.c`, `object.h`) | `_Py_RefMutex`, `_Py_CritMutex`, `ob_refcnt` | Lock/Unlock, SafeIncr/SafeDecr, INCREF/DECREF | everything | who deallocates |
| Trace and profile functions (`sysmodule.c`, `threadstate.c`, `ceval.c`) | per-thread references | settrace, setprofile, inheritance by new threads, call_trace | thread states | references dropped while another thread copies them |
| Pending calls, ticker, interpreter lock (`ceval.c`) | ring of `NPENDINGCALLS` | AddPendingCall, MakePendingCalls, save/restore_thread | signals | handler that interrupts the holder of the lock; full ring; nested calls |
| Signals (`signalmodule.c`) | `tripped`, per-signal flags | handler, checksignals | pending calls | lost signals |
| Thread primitives (`thread_pthread.h`, `threadmodule.c`) | lock = mutex + condition variable + flag | acquire, release, start, exit | OS | missed wake-ups |
| Condition variables (`Demo/threads/sync.py`, class `condition`) | three thread locks, `id`, `waiting`, `pending`, `torelease`, `releasing` | acquire, release, wait, signal, broadcast | used by the four classes below | waits that begin during a release; a lock passed on like a baton; an id that starts again |
| `barrier`, `event`, `semaphore`, `mrsw` (same file) | counters under a condition's lock | enter; post, clear, wait; p, v; read_in, read_out, write_in, write_out, write_to_read | conditions | threads that overtake a woken one; signals nobody hears; exceptions under the lock |
| Queue (`Lib/Queue.py`) | list, `mutex`, `esema`, `fsema` | put, get, get_nowait | thread locks | two semaphores that must agree with the list; a try before the lock believed after it |
| dumbdbm (`Lib/dumbdbm.py`) | files .dat, .dir, .bak; index in memory | open, store, delete, close | the file system; other processes | a crash between two files; an index out of date |
| RPC (`Demo/rpc/rpc.py`) | client: `lastxid`, retries; server: none | make_call over UDP, broadcast, TCP; handle | the network | lost, late and repeated messages |
| CVS locks (`Demo/pdist/cvslock.py`) | lock files in a repository | ReadLock, WriteLock, MultipleWriteLock, unlock | the file system; other processes | a protocol of single system calls |
| Free lists (int, tuple, frame), access objects, import, start and exit, parser, other library modules | see `PROJECT.json` | | | see the plan |

What makes the modelled components correct:

* **Pooled locks**: an object is inside at most one thread; a free lock is
  always ready to be owned; the lock a thread waits for stays the object's
  lock; no lock is lost or shared; "deadlock detected" is raised for the holder
  and nobody else; somebody gets an object that is waited for.  All of this until
  a change of a `waiting` count is lost, which is the one thing that breaks it.
* **Thread states**: a thread that walks the list finds its own state, whatever
  the others move or throw out elsewhere; the list holds each live state once and
  ends.  The step that breaks it is the freeing of a state under a thread that
  stands on it.
* **Dictionaries**: the table implements a map; counters, references and probe
  sequences are exact across deletions, resizes and failed allocation; with
  several threads each operation takes effect at one instant, until one thread
  replaces or clears the table while another reads its fields, or has read them
  and waits for the lock.
* **Conditions**: a signal wakes one thread that waited before it, a broadcast
  all of them; wake-ups go on arriving, unless a waiter they are not meant for
  keeps the others from `checkout`.
* **Synchronization objects**: nobody passes too early, nobody is left behind.
* **Queue**: a bounded FIFO queue; nobody sleeps beside an item or beside room.
* **dumbdbm**: what was stored is found again, by everybody, after any crash -
  or it is known exactly what a crash can take away.
* **RPC**: a result belongs to its call; a call that has a timeout ends; it is
  executed at most as often as it was sent and the network duplicated it.
* **CVS locks**: a writer is alone.

## 2. Modules

| module | models | built on |
|---|---|---|
| `ObjectLock` | abstract: one lock per object, granted, refused or released | |
| `PooledLock` | `pypooledlock.c`, with the mutexes of `pymutex.h` on POSIX | refines `ObjectLock` |
| `PooledLockInv` | the inductive invariant | `PooledLock` |
| `PooledLockProofs` | theorems | `PooledLockInv` |
| `ThreadState` | `threadstate.c` | |
| `ThreadStateProofs` | theorems | `ThreadState` |
| `HashTable` | what lookmapping, insertmapping and mappingresize compute, as operators | |
| `ProbeSequence` | the loops of lookmapping, turn by turn | checks `HashTable` |
| `Dictionary` | abstract: a map | |
| `MappingFields` | the fields of struct mappingobject | `HashTable` |
| `MappingCounts` | what holds of the fields and the references when one thread uses them | `MappingFields`, `Dictionary` |
| `MappingObject` | one thread's use of a dictionary, with references and a failing calloc | `MappingCounts`, refines `Dictionary` |
| `SharedDictionary` | abstract: a map used through atomic calls of several threads | `Dictionary` |
| `MappingThreads` | several threads, the accesses outside the lock apart | `MappingFields`, refines `SharedDictionary` |
| `MappingProofs` | theorems | `MappingThreads`, `ProbeSequence`, `MappingCounts` with an instance of `MappingObject` |
| `WaitSet` | what a condition promises, as operators on a set of waiters | |
| `AbstractCondition` | abstract: a lock and a set of waiters | `WaitSet` |
| `Condition` | class `condition`, lock by lock | refines `AbstractCondition` |
| `ConditionProofs` | theorems | `Condition` |
| `SyncObjects` | `barrier`, `event`, `semaphore`, `mrsw` | `WaitSet` |
| `SyncObjectsProofs` | theorems | `SyncObjects` |
| `BoundedQueue` | abstract: a bounded FIFO queue | |
| `Queue` | `Queue.py` | refines `BoundedQueue` |
| `QueueProofs` | theorems | `Queue` |
| `DumbDbm` | `dumbdbm.py`, with crashes | |
| `DumbDbmProofs` | theorems | `DumbDbm` |
| `Rpc` | `rpc.py`, with the network | |
| `RpcProofs` | theorems | `Rpc` |
| `CvsLock` | `cvslock.py` | |
| `MC...` | constants and symmetries for TLC | |

Memory is sequentially consistent in all modules: a store is visible to every
thread at once and in program order.  What a weaker memory or a reordering
compiler could add is not modelled.

`TypeOK` of a module gives the types of its variables.  It is among the checked
properties of `PooledLock`; elsewhere it says less than the properties that are,
and can be added to a `.cfg`.  It is proved wherever there is a `...Proofs`
module, of `MappingThreads` up to the step that sets `outdated` (below).

Three modules record in a history variable that the program has done what its
own comments rule out: `torn` (`PooledLock`), `dangling` (`ThreadState`),
`outdated` (`MappingThreads`).  The code takes these steps and so do the models:
no guard and no constant keeps them away.  The properties of these modules hold
of every state and step up to the one that sets the variable, the theorems say
so for every instance, and section 3 says what happens afterwards.

A definition called `Bad...` is a faulty variant of the definition that follows
it.  It is used by no specification: replacing the good one by it must make a
property fail, which shows that the property is about that code.

### 2.1 PooledLock

The entry points take the address of an object's `ob_lock` field; `ob[t]` is
that object and `pl[t]` the local variable `pl`.  A step is what a thread does
between two accesses to state that another thread may change meanwhile.  Code
under `pooled_lock_mutex` is one step, with one exception: `waiting` is
incremented under `pooled_lock_mutex` (line 43) but decremented by
`PyPooledLock_LazyUnlock` under `_Py_RefMutex` (line 151; `Py_SafeDecr`,
`pymutex.c:67-69`).  Neither mutex keeps the other one out, so each of the two
is a load into `reg` and a store (`LockExisting`, `LockIncrStore`;
`LazyDecrLoad`, `LazyDecrStore`), and they interleave.  `torn` records that a
store has overwritten a value that was not the one loaded, so that a change of
the count is lost.  The two decrements under `pooled_lock_mutex` (lines 47 and
122) are one step each: while no count is torn nobody else can decrement.

The build is that with POSIX mutexes and `USE_DEADLOCK_DETECTION`; the NT build
is not modelled (section 5).  A thread that uses a NULL `*ppl` goes to `"segv"`
and stops.  Unlocking a POSIX mutex that another thread locked (line 137 does,
for a lock that came from the pool) is modelled as a plain unlock, which is what
the default mutexes of LinuxThreads do; POSIX leaves it undefined.

Callers are any sequence of Lock, Unlock, LazyUnlock and LazyDone calls in
which a thread unlocks only what it holds, does not call LazyDone while it
holds the object, and holds at most `MaxHeld` objects.

### 2.2 ThreadState

`states`, `next` and `thread_id` are the head and the fields of the nodes;
`heap` the nodes malloc returned and free did not get back.  A walker's load of
a link, and each store a walker can see, is a step of its own.  The test of
`thread_id` belongs to the step that follows it: the field is set before other
threads can find the state and does not change while it is in the list.  Freed
memory keeps its contents until malloc returns it again.  `Py_FatalError` stops
everything (`"fatal"`), and so does the null pointer that `PyThreadState_New`
passes to memset when malloc fails (`NewNoMemory`, `"segv"`).

`PyThreadState_Free` is not restricted: it takes a state out of the list whoever
walks.  `dangling` records that some thread stood on that state then
(`StandsOn`): it had reached it on its walk, or kept it as the `prev` it will
unlink its own state from.

### 2.3 Dictionaries

`HashTable` gives lookmapping a closed form: `Slots` is the probe sequence,
`Stops` the steps at which the search can stop, `Look` the slot returned.
`ProbeSequence` runs the C loops one turn at a time, in arithmetic modulo
`Word`, and shows that they agree.  The do-while loop that chooses the increment
ends when `sum` is no multiple of the size; `MaxTurns` bounds its turns in the
closed form, and `TurnsSuffice` says that the bound is large enough.  No bound is
for every word: with 64-bit words the hash 2^63 takes 41 turns in a table of 3.

In `MappingObject` an action is one whole operation, resize included, and
`refs` counts the references the dictionary owns.  `Incref` and `Xdecref` change
it one after the other, since the value stored, the key and the value replaced
may be the same object.  When calloc fails, or the primes run out, in a resize,
mappinginsert goes on if `ma_fill+1 <= ma_size` (line 364), which is
true also when a single NULL key is left.  `InsertUnresized` takes that step,
so that the table may fill up; `Stops(...) # {}` in the actions is where the
search for a missing key then never ends.  "There must be at least one NULL
key" (line 80) is therefore not among the properties of that run.

In `MappingThreads` every thread may call every operation at any time: insert,
remove, clear, lookup, has_key and keys (values and items have the same shape).
The code between `Py_MAP_LOCK` and `Py_MAP_UNLOCK` is one step (that is what
`PooledLock` establishes) and what the operations read before they lock is a
step of its own: the test for a resize (line 362), `oldsize` and `oldtable` of
mappingresize (line 255), the tests for a table (lines 321 and 400), the length
of the list that keys() allocates (line 683).  A lock that cannot be allocated
ends the call (`LockFails`; of mappingclear it just returns, line 432), a failed
calloc ends the resize (`ResizeFails`), and then the insertion gives up or goes
on (`InsertGivesUp`, `InsertAnyway`, line 364).  A search in a table that has
filled up goes round with the lock (`Spin`); lookmapping without a table divides
by zero, and the thread takes no further step.  A call records in `result` what
it returns: the value, whether the key is there, the keys listed.

`outdated` records that the table was replaced or cleared while another thread
had read its fields for a resize (`Reading`) or relied on the table it had seen
or made (`Relying`), and had not yet locked; or that a field was read without
the lock while another thread was inside a resize or a clear (`Observe`), where
it may see one of the values on the way.  `cramped` records that an insertion
went on after a failed resize.

### 2.4 Condition and SyncObjects

`Condition` takes one step for every lock a thread acquires, with the stores and
the releases up to the next one: the counters are guarded by `idlock`, and a
release never blocks.  `pc` names the place: `"wait"` and `"notify"` have
`idlock`; a `"pended"` thread is counted but still has the mutex; `"blocked"`,
`"checkout"` and `"turn"` are the loop; a `"woken"` thread is about to acquire
the mutex again.  Callers of wait() have the mutex, callers of broadcast() may
or may not have it.  The refinement maps `waiting` and `pending` to the two
halves of a set of waiters and `torelease` to the number of them that may leave.

`SyncObjects` has one object of a class chosen in the initial state.  A method
up to its release or wait is one step: everything it touches is guarded by the
one lock of its conditions, and `Condition` shows that waiting and releasing the
lock are atomic for the others.  Waking up (`Wake`) and having the lock again
(`...Resume`) are two steps, with others in between.  `jammed` says that an
exception left the lock acquired; only callers that misuse an object get there
(`Misuses`).  Of misuse only what raises an exception is modelled.  A read_out()
by a thread that does not read, while others do (line 447), and a write_out() by
a thread that does not write, while another does (line 465), succeed silently:
they take somebody else's place, after which `ReadersOrWriter` cannot hold, and
they are left out.  `seen` and `entered` are history: who was waiting when the event
was posted, and how often a barrier was entered.

### 2.5 Queue

One step per lock acquired, the critical section under `mutex` being one.
`esema` and `fsema` are Booleans, not owners: they are acquired by one thread
and released by another.  `locked` is get_nowait()'s local variable.

### 2.6 DumbDbm

The files are sequences: bytes that remember the key and the value they were
written for, and index lines.  A step is one change to the files, so that a
crash may come after each of them; the text format is left out.  `turn` is the
process that makes an update ("take turns making updates"), which others do not
interrupt, and during which no other process opens the database: `Open` asks for
it too.  `value`, `fresh`, `doubt`, `lost` and `messed` are history, used by
the properties to say what was stored and what is excused: a key whose own
update was interrupted (`doubt`), a crash inside _commit() (`lost`), a deletion
through an index that was out of date (`messed`), the case the module's comment
warns of.  The properties show that nothing else needs an excuse.  A crash clears
`fresh` for all keys, which excuses a little more than it must.

The module's comment also says "seems to contain a bug when updating..."
(line 9).  The properties are about updates, and they confine what that bug can
be: without a crash in the update or in _commit(), and without an index that is
out of date, every update is found again (`Durable`); and no key is ever given
bytes written for another one (`OwnBytes`).  In sequences of updates by one process there is no such
bug in the control modelled here; among processes it is the deletion recorded in
`messed`.

### 2.7 Rpc

Messages are records in two bags; losing one, duplicating it (at most `MaxDups`
times in all), delaying it or letting another one overtake it is the network's
choice, except on a TCP connection, where records arrive in order until the
connection breaks (`Break`) and the next receive raises EOFError (`RecvEOF`,
rpc.py:294, 302).  A resent call is another copy; `copied` counts the copies the
network made of a request.  `timed` says that select() exists and, for a
broadcast, that the timeout is not None: without it nothing ends a call to which
no reply comes (rpc.py:370, 413, 426), nor is there a timeout on TCP (line 9).
unpack_replyheader() raises an error before the caller compares the xid, so `Rejects` is asked before `Mine`.  `Interrupt` ends a call
between two records from outside; its reply then comes to the next call.
`Restart` gives a UDP port to another program or version.

### 2.8 CvsLock

One step per system call (mkdir, rmdir, open for writing, unlink, listdir with
stat).  A Lock object is identified by its process and repository.  `impatient`
is `delay <= 0`.  MultipleWriteLock locks its repositories impatiently, drops
all of them when one is locked, and - since it returns the built-in function
`list` instead of its locks - drops all of them when it is done.

## 3. Runs

| run | expected | instance | shows |
|---|---|---|---|
| `pooled` | pass | 2 threads, 2 objects, 2 locks, 2 objects held at once | `TypeOK`, `MutualExclusion`, `PooledReady`, `PlValidUntilTorn`, `NoLockLost`, `DetectionExact`, `ImplementsObjectLock`, and `WaiterProgress` under fairness; 39 000 states |
| `pooled_races` | violation | 3 threads, 1 object | `PlRemainsValid` fails: an increment is lost, and the lock a thread waits for goes to the pool |
| `threadstate_safety` | pass | 3 threads, 3 nodes | `StateAhead`, `ListExact`; 68 000 states |
| `probe_sequence` | pass | all 8-bit hashes, sizes 3, 7, 13, 31 | `LoopEnds`, `CoversTable`, `LoopsAgree` |
| `dict_nomem` | pass | 4 keys that collide, 2 values, tables of 3, 7 and 13 | `CountsExact`, `RefsExact`, `ActsAsDictionary` |
| `dict_threads` | pass | 2 threads, 3 keys, 1 value, 3 addresses, every operation in both threads | `TableThere`, `NullKeyLeft`, `NoTableLost`, `ImplementsDictionary`; 872 000 states |
| `sync_condition` | pass | 3 threads, broadcast(-1), (1) and (2), ids up to 3 | `CountsExact`, `OneBaton`, `ImplementsCondition`, `ReleaseGoesOn`; 29 000 states |
| `sync_objects` | pass | 4 threads, barrier(3), semaphore(3), 2 calls each | `BarrierHolds`, `BarrierOpens`, `EventArrives`, `NoIdleUnit`, `ReadersOrWriter`, `EverybodyIn`; 119 000 states |
| `queue` | pass | 3 threads, 2 items, sizes 0, 1, 2, 3 puts | `SemasExact`, `LetInRightly`, `ImplementsQueue`, `NobodySleepsOn`; 24 000 states |
| `dumbdbm` | pass | 2 processes, 2 keys, values of 0 to 3 bytes, blocks of 2, 4 updates | `OwnBytes`, `Durable`, `Recoverable`; 2 270 000 states |
| `rpc` | pass | 2 servers, 2 calls, 1 retry, 1 restart, 1 duplicated datagram | `ResultsAreMine`, `ExecutionsBounded`, `CallEnds`; 2 190 000 states |
| `cvslock` | violation | 2 processes, 2 repositories | `WriterHasMetaLock` fails: a writer that waited for a reader has no meta-lock |

Bounds, and why they suffice:

* *Locks*: two lock structures let two objects be in use at once, or one be in
  use while a lock is free, or two be free; a third one only makes malloc succeed
  more often.  Two threads give a holder and a waiter or a thread in LazyDone; the
  lost count that breaks `PlRemainsValid` takes a third thread, which
  `pooled_races` has.  The theorems hold for any number.  `MaxWaiting` only keeps
  a torn count finite.
* *What follows a defect*: `UpToTheTear`, `UpToTheDangling` and `UpToDate` end
  the search at the states where `torn`, `dangling` or `outdated` is set.  The
  variables are never reset and every property of these runs excuses what follows
  them (`ImplementsObjectLock` and `ImplementsDictionary` a step into such a state
  too), so no violation is hidden.  The states themselves are still checked.  For
  `WaiterProgress`, a step into such a state satisfies what is to follow, and
  counts as enabled for fairness.
* *Deadlock* is switched off where the program really may stop: two threads that
  lock two objects in opposite orders (`pooled`); after `Py_FatalError` or with
  every thread outside Python (`ThreadState`); at the end of a probe sequence; threads
  that wait for a signal, an item or room that never comes (`sync_condition`,
  `sync_objects`, `queue`); bounded numbers of calls and updates used up (there,
  `dumbdbm`, `rpc`).
* *States*: three nodes give a walker, the main thread and a third one whose
  state is between them.
* *Dictionaries*: `Word = 256` keeps the overflow of `3*sum + 1`; the hashes
  collide in the first slot of a table of 3, one of them also in a table of 7
  and with an overflow.  One of the values stored is also a key.  `MaxTurns = 8`
  is more than the turns any 8-bit hash takes with these sizes, which TLC
  evaluates (`TurnsAssumption`, `EveryHashAssumption`); the three hashes of
  `dict_threads` need 2.  Three addresses suffice
  for a table, its successor and one that another thread is about to free.  With
  two threads and three keys a table of 3 can fill up, since both may
  pass the test for a resize before either inserts.
* *Conditions*: with three threads one notifies while one is being released and
  one begins to wait.  Three ids let the id start again and grow once more.
  `ReleaseGoesOn` does not rest on that bound: with nobody pending a further
  notification only adds to `torelease`, and however many there are, `idlock` is
  got between two of them.
* *Synchronization objects*: with four threads and a barrier for three a fast
  thread overtakes a group that is still being woken up; two writers and two
  readers wait at the same time.
* *Queue*: sizes 1 and 2 are the smallest for which full and empty touch and do
  not touch; three puts fill the larger one and wait.
* *dumbdbm*: values of no block, one and two blocks, and of a block not full;
  four updates are a store, a second one that fits or does not, a deletion and
  an update through an index that is out of date, with a crash at any point.
* *RPC*: a retry and a duplicate are two late replies of the first call during
  the second.
* *Symmetry* is used for threads, objects, locks, nodes and processes in runs
  without liveness; keys have different hashes and are not symmetric.

Fairness.

* `PooledLock!FairSpec`: a thread inside a call goes on (the OS schedules every
  runnable thread) and gets `pooled_lock_mutex`, which is kept for a few
  instructions, if it is free again and again; and every lock that was granted is
  released (every list and dictionary operation unlocks on all paths).  These are
  strong fairness conditions on a thread's step and on its releases.  The property
  does not ask that a particular waiter gets the object, but that somebody gets it
  after its present holder.
* `ProbeSequence`: the loop keeps running.
* `Condition`: weak fairness of a thread's steps inside a call, and strong
  fairness of getting `idlock`, which is kept for a few instructions.  Nothing is
  assumed about who gets `checkout`.
* `Queue`: weak fairness of a thread's steps inside a call, and strong fairness of
  acquiring a thread lock.  `thread.allocate_lock` is a mutex and a condition
  variable (`Python/thread_pthread.h`), which does not promise it in theory.
  Nothing makes a thread call signal, put or get.
* `SyncObjects`: weak fairness of wake-ups, of going on after a wake-up, and of
  readers and writers leaving.  The first is what `ReleaseGoesOn` establishes
  where no waiter that is not meant keeps `checkout` from the others; that it
  lets go at last is assumed here.
* `Rpc`: a timeout expires, where there is one.  Nothing is assumed of servers, of
  the network or of TCP.

Observations.  The following disagreements between comments and code were seen
with the models; the first and the last are also runs.  Those that the history
variables record are reproduced by leaving the CONSTRAINT out of the `.cfg` and
the disjunct `torn`, `dangling` or `outdated` out of the property.

* Pooled locks: `waiting` is incremented under `pooled_lock_mutex` and
  decremented under `_Py_RefMutex`.  A lock that somebody waits for may go to the
  pool (run `pooled_races`), against "INVARIANT: waiting >=1; <pl> will remain
  valid" (pypooledlock.c:54, 85); with two objects it is then the lock of both,
  and `MutualExclusion`, `NoLockLost` and `DetectionExact` fail after it.
* Thread states: a thread that frees its state under another one that stands on
  it leaves that thread in freed memory.  Used as `prev`, the freed state's link
  is changed instead of the list's, and the thread's own state, still in the list,
  is pushed to the front: the list becomes a circle.  `StateAhead` and `ListExact`
  fail, and with them what threadstate.c:22 says of the links.
  "This removes us from the list, but nobody else cares" (threadstate.c:91):
  PyThreadState_New does care, and does not find the main thread's state while
  the main thread moves it (action `NewNext` to `"fatal"`).
* Thread states: "progressing through the links will eventually bring you to
  the proper state structure" (threadstate.c:27) holds as the safety property
  `StateAhead`, but not as a liveness property: with three threads under weak
  fairness, a walker that stands on another thread's node is carried back to the
  front each time that thread moves it, forever.
* Dictionaries, of which threading.README:243 says "Added thread safety to lists
  and dictionaries": two inserting threads may both replace the same old table
  (mappingobject.c:255), after which a table is freed twice or lost and items are
  gone (`NoTableLost`, `ImplementsDictionary`); a lookup or a removal that tested
  `ma_table` (lines 321, 400) before a clear computes `% 0` (`TableThere`).  These
  set `outdated`.  Three more happen without it: two insertions that both pass the
  test of line 362 may fill up a table of 3, where the search for a missing key
  then never ends, with the lock (`Spin`); the list of keys() is sized before the
  lock (line 683) and may be too short or keep NULLs; and clear() returns as if it
  had cleared when it gets no lock (line 432).
* Conditions: a waiter that is not meant takes `checkout`, gives it back and takes
  it again, and may do so for ever (`ReleaseGoesOn` excuses it): the busy waiting
  the algorithm accepts.
* RPC: a refusal of an earlier call ends the next one, and one server that
  refuses ends a broadcast that others have answered (`Rejects` before `Mine`);
  "Can't really happen since this is TCP..." (rpc.py:352) happens after an
  interrupted call (`outcome.how = "wrong xid"`).
* Semaphores: v() above the initial value raises NameError instead of ValueError
  (`maxcount` for `self.maxcount`), and leaves the lock acquired.
* CVS locks: MultipleWriteLock returns the built-in `list`, so its locks are
  gone when it returns (`MultiReturn`).  A writer that waited for a reader works
  without the meta-lock (run `cvslock`).

## 4. Proofs

### 4.1 Pooled locks

For any sets of threads (finite), objects and locks, and any `MaxHeld` and
`MaxWaiting`; the assumptions are those of `ConstantAssumption`: NULL is none of
the values, the bounds are numbers.

* `PooledLockProofs!TypeCorrect`: `Spec => []TypeOK`, after a lost count too.
  `TypeOK` alone is not inductive, because steps write through
  `pl[t]` and `ob[t]`: `Operands` says when these are a lock and an object.
* `PooledLockProofs!InvHolds`: `Spec => []IInv`, where `IInv` is `torn \/ Sound`:
  the increments and decrements race as in the code, and everything below holds
  up to the step that loses one.
* From `IInv`: `ExclusionHolds`, `ValidHolds`, `ReadyHolds`, `DetectionHolds`
  and `NoLockLostHolds` (the last with `Accounted`: every allocated lock is
  somewhere).
* `PooledLockProofs!Refinement`: `Spec => ImplementsObjectLock`.

The argument.  None of the safety properties is inductive: that a thread may
take the mutex depends on where the lock is, where the lock is depends on
`waiting`, and `waiting` is right only if it counts exactly the threads that
use the object.  `Sound` therefore speaks of the object: `Asks` (counted, mutex
not yet granted), `Has` (counted, mutex granted), `Leaves` (no longer counted,
mutex not yet released).  `Counts` says that `waiting` is the number of askers
plus one if some thread has the object; `Exclusion` that one thread at most has
or leaves it, with the mutex locked meanwhile; `Idents` when `thread_id` names
it; `Places` that a lock is in one object or in the queue; `Operand` that `pl`
is the object's lock; `Mutexes` who has `pooled_lock_mutex`.  A lock leaves an
object only when `waiting` is 1 in Unlock or 0 in LazyDone, and by `Counts`
nobody asks for it then, so `Operand` survives.  A thread between the load and
the store of an increment or a decrement has the count in `reg`; if the count is
still the same at the store, `Counts` is kept, and if not the step sets `torn`.
The proof has one lemma for each action and one step per conjunct.

### 4.2 Queue

For any threads, items, sizes (naturals; 0 is no bound) and `MaxPuts`.

* `QueueProofs!SemasHold`, `LetInHolds`: `Spec => []SemasExact` and
  `Spec => []LetInRightly`.  The two need each other: that put() may open
  `esema` on an empty queue needs that nobody holds it (`LetInRightly`), and
  that get_nowait() with `esema` finds an item needs that `esema` was closed
  while somebody else held it (`SemasExact`).  `IInv` adds who has the mutex
  (`MutexExact`), what a thread keeps (`Locals`) and that the list is not longer
  than `maxsize` (`Bounded`), without which full() - which asks for equality -
  could be false of a queue that is too long.
* `QueueProofs!Refinement`: `Spec => ImplementsQueue`.

### 4.3 Condition

For any finite set of threads, any `MaxId` (which only bounds `id`) and any arguments of broadcast()
(`Nums`: -1 or a positive number).

* `ConditionProofs!CountsHold`, `BatonHolds`: `Spec => []CountsExact` and
  `Spec => []OneBaton`.
* `ConditionProofs!Refinement`: `Spec => ImplementsCondition`.

The argument.  `IInv` adds to the two properties who has `idlock`
(`IdlockExact`) and the mutex inside wait() (`MutexInWait`), what a notifying
thread keeps (`Notifying`) and that no waiter has an id above the current one
(`Ids`).  `CountsExact` is not inductive without `Ids`: broadcast() moves all of
`pending` into `waiting` by increasing `id`, which is right only if whoever
waits has an id that is now smaller.  When `waiting` is 0 and `id` starts again,
`CountsExact` itself gives that nobody has an old id.  In the refinement every
step up to the one that moves counters maps to a stutter.

### 4.4 SyncObjects

For any finite set of threads, any size `N` above 0 and any number of calls,
with callers that misuse an object in ways that raise an exception.

* `SyncObjectsProofs!TypeHolds`, `BarrierNeverLeaks`, `UnitsNeverIdle`,
  `ReadersExcludeWriters`: `TypeOK`, `BarrierHolds`, `NoIdleUnit` and
  `ReadersOrWriter` always hold.

The argument.  `Waits` ties the threads inside a condition to the method they
are in, so that a wake-up changes the right set.  `BarrierCounts` says that the
threads that wait for the next broadcast are the `N - togo` that entered since
the last full group, and that `entered` is that number above a multiple of `N`;
`BarrierHolds` follows.  `Units` and `Roles` are the two other properties with
what they need beside them (`count` is at most `N`; who is blocked is not
inside).  The counting steps are lemmas on sets of threads that gain or lose
one member.

### 4.5 Rpc

For any servers, arguments, number of retries, of calls, of restarts and of
duplicated datagrams.

* `RpcProofs!TypeHolds`, `ResultsMatchCalls`, `NoExtraExecution`: `TypeOK`,
  `ResultsAreMine` and `ExecutionsBounded` always hold.

The argument.  `Current` says that the xid identifies a call: nothing under way
has an xid beyond the last, and whatever carries the last one while a call is in
progress was made for that call.  `Collected` says the same of the replies a
broadcast has gathered.  `SendsCover` says that the executions of a call and its
requests under way together are at most the sends and the copies that the network
made of them; it is what makes `ExecutionsBounded` inductive, since a server may
execute each of the copies.

### 4.6 DumbDbm

For any finite set of keys, values of any lengths, any block size above 0, any
processes and number of updates, and a crash after any change to a file.

* `DumbDbmProofs!TypeHolds`, `BytesStayOwn`, `ValuesSurvive`, `BackupRecovers`:
  `TypeOK`, `OwnBytes`, `Durable` and `Recoverable` always hold.

The argument.  `OwnBytes` speaks of the bytes an index leads to; but a value
that fits is written over the blocks of the old one, which are more than its
bytes, by a process whose index may be out of date.  `IInv` therefore speaks of
areas - whole blocks - and of every `Entries` there is: in the indices in
memory, in all lines of .dir and .bak, also those that later lines replace, and
in an update under way.  `Apart` says that areas of different keys do not
overlap, `InFile` that they lie within the blocks of the data file and their
bytes are the key's own.  A new value goes behind all areas, an old one stays
within its own: both are kept by every process, fresh or not.  `Contents` and
`UnderWay` then say what the files hold at each step of an update.  The lemmas
underneath are about rounding up to blocks (`CapMonotone`, `CapSum`) and about
reading an index file, where the last line of a key wins (`IndexAppend`,
`IndexWritten`).

### 4.7 Thread states

For any threads and addresses, with threads that free their states at any time,
up to the step that frees one under a thread that stands on it (`IInv` is
`dangling \/ Sound`).

* `ThreadStateProofs!AheadHolds`, `ListStaysExact`: `StateAhead` and `ListExact`
  always hold.

The argument.  `List(Listed, states, next)` says that the links make one list of
the states that are not private to their thread and not being moved;
`Proper(t)` says what holds of each thread where it is, above all that a walker
stands on a member of the list or on the state being moved, that that state
still leads into the list, and that the walker's own state is ahead of it.  A
thread moves only its own state, which is never the one another thread looks
for; so unlinking one node and pushing it to the front takes nothing else away
from what is ahead of a walker (`FromUnlink`, `FromLink`).  A state that is
thrown out while nobody stands on it is an inner one of a walker's way, or behind
it, and never the one the walker looks for.  What is ahead is
the least set that contains a node and is closed under `next`; reasoning about
closed sets takes the place of induction along the list.

### 4.8 Dictionaries

For any keys, values, hashes, word size and `MaxTurns`, and, where threads share
a dictionary, any threads and addresses.  The assumptions: NULL and the dummy are
nothing a program stores (`TableAssumption`, `NullAssumption`, `CallAssumption`),
and `MaxTurns` turns suffice for the hashes of the keys (`TurnsAssumption`) or,
in `OperatorsAgree` only, for every hash (`EveryHashAssumption`).  TLC evaluates
them on every run with a hash table.

*The probes.*

* `ProbesCoverTable`: `ProbeSpec => []CoversTable`.
* `OperatorsAgree`: `ProbeSpec => []LoopsAgree`.

Were two of the first *n* probes the same slot, some *k* below *n* would make
`k * incr` a multiple of *n*.  The least such *k* divides every other one, *n*
itself among them, and *n* is a prime: it is 1 or *n*, and neither is possible
(`SlotsDiffer`).  *n* different slots are all slots (`SlotsCover`).  The invariant
of the loops, `LInv`, says which turn the do-while loop is in and which part of
the table has been looked at.

*One thread.*

* `CountsStayExact`, `RefsStayExact`, `ObjectTypes`: `CountsExact`, `RefsExact`
  and `TypeOK` of `MappingObject` always hold.
* `ObjectIsDictionary`: `MappingObject` implements `Dictionary`
  (`ActsAsDictionary`).

The counters of an insertion are right only if the search found the key wherever
it is; so the invariant `OInv` says where keys are.  A table is `Hashed` if every
item is *reached*: a search for its key stops at no slot before it (so that no key
is in it twice).  An insertion takes the slot the search returns, which other searches
passed as NULL or as a dummy at most; a removal puts a dummy there, at which no
search stops; a resize inserts the items one by one into an empty table of prime
size, which the probes cover, so that every insertion finds room.  With `Hashed`,
`Contents` changes at the key inserted or removed only, and the sizes of the sets
counted change by one.  `Exact` says that of the references too.

The references were first written as one sum of increments and decrements for an
insertion or removal; the proof of `RefsStayExact` failed where the value stored
is the key itself, which the run did not have among its values.  `Incref` and
`Xdecref` and the value `k1` of the run came from that.

*Several threads*, each calling any operation at any time, with locks and calloc
that fail.

* `TableStays`, `TablesAccountedFor`, `NullKeyStays`: `TableThere`, `NoTableLost`
  and `NullKeyLeft` always hold.
* `LargeTablesSearched`: a table with three slots for each thread has a NULL key,
  unless an insertion went on after a failed resize: there every search stops.
* `ThreadsShareDictionary`: `MappingThreads` implements `SharedDictionary`
  (`ImplementsDictionary`).
* `ThreadTypes`: `[](outdated \/ TypeOK)`.

`IInv` is `outdated \/ Sound`.  `Locked` says who has the lock.  `NotStale`: what
mappingresize read before it locked is still so when it has the lock, since
whoever replaces the table in between sets `outdated`.  `HasTable`: from the test
made without the lock up to the use under the lock there is a table.  `Counted`
says that the counters are exact and the table is `Hashed`, `Owned` and `Sized`
that a table is the dictionary's or that of the one thread that frees it.  `Room`
is what is left of the rule of two thirds when the test of line 362 is made
without the lock: with one slot set aside for each thread in flight between the
test and its insertion (`InFlight`), the table exceeds two thirds by less than
one slot per thread, since a thread comes into flight only below two thirds.  In the refinement a call maps to `Ask`, the step under the lock
(or the test that finds no table, or the failure) to `Answer` with what the table
then holds, and a resize - table replaced, the old one freed later - to a
stutter, because rehashing keeps the contents.

The recursive functions `Copies` and `Sum` are shown to exist (`Recursion`) and
to have these properties by their least counterexample, since the induction
theorems of the library cannot be instantiated.  Where the primes of the model
have run out no thread resizes (`HasPrime`).

### 4.9 Only model-checked

All liveness properties (`WaiterProgress`, `LoopEnds`, `ReleaseGoesOn`,
`BarrierOpens`, `EventArrives`, `EverybodyIn`, `NobodySleepsOn`, `CallEnds`),
which are beyond the prover; and `CvsLock`.  Every other property of a passing
run is a theorem.  `PlRemainsValid` and `WriterHasMetaLock` are the two properties
that fail.

## 5. Not modelled

The bytecode semantics, the compiler, long arithmetic, string formatting,
marshalling and dynamic loading are data-heavy and sequential; extension
modules wrap C libraries and were "not inspected for threading needs"
(`threading.README`); `graminit.c` is generated.

Most of the Python code of the repository is of that kind too: Tkinter, cgi,
aifc, the documentation converters, the SGI video demos and the clients of text
protocols convert formats or drive hardware and user interfaces, one step after
the other, and keep no state that two actors share or a failure can tear.  There
is nothing in them for a model checker that a unit test does not reach; they are
listed as components and left out.

Inside the modelled components: the NT build of the pooled locks, where a
CRITICAL_SECTION lets its owner in again (so that a lock in the pool still lets in
the thread that put it there) and `thread_id` does not exist; what a thread state refers to (frame, exception, trace functions); of
dictionaries, mapping_compare, mapping_print, mapping_repr and mappinggetnext,
and deallocation; of dumbdbm, a write torn by a crash (a line or a small value
leaves stdio's buffer in one call), truly simultaneous updates and an open during
another process's update; of readers and writers, misuse that raises nothing; of
RPC, the
port mapper, XDR, authentication, forking servers, an interrupt inside a record
and two client objects on one port; of the CVS locks, processes killed with
their lock files in place.

## 6. Plan

1. Done: all modules of section 2 are checked; `Queue`,
   `Condition`, `SyncObjects`, `Rpc`, `DumbDbm`, `ProbeSequence` and
   `MappingObject`, and `PooledLock`, `ThreadState` and `MappingThreads` up to the
   defects their history variables name, are proved: no safety property of theirs
   is left to TLC alone.
2. To model: settrace and setprofile with their inheritance by
   `PyThreadState_New`; lists on `ObjectLock` (concat, slice assignment, remove,
   with two locks and lazy unlocking); reference counts; pending calls and
   signals; the locks of `thread_pthread.h`; `mutex` and `sched` of the library;
   free lists, access objects, import, start and exit; last, the parser.
