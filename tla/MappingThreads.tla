---------------------------- MODULE MappingThreads ----------------------------
(***************************************************************************)
(* Objects/mappingobject.c in the WITH_FREE_THREAD build: one dictionary,  *)
(* several threads, each of which may call any operation at any time.  The *)
(* code between Py_MAP_LOCK and Py_MAP_UNLOCK is one step (module          *)
(* PooledLock is about the lock); what the operations read before they     *)
(* lock is a step of its own, and a read while another thread replaces or  *)
(* clears the table is told apart, since it may see any of the values that *)
(* the fields have on the way.  References are the subject of              *)
(* MappingObject.                                                          *)
(***************************************************************************)
EXTENDS MappingFields

CONSTANTS
  Thread,
  Addr     \* addresses calloc() can return for a table

ASSUME ThreadsAssumption ==
  /\ NULL \notin Thread \cup Addr
  /\ IsFiniteSet(Thread)

VARIABLES
  heap,      \* [Addr -> a table; NULL: not allocated]
  holder,    \* the thread that has locked the dictionary, or NULL
  pc,
  key, value,           \* arguments of the call in progress
  oldtable, oldsize,    \* local variables of mappingresize
  len,                  \* length of the list that mapping_keys allocated
  result,               \* how the last call ended, of a thread that is idle
  outdated,  \* history: the table was replaced or cleared under a thread that
             \* was reading its fields, or had read them and waited for the lock
  cramped    \* history: after a failed resize an insertion went on

mp == <<ma_table, ma_size, ma_fill, ma_used>>
locals == <<key, value, oldtable, oldsize, len>>
history == <<outdated, cramped>>
vars == <<mp, heap, holder, pc, locals, result, history>>

PCs == {"idle", "insert_check", "resize_size", "resize_table", "resize_lock",
        "resize", "resize_free", "resize_failed", "insert_lock", "insert",
        "remove_check", "remove_lock", "remove", "clear_lock", "clear",
        "lookup_check", "lookup_lock", "lookup", "has_key_lock", "has_key",
        "keys_lock", "keys"}

Goto(t, from, to) ==
  /\ pc[t] = from
  /\ pc' = [pc EXCEPT ![t] = to]

\* How a call ends: "failed" with an exception (mappingclear just returns),
\* "done" or "KeyError", "yes" or "no", a value, or a list of keys.
None == [is |-> "none"]
Failed == [is |-> "failed"]
Done == [is |-> "done"]
KeyError == [is |-> "KeyError"]
Found(v) == [is |-> "value", value |-> v]
Has(b) == [is |-> IF b THEN "yes" ELSE "no"]
List(S) == [is |-> "list", keys |-> S]

\* A call with key k and value v, or NULL where it has none.
Call(t, to, k, v) ==
  /\ Goto(t, "idle", to)
  /\ key' = [key EXCEPT ![t] = k]
  /\ value' = [value EXCEPT ![t] = v]
  /\ result' = [result EXCEPT ![t] = None]
  /\ UNCHANGED <<mp, heap, holder, oldtable, oldsize, cramped>>

\* It returns r; its local variables are gone.
Return(t, from, r) ==
  /\ Goto(t, from, "idle")
  /\ key' = [key EXCEPT ![t] = NULL]
  /\ value' = [value EXCEPT ![t] = NULL]
  /\ len' = [len EXCEPT ![t] = 0]
  /\ result' = [result EXCEPT ![t] = r]
  /\ UNCHANGED <<oldtable, oldsize>>

\* The table as it is now; no slots if there is none.
Table == IF ma_table = NULL THEN NewTable(0) ELSE heap[ma_table]

Init ==
  /\ ma_table = NULL
  /\ ma_size = 0
  /\ ma_fill = 0
  /\ ma_used = 0
  /\ heap = [a \in Addr |-> NULL]
  /\ holder = NULL
  /\ pc = [t \in Thread |-> "idle"]
  /\ key = [t \in Thread |-> NULL]
  /\ value = [t \in Thread |-> NULL]
  /\ oldtable = [t \in Thread |-> NULL]
  /\ oldsize = [t \in Thread |-> 0]
  /\ len = [t \in Thread |-> 0]
  /\ result = [t \in Thread |-> None]
  /\ outdated = FALSE
  /\ cramped = FALSE

\* Py_MAP_LOCK returns 0.
Lock(t, from, to) ==
  /\ Goto(t, from, to)
  /\ holder = NULL
  /\ holder' = t
  /\ UNCHANGED <<mp, heap, locals, result, history>>

\* PyPooledLock_Lock gets no memory for a lock (or newlistobject none for the
\* list of keys), and the operation gives up.
LockFails(t) ==
  /\ holder = NULL
  /\ \E from \in {"insert_lock", "remove_lock", "clear_lock", "lookup_lock",
                  "has_key_lock", "keys_lock"} : Return(t, from, Failed)
  /\ UNCHANGED <<mp, heap, holder, history>>

\* Another thread than t is at one of these places.
OtherAt(t, places) == \E u \in Thread \ {t} : pc[u] \in places

\* ma_size, ma_fill or ma_used is read without the lock.
Observe(t) == outdated' = (outdated \/ OtherAt(t, {"resize", "clear"}))

-----------------------------------------------------------------------------
(* mappinginsert and mappingresize                                         *)

InsertCall(t, k, v) ==
  Call(t, "insert_check", k, v) /\ UNCHANGED <<len, outdated>>

BadResizeNeeded == ma_fill >= ma_size

BadResizeTest == ma_fill * 3 > ma_size * 2

ResizeNeeded == ma_fill * 3 >= ma_size * 2

\* "if fill >= 2/3 size, resize", without the lock.
InsertCheck(t) ==
  /\ Goto(t, "insert_check", IF ResizeNeeded THEN "resize_size" ELSE "insert_lock")
  /\ Observe(t)
  /\ UNCHANGED <<mp, heap, holder, locals, result, cramped>>

\* oldsize = mp->ma_size, without the lock.
ResizeSize(t) ==
  /\ Goto(t, "resize_size", "resize_table")
  /\ oldsize' = [oldsize EXCEPT ![t] = ma_size]
  /\ Observe(t)
  /\ UNCHANGED <<mp, heap, holder, key, value, oldtable, len, result, cramped>>

\* oldtable = mp->ma_table, without the lock.
ResizeTable(t) ==
  /\ Goto(t, "resize_table", "resize_lock")
  /\ oldtable' = [oldtable EXCEPT ![t] = ma_table]
  /\ Observe(t)
  /\ UNCHANGED <<mp, heap, holder, key, value, oldsize, len, result, cramped>>

ResizeLock(t) == Lock(t, "resize_lock", "resize")

\* Where a thread has read ma_size or ma_table for mappingresize and not yet
\* locked.
Reading == {"resize_table", "resize_lock"}

\* The items of the old table's first n slots, in a new one.
CopiedSlots(t, n) ==
  Copies(IF oldtable[t] = NULL THEN NewTable(0) ELSE heap[oldtable[t]],
         NewSize(ma_used))[n]

BadCopied(t) == CopiedSlots(t, IF oldsize[t] = 0 THEN 0 ELSE oldsize[t] - 1)

Copied(t) == CopiedSlots(t, oldsize[t])

\* A new table at a, which the dictionary uses from now on; unlock.  Nothing
\* is known of freed memory: the thread stops there.
Resize(t, a) ==
  /\ Goto(t, "resize", "resize_free")
  /\ oldtable[t] # NULL => heap[oldtable[t]] # NULL
  /\ HasPrime(ma_used)
  /\ heap[a] = NULL
  /\ LET tab == Copied(t) IN
     /\ heap' = [heap EXCEPT ![a] = tab]
     /\ ma_table' = a
     /\ ma_size' = SizeOf(tab)
     /\ ma_fill' = Cardinality(NonNull(tab))
     /\ ma_used' = Cardinality(Items(tab))
  /\ holder' = NULL
  /\ outdated' = (outdated \/ OtherAt(t, Reading))
  /\ UNCHANGED <<locals, result, cramped>>

BadFreed(t) == heap

\* XDEL(oldtable)
Freed(t) ==
  [a \in Addr |-> IF a = oldtable[t] THEN NULL ELSE heap[a]]

ResizeFree(t) ==
  /\ Goto(t, "resize_free", "insert_lock")
  /\ heap' = Freed(t)
  /\ oldtable' = [oldtable EXCEPT ![t] = NULL]
  /\ oldsize' = [oldsize EXCEPT ![t] = 0]
  /\ UNCHANGED <<mp, holder, key, value, len, result, history>>

\* mappingresize returns -1: it does not get the lock, or calloc() fails, or
\* the primes have run out; unlock.
ResizeFails(t) ==
  /\ \/ Goto(t, "resize_lock", "resize_failed") /\ holder = NULL
     \/ Goto(t, "resize", "resize_failed")
  /\ holder' = NULL
  /\ oldtable' = [oldtable EXCEPT ![t] = NULL]
  /\ oldsize' = [oldsize EXCEPT ![t] = 0]
  /\ UNCHANGED <<mp, heap, key, value, len, result, history>>

\* "if (mp->ma_fill+1 > mp->ma_size) return -1", without the lock.
NoRoom == ma_fill + 1 > ma_size

InsertGivesUp(t) ==
  /\ NoRoom
  /\ Return(t, "resize_failed", Failed)
  /\ Observe(t)
  /\ UNCHANGED <<mp, heap, holder, cramped>>

\* A slot is left.
InsertAnyway(t) ==
  /\ ~NoRoom
  /\ Goto(t, "resize_failed", "insert_lock")
  /\ cramped' = (cramped \/ ResizeNeeded)
  /\ Observe(t)
  /\ UNCHANGED <<mp, heap, holder, locals, result>>

InsertLock(t) == Lock(t, "insert_lock", "insert")

\* ma_used after an insertion over entry e.
Used(used, e) == IF e.value = NULL THEN used + 1 ELSE used

\* lookmapping finds a slot.  Without a table it divides by zero: no step.
Finds(t, from) ==
  pc[t] = from /\ ma_table # NULL /\ Stops(Table, key[t]) # {}

\* It finds none: it goes round forever, with the lock.
Spin(t) ==
  /\ pc[t] \in {"insert", "remove", "lookup", "has_key"}
  /\ ma_table # NULL
  /\ Stops(Table, key[t]) = {}
  /\ UNCHANGED vars

\* insertmapping, which unlocks.
InsertDo(t) ==
  LET e == Table[Look(Table, key[t])] IN
  /\ Finds(t, "insert")
  /\ Return(t, "insert", Done)
  /\ heap' = [heap EXCEPT ![ma_table] = Insert(Table, key[t], value[t])]
  /\ ma_fill' = IF e.key = NULL THEN ma_fill + 1 ELSE ma_fill
  /\ ma_used' = Used(ma_used, e)
  /\ holder' = NULL
  /\ UNCHANGED <<ma_table, ma_size, history>>

-----------------------------------------------------------------------------
(* mappingremove, mappingclear                                             *)

RemoveCall(t, k) ==
  Call(t, "remove_check", k, NULL) /\ UNCHANGED <<len, outdated>>

\* "if (mp->ma_table == NULL) goto empty", without the lock.
RemoveCheck(t) ==
  /\ ma_table # NULL
  /\ Goto(t, "remove_check", "remove_lock")
  /\ UNCHANGED <<mp, heap, holder, locals, result, history>>

RemoveEmpty(t) ==
  /\ ma_table = NULL
  /\ Return(t, "remove_check", KeyError)
  /\ UNCHANGED <<mp, heap, holder, history>>

RemoveLock(t) == Lock(t, "remove_lock", "remove")

Vacated(tab, i) == [tab EXCEPT ![i] = [key |-> Dummy, value |-> NULL]]

RemoveDo(t) ==
  LET i == Look(Table, key[t]) IN
  /\ Finds(t, "remove")
  /\ IF Table[i].value = NULL
     THEN /\ Return(t, "remove", KeyError)
          /\ UNCHANGED <<heap, ma_used>>
     ELSE /\ Return(t, "remove", Done)
          /\ heap' = [heap EXCEPT ![ma_table] = Vacated(Table, i)]
          /\ ma_used' = ma_used - 1
  /\ holder' = NULL
  /\ UNCHANGED <<ma_table, ma_size, ma_fill, history>>

ClearCall(t) ==
  Call(t, "clear_lock", NULL, NULL) /\ UNCHANGED <<len, outdated>>

ClearLock(t) == Lock(t, "clear_lock", "clear")

\* Where a thread relies on the table it has seen or made, not yet locked.
Relying ==
  Reading \cup {"resize_free", "insert_lock", "remove_lock", "lookup_lock"}

\* The table is out of reach of other threads before it is freed, so that
\* freeing it is part of this step.
ClearDo(t) ==
  /\ Return(t, "clear", Done)
  /\ ma_table' = NULL
  /\ ma_size' = 0
  /\ ma_fill' = 0
  /\ ma_used' = 0
  /\ heap' = [a \in Addr |-> IF a = ma_table THEN NULL ELSE heap[a]]
  /\ holder' = NULL
  /\ outdated' = (outdated \/ (ma_table # NULL /\ OtherAt(t, Relying)))
  /\ UNCHANGED cramped

-----------------------------------------------------------------------------
(* mappinglookup and mapping_subscript; mapping_has_key; mapping_keys,     *)
(* mapping_values and mapping_items                                        *)

LookupCall(t, k) ==
  Call(t, "lookup_check", k, NULL) /\ UNCHANGED <<len, outdated>>

\* "if (ma_table == NULL) return NULL", without the lock.
LookupCheck(t) ==
  /\ ma_table # NULL
  /\ Goto(t, "lookup_check", "lookup_lock")
  /\ UNCHANGED <<mp, heap, holder, locals, result, history>>

LookupEmpty(t) ==
  /\ ma_table = NULL
  /\ Return(t, "lookup_check", Found(NULL))
  /\ UNCHANGED <<mp, heap, holder, history>>

LookupLock(t) == Lock(t, "lookup_lock", "lookup")

LookupDo(t) ==
  /\ Finds(t, "lookup")
  /\ Return(t, "lookup", Found(Table[Look(Table, key[t])].value))
  /\ holder' = NULL
  /\ UNCHANGED <<mp, heap, history>>

HasKeyCall(t, k) ==
  Call(t, "has_key_lock", k, NULL) /\ UNCHANGED <<len, outdated>>

HasKeyLock(t) == Lock(t, "has_key_lock", "has_key")

\* "mp->ma_size != 0 && lookmapping(...)->me_value != NULL", with the lock.
HasKeyDo(t) ==
  /\ ma_size # 0 => Finds(t, "has_key")
  /\ Return(t, "has_key",
            Has(ma_size # 0 /\ Table[Look(Table, key[t])].value # NULL))
  /\ holder' = NULL
  /\ UNCHANGED <<mp, heap, history>>

\* newlistobject(mp->ma_used), without the lock.
KeysCall(t) ==
  /\ Call(t, "keys_lock", NULL, NULL)
  /\ len' = [len EXCEPT ![t] = ma_used]
  /\ Observe(t)

KeysLock(t) == Lock(t, "keys_lock", "keys")

\* The keys of the first n items, in slot order: setlistitem() refuses the
\* rest, and nobody asks it.
FirstKeys(tab, n) ==
  {tab[i].key : i \in
     {i \in Items(tab) : Cardinality({j \in Items(tab) : j < i}) < n}}

\* What no item is left for stays NULL in the list.
KeysDo(t) ==
  /\ Return(t, "keys", List(FirstKeys(Table, len[t])))
  /\ holder' = NULL
  /\ UNCHANGED <<mp, heap, history>>

-----------------------------------------------------------------------------

Call_(t) ==
  \/ ClearCall(t) \/ KeysCall(t)
  \/ \E k \in Key :
       \/ RemoveCall(t, k) \/ LookupCall(t, k) \/ HasKeyCall(t, k)
       \/ \E v \in Value : InsertCall(t, k, v)

Resize_(t) ==
  \/ ResizeSize(t) \/ ResizeTable(t) \/ ResizeLock(t) \/ ResizeFree(t)
  \/ ResizeFails(t) \/ InsertGivesUp(t) \/ InsertAnyway(t)
  \/ \E a \in Addr : Resize(t, a)

Write_(t) ==
  \/ InsertCheck(t) \/ InsertLock(t) \/ InsertDo(t)
  \/ RemoveCheck(t) \/ RemoveEmpty(t) \/ RemoveLock(t) \/ RemoveDo(t)
  \/ ClearLock(t) \/ ClearDo(t)

Read_(t) ==
  \/ LookupCheck(t) \/ LookupEmpty(t) \/ LookupLock(t) \/ LookupDo(t)
  \/ HasKeyLock(t) \/ HasKeyDo(t) \/ KeysLock(t) \/ KeysDo(t)

Step(t) == Resize_(t) \/ Write_(t) \/ Read_(t) \/ LockFails(t) \/ Spin(t)

Next == \E t \in Thread : Step(t) \/ Call_(t)

Spec == Init /\ [][Next]_vars

-----------------------------------------------------------------------------
(* Properties.  They hold until the table is replaced or cleared under a   *)
(* thread that was reading its fields, or had read them and waited for the *)
(* lock: what follows that is excused, nothing before it.                  *)

TypeOK ==
  /\ ma_table \in Addr \cup {NULL}
  /\ ma_size \in Nat /\ ma_fill \in Nat /\ ma_used \in Nat
  /\ \A a \in Addr :
       heap[a] # NULL => \E j \in DOMAIN primes :
                           heap[a] \in [0 .. primes[j] - 1 -> Entry]
  /\ holder \in Thread \cup {NULL}
  /\ pc \in [Thread -> PCs]
  /\ key \in [Thread -> Key \cup {NULL}]
  /\ value \in [Thread -> Value \cup {NULL}]
  /\ oldtable \in [Thread -> Addr \cup {NULL}]
  /\ oldsize \in [Thread -> Nat]
  /\ len \in [Thread -> Nat]
  /\ outdated \in BOOLEAN
  /\ cramped \in BOOLEAN

\* lookmapping is never called without a table ("sum % size"), although the
\* tests for one were made without the lock.
TableThere ==
  outdated \/ \A t \in Thread :
    pc[t] \in {"insert", "remove", "lookup"} => ma_table # NULL

\* Threads on their way from the test of ma_fill, or their resize, to the
\* insertion.
InFlight == {t \in Thread : pc[t] \in {"resize_free", "insert_lock", "insert"}}

\* "there must be at least one NULL key in the table" (mappingobject.c:80):
\* more than a third of the slots, but for one slot for each thread that may
\* have inserted on the strength of a test that was out of date.  A table of
\* three slots per thread cannot fill up; a smaller one can, and so can any
\* when a resize failed.
NullKeyLeft ==
  outdated \/ cramped \/ ma_table = NULL \/
    3 * (Cardinality({i \in DOMAIN Table : Table[i].key = NULL})
         + Cardinality(Thread \ InFlight)) > ma_size

\* Every table calloc() returned is in use or about to be freed, once.
NoTableLost ==
  outdated \/ \A a \in Addr :
    heap[a] # NULL =>
      \/ a = ma_table
      \/ \E t \in Thread : pc[t] = "resize_free" /\ oldtable[t] = a

CallOf(t) ==
  CASE pc[t] \in {"insert_check", "resize_size", "resize_table", "resize_lock",
                  "resize", "resize_free", "resize_failed", "insert_lock",
                  "insert"} ->
         [op |-> "insert", key |-> key[t], value |-> value[t]]
    [] pc[t] \in {"remove_check", "remove_lock", "remove"} ->
         [op |-> "remove", key |-> key[t]]
    [] pc[t] \in {"lookup_check", "lookup_lock", "lookup"} ->
         [op |-> "lookup", key |-> key[t]]
    [] pc[t] \in {"has_key_lock", "has_key"} -> [op |-> "has_key", key |-> key[t]]
    [] pc[t] \in {"clear_lock", "clear"} -> [op |-> "clear"]
    [] pc[t] \in {"keys_lock", "keys"} -> [op |-> "keys", len |-> len[t]]
    [] pc[t] = "idle" -> [op |-> "none"]

Abstract == INSTANCE SharedDictionary
              WITH d <- Contents(Table), call <- [t \in Thread |-> CallOf(t)]

\* Each operation takes effect at one instant and returns what is true of the
\* dictionary then, or fails without effect; keys() makes room for what was
\* there when it was called and lists nothing that is not there.
ImplementsDictionary ==
  /\ Abstract!SharedInit
  /\ [][Abstract!SharedNext \/ outdated']_(Abstract!sharedVars)
=============================================================================
