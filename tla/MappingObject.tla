---------------------------- MODULE MappingObject ----------------------------
(***************************************************************************)
(* Objects/mappingobject.c used by one thread: a dictionary, its counters  *)
(* and the references it owns.  Each action is one whole operation; a      *)
(* calloc() may fail in any resize.                                        *)
(***************************************************************************)
EXTENDS MappingCounts

vars == <<ma_table, ma_size, ma_fill, ma_used, refs>>

\* newmappingobject
Init ==
  /\ ma_table = NULL
  /\ ma_size = 0
  /\ ma_fill = 0
  /\ ma_used = 0
  /\ refs = [x \in Objects |-> 0]

\* INCREF(x)
Incref(r, x) == [r EXCEPT ![x] = @ + 1]

\* XDECREF(x): nothing happens to the null pointer.
Xdecref(r, x) == IF x = NULL THEN r ELSE [r EXCEPT ![x] = @ - 1]

-----------------------------------------------------------------------------
(* mappinginsert                                                           *)

\* "if fill >= 2/3 size, resize"
ResizeNeeded == ma_fill * 3 >= ma_size * 2

BadDummyRefs == 0

\* The dummies of the old table, which mappingresize DECREFs.
DummyRefs == IF ma_table = NULL THEN 0
             ELSE Cardinality({i \in DOMAIN ma_table : ma_table[i].key = Dummy})

BadInserted(tab, fill, used, r, k, v) ==
  LET e == tab[Look(tab, k)] IN
  /\ ma_table' = Insert(tab, k, v)
  /\ ma_size' = SizeOf(tab)
  /\ ma_fill' = IF e.value = NULL THEN fill + 1 ELSE fill
  /\ ma_used' = IF e.value = NULL THEN used + 1 ELSE used
  /\ refs' = IF e.value # NULL
             THEN Xdecref(Incref(r, v), e.value)
             ELSE Xdecref(Incref(Incref(r, v), k), e.key)

\* INCREF(value); INCREF(key); insertmapping into tab, which has fill non-NULL
\* keys, used items and owns r.  Replacing a value drops the old one and the
\* reference to key again; a new item drops the dummy it overwrites.
Inserted(tab, fill, used, r, k, v) ==
  LET e == tab[Look(tab, k)] IN
  /\ ma_table' = Insert(tab, k, v)
  /\ ma_size' = SizeOf(tab)
  /\ ma_fill' = IF e.key = NULL THEN fill + 1 ELSE fill
  /\ ma_used' = IF e.value = NULL THEN used + 1 ELSE used
  /\ refs' = IF e.value # NULL
             THEN Xdecref(Incref(r, v), e.value)
             ELSE Xdecref(Incref(Incref(r, v), k), e.key)

\* There is room.
InsertPlain(k, v) ==
  /\ ~ResizeNeeded
  /\ Stops(ma_table, k) # {}
  /\ Inserted(ma_table, ma_fill, ma_used, refs, k, v)

\* mappingresize, then the insertion: the new table holds the items only.
InsertResized(k, v) ==
  LET tab == Rehash(OldTable, NewSize(ma_used)) IN
  /\ ResizeNeeded
  /\ HasPrime(ma_used)
  /\ Inserted(tab, Cardinality(NonNull(tab)), Cardinality(Items(tab)),
              [refs EXCEPT ![Dummy] = @ - DummyRefs], k, v)

\* "if (mp->ma_fill+1 > mp->ma_size) return -1"
NoRoom == ma_fill + 1 > ma_size

\* calloc() fails, or the primes have run out, but a slot is left: insert into
\* the old table.
InsertUnresized(k, v) ==
  /\ ResizeNeeded
  /\ ~NoRoom
  /\ Stops(ma_table, k) # {}
  /\ Inserted(ma_table, ma_fill, ma_used, refs, k, v)

\* The same, and there is no slot left: MemoryError.
InsertFails ==
  /\ ResizeNeeded
  /\ NoRoom
  /\ UNCHANGED vars

-----------------------------------------------------------------------------
(* mappingremove, mappingclear                                             *)

\* ep->me_key = dummy; ep->me_value = NULL
Deleted(k) ==
  [ma_table EXCEPT ![Look(ma_table, k)] = [key |-> Dummy, value |-> NULL]]

\* The key is there: a dummy takes its place.
Remove(k) ==
  /\ ma_table # NULL
  /\ Stops(ma_table, k) # {}
  /\ LET e == ma_table[Look(ma_table, k)] IN
     /\ e.value # NULL
     /\ refs' = Xdecref(Xdecref(Incref(refs, Dummy), e.value), e.key)
  /\ ma_table' = Deleted(k)
  /\ ma_used' = ma_used - 1
  /\ UNCHANGED <<ma_size, ma_fill>>

\* KeyError: an empty dictionary, or no such key.
RemoveMissing(k) ==
  /\ ma_table # NULL =>
       Stops(ma_table, k) # {} /\ ma_table[Look(ma_table, k)].value = NULL
  /\ UNCHANGED vars

\* XDECREF every key and value.
Clear ==
  /\ ma_table # NULL
  /\ ma_table' = NULL
  /\ ma_size' = 0
  /\ ma_fill' = 0
  /\ ma_used' = 0
  /\ refs' = [x \in Objects |->
       refs[x] - Cardinality({i \in DOMAIN ma_table : ma_table[i].key = x})
               - Cardinality({i \in DOMAIN ma_table : ma_table[i].value = x})]

-----------------------------------------------------------------------------

Next ==
  \/ \E k \in Key, v \in Value :
       InsertPlain(k, v) \/ InsertResized(k, v) \/ InsertUnresized(k, v)
  \/ InsertFails
  \/ \E k \in Key : Remove(k) \/ RemoveMissing(k)
  \/ Clear

Spec == Init /\ [][Next]_vars

-----------------------------------------------------------------------------
(* Types; MappingCounts has the other properties.                          *)

TypeOK ==
  /\ ma_size \in {0} \cup {primes[i] : i \in DOMAIN primes}
  /\ IF ma_size = 0 THEN ma_table = NULL
     ELSE ma_table \in [0 .. ma_size - 1 -> Entry]
  /\ ma_fill \in 0 .. ma_size
  /\ ma_used \in 0 .. ma_size
  /\ refs \in [Objects -> Nat]
=============================================================================
