------------------------------ MODULE HashTable ------------------------------
(***************************************************************************)
(* Objects/mappingobject.c: what lookmapping, insertmapping and            *)
(* mappingresize compute, as operators.  A table is a function from slot   *)
(* numbers 0 .. n-1 to entries; me_hash is the hash of the entry's key.    *)
(***************************************************************************)
EXTENDS Integers, FiniteSets, FiniteSetsExt

CONSTANTS
  Key,     \* keys a program uses
  Value,   \* values it stores
  Dummy,   \* the object that replaces a deleted key
  NULL,    \* the null pointer
  Hash,    \* [Key -> 0 .. Word-1]: hashobject(), cast to unsigned long
  Word,    \* 2^w: the unsigned long arithmetic is modulo Word
  MaxTurns \* bound on the turns of lookmapping's do-while loop

ASSUME TableAssumption ==
  /\ NULL \notin Key \cup Value
  /\ Dummy \notin Key \cup Value \cup {NULL}
  /\ Word \in Nat \ {0}
  /\ MaxTurns \in Nat
  /\ Hash \in [Key -> 0 .. Word - 1]

\* Table sizes (the first of them: a bound on how far a dictionary grows).
primes == <<3, 7, 13, 31, 61, 127>>

Empty == [key |-> NULL, value |-> NULL]

Entry == [key : Key \cup {Dummy, NULL}, value : Value \cup {NULL}]

\* The null pointer is no table.
ASSUME NullAssumption ==
  \A i \in DOMAIN primes : NULL \notin [0 .. primes[i] - 1 -> Entry]

\* calloc() of a table with n slots.
NewTable(n) == [i \in 0 .. n - 1 |-> Empty]

SizeOf(tab) == Cardinality(DOMAIN tab)

-----------------------------------------------------------------------------
(* lookmapping                                                             *)

\* sum after the given number of turns of "sum = 3*sum + 1" (module
\* ProbeSequence runs the loop).
Sum(h, turns) ==
  LET sum[j \in 0 .. turns] ==
        IF j = 0 THEN h ELSE (3 * sum[j - 1] + 1) % Word
  IN sum[turns]

\* incr: the first sum that is not 0 modulo the size.
Incr(h, n) ==
  Sum(h, Min({j \in 1 .. MaxTurns : Sum(h, j) % n # 0})) % n

\* The slots looked at, in order: i = (i + incr) % size from step to step.
Slots(h, n) ==
  LET first == h % n
      incr == Incr(h, n)
  IN [k \in 0 .. n - 1 |-> (first + k * incr) % n]

\* The steps at which the search for key can stop: an empty slot, or the
\* key's.  No such step: the loop never ends.
Stops(tab, key) ==
  LET slot == Slots(Hash[key], SizeOf(tab)) IN
  {k \in DOMAIN tab : tab[slot[k]].key \in {NULL, key}}

\* The slot lookmapping returns: the key's, else the first free one.
Look(tab, key) ==
  LET slot == Slots(Hash[key], SizeOf(tab))
      stop == Min(Stops(tab, key))
      free == {k \in 0 .. stop : tab[slot[k]].key = Dummy}
  IN IF tab[slot[stop]].key = NULL /\ free # {} THEN slot[Min(free)]
     ELSE slot[stop]

\* The turns suffice for the keys and the sizes that are used.
ASSUME TurnsAssumption ==
  \A key \in Key, i \in DOMAIN primes :
    \E j \in 1 .. MaxTurns : Sum(Hash[key], j) % primes[i] # 0

-----------------------------------------------------------------------------
(* insertmapping                                                           *)

\* The table with key |-> value in it.
Insert(tab, key, value) ==
  LET i == Look(tab, key) IN
  IF tab[i].value # NULL
  THEN [tab EXCEPT ![i].value = value]
  ELSE [tab EXCEPT ![i] = [key |-> key, value |-> value]]

-----------------------------------------------------------------------------
(* mappingresize                                                           *)

\* The primes have not run out.
HasPrime(used) == \E i \in DOMAIN primes : primes[i] > used * 2

\* The first prime > used*2.
NewSize(used) == primes[Min({i \in DOMAIN primes : primes[i] > used * 2})]

\* The new table of n slots after the first j slots of tab: their items are
\* inserted in slot order.
Copies(tab, n) ==
  LET new[j \in 0 .. SizeOf(tab)] ==
        IF j = 0 THEN NewTable(n)
        ELSE IF tab[j - 1].value = NULL THEN new[j - 1]
        ELSE Insert(new[j - 1], tab[j - 1].key, tab[j - 1].value)
  IN new

BadRehash(tab, n) == Copies(tab, n)[IF SizeOf(tab) = 0 THEN 0 ELSE SizeOf(tab) - 1]

\* A new table with n slots and the items of tab.
Rehash(tab, n) == Copies(tab, n)[SizeOf(tab)]

-----------------------------------------------------------------------------
(* What a table holds.                                                     *)

Items(tab) == {i \in DOMAIN tab : tab[i].value # NULL}

NonNull(tab) == {i \in DOMAIN tab : tab[i].key # NULL}

\* The dictionary that the table represents: the value of every key, or NULL.
Contents(tab) ==
  [key \in Key |->
     IF \E i \in Items(tab) : tab[i].key = key
     THEN tab[CHOOSE i \in Items(tab) : tab[i].key = key].value
     ELSE NULL]
=============================================================================
