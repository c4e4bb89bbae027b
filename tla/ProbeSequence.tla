---------------------------- MODULE ProbeSequence ----------------------------
(***************************************************************************)
(* The loops of lookmapping (Objects/mappingobject.c), turn by turn, on a  *)
(* table without a slot to stop at: the do-while loop that chooses incr,   *)
(* with its unsigned arithmetic, then the probes.                          *)
(***************************************************************************)
EXTENDS HashTable

CONSTANT Size   \* the table sizes tried

ASSUME SizeAssumption == Size \subseteq {primes[j] : j \in DOMAIN primes}

\* The bound on the turns suffices for every hash value.
TurnsSuffice ==
  \A h \in 0 .. Word - 1, n \in Size :
    \E turns \in 1 .. MaxTurns : Sum(h, turns) % n # 0

ASSUME EveryHashAssumption == TurnsSuffice

VARIABLES
  hash, size,        \* the arguments
  sum, incr, slot,   \* the local variables sum, incr and i
  seen,              \* slots looked at so far
  loop               \* "sum": in the do-while loop; "probe": in the for loop

probe_vars == <<hash, size, sum, incr, slot, seen, loop>>

ProbeInit ==
  /\ hash \in 0 .. Word - 1
  /\ size \in Size
  /\ sum = hash
  /\ incr = 0
  /\ slot = hash % size
  /\ seen = {}
  /\ loop = "sum"

BadTriple(s) == (2 * s) % Word

\* sum = 3*sum + 1, in an unsigned long.
Triple(s) == (3 * s + 1) % Word

BadAgain(n) == FALSE

\* while (incr == 0)
Again(n) == n = 0

NextSum ==
  /\ loop = "sum"
  /\ sum' = Triple(sum)
  /\ incr' = sum' % size
  /\ loop' = IF Again(incr') THEN "sum" ELSE "probe"
  /\ UNCHANGED <<hash, size, slot, seen>>

\* Look at the slot; i = (i + incr) % size
NextProbe ==
  /\ loop = "probe"
  /\ slot \notin seen
  /\ seen' = seen \cup {slot}
  /\ slot' = (slot + incr) % size
  /\ UNCHANGED <<hash, size, sum, incr, loop>>

ProbeNext == NextSum \/ NextProbe

ProbeSpec == ProbeInit /\ [][ProbeNext]_probe_vars /\ WF_probe_vars(ProbeNext)

-----------------------------------------------------------------------------

\* Every slot has been looked at before one is looked at again: a search on a
\* table with a NULL key finds one.
CoversTable ==
  loop = "probe" /\ slot \in seen => seen = 0 .. size - 1

\* The operators of HashTable compute what the loops do.
LoopsAgree ==
  loop = "probe" =>
    /\ incr = Incr(hash, size)
    /\ slot \notin seen => slot = Slots(hash, size)[Cardinality(seen)]

\* The do-while loop ends, also where 3*sum + 1 overflows.
LoopEnds == <>(loop = "probe")
=============================================================================
