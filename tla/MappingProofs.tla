---------------------------- MODULE MappingProofs ----------------------------
(***************************************************************************)
(* Proofs about dictionaries (Objects/mappingobject.c), for any keys,      *)
(* values and hashes: what the operators of HashTable compute, the loops   *)
(* of ProbeSequence, the counters and references of MappingObject, and     *)
(* MappingThreads for any threads and addresses, up to the step with which *)
(* a thread replaces or clears the table that another one has read and is  *)
(* waiting to lock.                                                        *)
(***************************************************************************)
EXTENDS MappingThreads, MappingCounts, ProbeSequence, FiniteSetTheorems, WellFoundedInduction, TLAPS

-----------------------------------------------------------------------------
(* What the operators of HashTable compute.                                *)

\* Every set of natural numbers has a least element, which is its Min.
LEMMA MinNat ==
  ASSUME NEW S \in SUBSET Nat, S # {}
  PROVE  Min(S) \in S /\ \A y \in S : Min(S) <= y
<1> DEFINE R == OpToRel(<, Nat)
<1>1. \A x, y \in Nat : x < y => <<x, y>> \in R BY Zenon DEF OpToRel
<1>2. IsWellFoundedOn(R, Nat) BY NatLessThanWellFounded
<1> HIDE DEF R
<1>3. PICK x \in S : \A y \in S : ~(<<y, x>> \in R) BY <1>2, WFMin
<1>4. \A y \in S : x <= y
  <2> SUFFICES ASSUME NEW y \in S PROVE x <= y OBVIOUS
  <2>1. x \in Nat /\ y \in Nat OBVIOUS
  <2>2. ~(y < x) BY <1>1, <1>3, <2>1
  <2> QED BY <2>1, <2>2
<1> QED BY <1>3, <1>4 DEF Min

\* f begins with base and makes the steps G.
Steps(m, T) == [1 .. m -> [T -> T]]

Follows(f, m, T, base, G) ==
  /\ f \in [0 .. m -> T]
  /\ f[0] = base
  /\ \A j \in 1 .. m : f[j] = G[j][f[j - 1]]

\* There is such a function: definitions by recursion mean something.
LEMMA Recursion ==
  ASSUME NEW m \in Nat, NEW T, NEW base \in T, NEW G \in Steps(m, T)
  PROVE  \E f : Follows(f, m, T, base, G)
<1>0. G \in [1 .. m -> [T -> T]] BY DEF Steps
<1> DEFINE Part(k) == \E f \in [0 .. k -> T] : f[0] = base /\ \A j \in 1 .. k : f[j] = G[j][f[j - 1]]
<1> DEFINE S == {k \in 0 .. m : ~Part(k)}
<1>1. ASSUME S # {} PROVE FALSE
  <2>1. S \in SUBSET Nat OBVIOUS
  <2> DEFINE x == Min(S)
  <2> HIDE DEF S
  <2>2. x \in S /\ \A y \in S : x <= y BY <1>1, <2>1, MinNat
  <2> HIDE DEF x
  <2>3. x \in 0 .. m /\ ~Part(x) BY <2>2 DEF S
  <2>4. CASE x = 0
    <3>1. [i \in 0 .. 0 |-> base] \in [0 .. 0 -> T] OBVIOUS
    <3>2. Part(0)
      <4> WITNESS [i \in 0 .. 0 |-> base] \in [0 .. 0 -> T]
      <4> QED OBVIOUS
    <3> QED BY <2>3, <2>4, <3>2
  <2>5. CASE x # 0
    <3>1. x \in 1 .. m /\ x - 1 \in 0 .. m /\ ~(x <= x - 1) BY <2>3, <2>5
    <3>2. Part(x - 1) BY <2>2, <3>1 DEF S
    <3>3. PICK g \in [0 .. x - 1 -> T] : g[0] = base /\ \A j \in 1 .. x - 1 : g[j] = G[j][g[j - 1]]
      BY <3>2
    <3> DEFINE f == [i \in 0 .. x |-> IF i = x THEN G[x][g[x - 1]] ELSE g[i]]
    <3>4. f \in [0 .. x -> T]
      <4>1. g[x - 1] \in T BY <3>1, <3>3
      <4>2. G[x][g[x - 1]] \in T BY <1>0, <3>1, <4>1
      <4> SUFFICES ASSUME NEW i \in 0 .. x, i # x PROVE g[i] \in T BY <4>2
      <4>3. i \in 0 .. x - 1 BY <3>1
      <4> QED BY <3>3, <4>3
    <3>5. f[0] = base BY <3>1, <3>3
    <3>6. \A j \in 1 .. x : f[j] = G[j][f[j - 1]]
      <4> SUFFICES ASSUME NEW j \in 1 .. x PROVE f[j] = G[j][f[j - 1]] OBVIOUS
      <4>1. j - 1 \in 0 .. x /\ j - 1 # x /\ j \in 0 .. x BY <3>1
      <4>2. f[j - 1] = g[j - 1] BY <4>1
      <4>3. CASE j = x BY <4>1, <4>2, <4>3
      <4>4. CASE j # x
        <5>1. j \in 1 .. x - 1 BY <3>1, <4>4
        <5> QED BY <3>3, <4>1, <4>2, <4>4, <5>1
      <4> QED BY <4>3, <4>4
    <3> HIDE DEF f
    <3>7. Part(x) BY <3>4, <3>5, <3>6
    <3> QED BY <2>3, <3>7
  <2> QED BY <2>4, <2>5
<1>2. m \in 0 .. m OBVIOUS
<1>3. Part(m)
  <2> HIDE DEF Part
  <2> QED BY <1>1, <1>2
<1> QED BY <1>3 DEF Follows

\* g are the values of sum in n turns of the do-while loop of lookmapping.
Runs(g, h, n) ==
  /\ g[0] = h
  /\ \A j \in 1 .. n : g[j] = (3 * g[j - 1] + 1) % Word
  /\ \A j \in 0 .. n : g[j] \in Nat

\* Sum is the last of them.
LEMMA SumRuns ==
  ASSUME NEW h \in Nat, NEW n \in Nat
  PROVE  \E g : Runs(g, h, n) /\ Sum(h, n) = g[n]
<1> DEFINE F(f) == [j \in 0 .. n |-> IF j = 0 THEN h ELSE (3 * f[j - 1] + 1) % Word]
<1> DEFINE G == [j \in 1 .. n |-> [s \in Nat |-> (3 * s + 1) % Word]]
<1>0. Word \in Nat \ {0} BY TableAssumption
<1>1. G \in Steps(n, Nat)
  <2>1. \A s \in Nat : (3 * s + 1) % Word \in Nat BY <1>0
  <2> QED BY <2>1 DEF Steps
<1>2. PICK f : Follows(f, n, Nat, h, G)
  <2> HIDE DEF G
  <2> QED BY <1>1, Recursion
<1>2a. f \in [0 .. n -> Nat] /\ f[0] = h /\ \A j \in 1 .. n : f[j] = G[j][f[j - 1]]
  BY <1>2 DEF Follows
<1>3. f = F(f)
  <2>1. ASSUME NEW j \in 0 .. n PROVE f[j] = IF j = 0 THEN h ELSE (3 * f[j - 1] + 1) % Word
    <3>1. CASE j = 0 BY <1>2a, <3>1
    <3>2. CASE j # 0
      <4>1. j \in 1 .. n /\ j - 1 \in 0 .. n BY <3>2
      <4>2. f[j - 1] \in Nat BY <1>2a, <4>1
      <4> QED BY <1>2a, <3>2, <4>1, <4>2
    <3> QED BY <3>1, <3>2
  <2>2. f = [j \in 0 .. n |-> f[j]] BY <1>2a
  <2> QED BY <2>1, <2>2
<1> DEFINE g == CHOOSE g : g = F(g)
<1>4. g = F(g) BY <1>3
<1>5. Sum(h, n) = g[n] BY DEF Sum
<1> HIDE DEF g
<1>6. \A j \in 0 .. n : g[j] \in Nat
  <2> DEFINE S == {j \in 0 .. n : g[j] \notin Nat}
  <2> SUFFICES ASSUME S # {} PROVE FALSE OBVIOUS
  <2>1. S \in SUBSET Nat OBVIOUS
  <2> DEFINE x == Min(S)
  <2> HIDE DEF S
  <2>2. x \in S /\ \A y \in S : x <= y BY <2>1, MinNat
  <2> HIDE DEF x
  <2>3. x \in 0 .. n /\ g[x] \notin Nat BY <2>2 DEF S
  <2>4. x # 0 BY <1>4, <2>3
  <2>5. x - 1 \in 0 .. n /\ ~(x <= x - 1) BY <2>3, <2>4
  <2>6. g[x - 1] \in Nat BY <2>2, <2>5 DEF S
  <2>7. g[x] = (3 * g[x - 1] + 1) % Word BY <1>4, <2>3, <2>4
  <2> QED BY <1>0, <2>3, <2>6, <2>7
<1>7. Runs(g, h, n) BY <1>4, <1>6 DEF Runs
<1> QED BY <1>5, <1>7

\* The sums of lookmapping are numbers.
LEMMA SumNat ==
  ASSUME NEW h \in Nat, NEW n \in Nat
  PROVE  Sum(h, n) \in Nat
<1>1. PICK g : Runs(g, h, n) /\ Sum(h, n) = g[n] BY SumRuns
<1> QED BY <1>1 DEF Runs

\* The sums of lookmapping are numbers, each three times the one before and 1.
LEMMA SumTurn ==
  ASSUME NEW h \in Nat, NEW n \in Nat
  PROVE  Sum(h, 0) = h /\ Sum(h, n + 1) = (3 * Sum(h, n) + 1) % Word
<1>1. Sum(h, 0) = h
  <2>1. PICK g : Runs(g, h, 0) /\ Sum(h, 0) = g[0] BY SumRuns
  <2> QED BY <2>1 DEF Runs
<1>2. PICK f : Runs(f, h, n) /\ Sum(h, n) = f[n] BY SumRuns
<1>3. n + 1 \in Nat OBVIOUS
<1>4. PICK g : Runs(g, h, n + 1) /\ Sum(h, n + 1) = g[n + 1] BY <1>3, SumRuns
<1> DEFINE S == {j \in 0 .. n : f[j] # g[j]}
<1>5. S = {}
  <2> SUFFICES ASSUME S # {} PROVE FALSE OBVIOUS
  <2>1. S \in SUBSET Nat OBVIOUS
  <2> DEFINE x == Min(S)
  <2> HIDE DEF S
  <2>2. x \in S /\ \A y \in S : x <= y BY <2>1, MinNat
  <2> HIDE DEF x
  <2>3. x \in 0 .. n /\ f[x] # g[x] BY <2>2 DEF S
  <2>4. x # 0 BY <1>2, <1>4, <2>3 DEF Runs
  <2>5. x - 1 \in 0 .. n /\ ~(x <= x - 1) BY <2>3, <2>4
  <2>6. f[x - 1] = g[x - 1] BY <2>2, <2>5 DEF S
  <2>7. x \in 1 .. n /\ x \in 1 .. n + 1 BY <2>3, <2>4
  <2> QED BY <1>2, <1>4, <2>3, <2>6, <2>7 DEF Runs
<1>6. f[n] = g[n] BY <1>5
<1>7. g[n + 1] = (3 * g[(n + 1) - 1] + 1) % Word
  <2>1. n + 1 \in 1 .. n + 1 OBVIOUS
  <2> QED BY <1>4, <2>1 DEF Runs
<1>8. (n + 1) - 1 = n OBVIOUS
<1> QED BY <1>1, <1>2, <1>4, <1>6, <1>7, <1>8

\* The table sizes.
Sizes == {primes[i] : i \in DOMAIN primes}

\* They are numbers.
LEMMA SizesNat == DOMAIN primes \in SUBSET Nat /\ \A n \in Sizes : n \in Nat /\ n >= 3
BY DEF Sizes, primes

\* A table of n slots has n slots.
LEMMA SizeOfTable ==
  ASSUME NEW n \in Nat, NEW tab, DOMAIN tab = 0 .. n - 1
  PROVE  SizeOf(tab) = n
<1>1. Cardinality(0 .. n - 1) = n
  <2>1. 0 \in Int /\ n - 1 \in Int OBVIOUS
  <2>2. Cardinality(0 .. n - 1) = IF 0 > n - 1 THEN 0 ELSE (n - 1) - 0 + 1 BY <2>1, FS_Interval
  <2> QED BY <2>2
<1> QED BY <1>1 DEF SizeOf

\* The do-while loop of lookmapping finds an increment.
LEMMA IncrNat ==
  ASSUME NEW k \in Key, NEW n \in Sizes
  PROVE  Incr(Hash[k], n) \in 1 .. n - 1
<1>0. n \in Nat /\ n >= 3 BY SizesNat
<1>1. Hash[k] \in Nat BY TableAssumption
<1> DEFINE J == {j \in 1 .. MaxTurns : Sum(Hash[k], j) % n # 0}
<1>2. J # {}
  <2>1. PICK i \in DOMAIN primes : n = primes[i] BY DEF Sizes
  <2> QED BY <2>1, TurnsAssumption
<1>3. J \in SUBSET Nat OBVIOUS
<1>4. Min(J) \in J
  <2> HIDE DEF J
  <2> QED BY <1>2, <1>3, MinNat
<1>5. Min(J) \in Nat BY <1>3, <1>4
<1>6. Sum(Hash[k], Min(J)) \in Nat BY <1>1, <1>5, SumNat
<1>7. Sum(Hash[k], Min(J)) % n # 0 BY <1>4
<1>8. Incr(Hash[k], n) = Sum(Hash[k], Min(J)) % n BY DEF Incr
<1> HIDE DEF J
<1> QED BY <1>0, <1>6, <1>7, <1>8

\* "when in use, de_value is not NULL and de_key is not NULL and not dummy; when
\* not in use, de_value is NULL and de_key is either NULL or dummy"
\* (mappingobject.c:67), and tables of such entries.
ValidEntry == {e \in Entry : e.value # NULL <=> e.key \in Key}

Tables(n) == [0 .. n - 1 -> ValidEntry]

\* An insertion makes a table of valid entries.
LEMMA InsertValid ==
  ASSUME NEW n \in Nat, NEW tab \in Tables(n),
         NEW k \in Key, NEW v \in Value
  PROVE  Insert(tab, k, v) \in Tables(n)
<1> DEFINE i == Look(tab, k)
           new == Insert(tab, k, v)
<1>0. v # NULL BY TableAssumption
<1>1. new = IF tab[i].value # NULL THEN [tab EXCEPT ![i].value = v]
            ELSE [tab EXCEPT ![i] = [key |-> k, value |-> v]]
  BY DEF Insert
<1> HIDE DEF i, new
<1>2. CASE i \notin 0 .. n - 1
  <2>1. new = tab BY <1>1, <1>2 DEF Tables
  <2> QED BY <1>2, <2>1 DEF i, new
<1>3. CASE i \in 0 .. n - 1
  <2>1. tab[i] \in ValidEntry BY <1>3 DEF Tables
  <2>2. PICK e \in ValidEntry : new = [tab EXCEPT ![i] = e]
    <3>1. CASE tab[i].value # NULL
      <4>1. [tab[i] EXCEPT !.value = v] \in ValidEntry BY <1>0, <2>1, <3>1 DEF ValidEntry, Entry
      <4>2. new = [tab EXCEPT ![i] = [tab[i] EXCEPT !.value = v]] BY <1>1, <3>1
      <4> QED BY <4>1, <4>2
    <3>2. CASE tab[i].value = NULL
      <4>1. [key |-> k, value |-> v] \in ValidEntry BY <1>0 DEF ValidEntry, Entry
      <4> QED BY <1>1, <3>2, <4>1
    <3> QED BY <3>1, <3>2
  <2> QED BY <1>3, <2>2 DEF Tables, i, new
<1> QED BY <1>2, <1>3

\* Slots are finitely many.
LEMMA FiniteSlots ==
  ASSUME NEW n \in Nat, NEW tab, DOMAIN tab = 0 .. n - 1
  PROVE  /\ IsFiniteSet(NonNull(tab)) /\ Cardinality(NonNull(tab)) \in Nat
         /\ IsFiniteSet(Items(tab)) /\ Cardinality(Items(tab)) \in Nat
<1>1. IsFiniteSet(0 .. n - 1)
  <2>1. 0 \in Int /\ n - 1 \in Int OBVIOUS
  <2> QED BY <2>1, FS_Interval
<1>2. NonNull(tab) \in SUBSET (0 .. n - 1) /\ Items(tab) \in SUBSET (0 .. n - 1) BY DEF NonNull, Items
<1> QED BY <1>1, <1>2, FS_Subset, FS_CardinalityType

\* What mappingresize does at one slot of the old table.
CopyStep(tab, new, j) ==
  IF tab[j - 1].value = NULL THEN new ELSE Insert(new, tab[j - 1].key, tab[j - 1].value)

\* The tables on the way are tables, each made from the one before.
LEMMA CopiesFollow ==
  ASSUME NEW m \in Nat, NEW n \in Nat, NEW tab \in Tables(m)
  PROVE  /\ \A j \in 0 .. m : Copies(tab, n)[j] \in Tables(n)
         /\ Copies(tab, n)[0] = NewTable(n)
         /\ \A j \in 1 .. m : Copies(tab, n)[j] = CopyStep(tab, Copies(tab, n)[j - 1], j)
<1> DEFINE F(f) == [j \in 0 .. m |-> IF j = 0 THEN NewTable(n)
                                    ELSE IF tab[j - 1].value = NULL THEN f[j - 1]
                                    ELSE Insert(f[j - 1], tab[j - 1].key, tab[j - 1].value)]
           G == [j \in 1 .. m |-> [new \in Tables(n) |-> CopyStep(tab, new, j)]]
<1>0. NewTable(n) \in Tables(n) BY TableAssumption DEF NewTable, Tables, Empty, Entry, ValidEntry
<1>1. ASSUME NEW j \in 1 .. m, NEW new \in Tables(n) PROVE CopyStep(tab, new, j) \in Tables(n)
  <2>1. j - 1 \in 0 .. m - 1 OBVIOUS
  <2>2. tab[j - 1] \in ValidEntry BY <2>1 DEF Tables
  <2>3. tab[j - 1].value # NULL => tab[j - 1].key \in Key /\ tab[j - 1].value \in Value
    BY <2>2 DEF ValidEntry, Entry
  <2> QED BY <2>3, InsertValid DEF CopyStep
<1>2. G \in Steps(m, Tables(n)) BY <1>1 DEF Steps
<1>3. PICK f : Follows(f, m, Tables(n), NewTable(n), G)
  <2> HIDE DEF G
  <2> QED BY <1>0, <1>2, Recursion
<1>4. f \in [0 .. m -> Tables(n)] /\ f[0] = NewTable(n) /\ \A j \in 1 .. m : f[j] = G[j][f[j - 1]]
  BY <1>3 DEF Follows
<1>5. f = F(f)
  <2>1. ASSUME NEW j \in 0 .. m
        PROVE  f[j] = IF j = 0 THEN NewTable(n)
                      ELSE IF tab[j - 1].value = NULL THEN f[j - 1]
                      ELSE Insert(f[j - 1], tab[j - 1].key, tab[j - 1].value)
    <3>1. CASE j = 0 BY <1>4, <3>1
    <3>2. CASE j # 0
      <4>1. j \in 1 .. m /\ j - 1 \in 0 .. m BY <3>2
      <4>2. f[j - 1] \in Tables(n) BY <1>4, <4>1
      <4>3. f[j] = CopyStep(tab, f[j - 1], j) BY <1>4, <4>1, <4>2
      <4> QED BY <3>2, <4>3 DEF CopyStep
    <3> QED BY <3>1, <3>2
  <2>2. f = [j \in 0 .. m |-> f[j]] BY <1>4
  <2> QED BY <2>1, <2>2
<1> DEFINE g == CHOOSE g : g = F(g)
<1>6. g = F(g) BY <1>5
<1>7. Copies(tab, n) = g
  <2>1. SizeOf(tab) = m BY SizeOfTable DEF Tables
  <2> QED BY <2>1 DEF Copies
<1> HIDE DEF g
<1>8. g[0] = NewTable(n) BY <1>6
<1>9. \A j \in 1 .. m : g[j] = CopyStep(tab, g[j - 1], j) BY <1>6 DEF CopyStep
<1>10. \A j \in 0 .. m : g[j] \in Tables(n)
  <2> DEFINE S == {j \in 0 .. m : g[j] \notin Tables(n)}
  <2> SUFFICES ASSUME S # {} PROVE FALSE OBVIOUS
  <2>1. S \in SUBSET Nat OBVIOUS
  <2> DEFINE x == Min(S)
  <2> HIDE DEF S
  <2>2. x \in S /\ \A y \in S : x <= y BY <2>1, MinNat
  <2> HIDE DEF x
  <2>3. x \in 0 .. m /\ g[x] \notin Tables(n) BY <2>2 DEF S
  <2>4. x # 0 BY <1>0, <1>8, <2>3
  <2>5. x \in 1 .. m /\ x - 1 \in 0 .. m /\ ~(x <= x - 1) BY <2>3, <2>4
  <2>6. g[x - 1] \in Tables(n) BY <2>2, <2>5 DEF S
  <2>7. g[x] = CopyStep(tab, g[x - 1], x) BY <1>9, <2>5
  <2> QED BY <1>1, <2>3, <2>5, <2>6, <2>7
<1> QED BY <1>7, <1>8, <1>9, <1>10

-----------------------------------------------------------------------------
(* The sizes are prime: the probes go through the whole table.             *)

\* A remainder determines its number up to multiples.
LEMMA Remainder ==
  ASSUME NEW x \in Nat, NEW n \in Nat, n > 0, NEW q \in Nat, NEW r \in 0 .. n - 1, x = n * q + r
  PROVE  x % n = r
OBVIOUS

\* Division with a remainder.
LEMMA Division ==
  ASSUME NEW x \in Nat, NEW n \in Nat, n > 0
  PROVE  x % n \in 0 .. n - 1 /\ \E q \in Nat : x = n * q + (x % n)
<1>1. x \div n \in Nat /\ x % n \in 0 .. n - 1 OBVIOUS
<1>2. x = n * (x \div n) + (x % n) OBVIOUS
<1> QED BY <1>1, <1>2

\* The table sizes are prime.
LEMMA SizesPrime ==
  ASSUME NEW n \in Sizes, NEW q \in Nat, NEW k \in Nat, q * k = n
  PROVE  k = 1 \/ k = n
<1>0. n \in {3, 7, 13, 31, 61, 127}
  <2>1. DOMAIN primes = 1 .. 6 BY DEF primes
  <2> QED BY <2>1 DEF Sizes, primes
<1>1. CASE k <= 11
  <2>1. k \in {0,1,2,3,4,5,6,7,8,9,10,11} BY <1>1
  <2> QED BY <1>0, <2>1
<1>2. CASE q <= 11
  <2>1. q \in {0,1,2,3,4,5,6,7,8,9,10,11} BY <1>2
  <2> QED BY <1>0, <2>1
<1>3. CASE k > 11 /\ q > 11
  <2> DEFINE a == q - 12
             b == k - 12
  <2>1. a \in Nat /\ b \in Nat BY <1>3
  <2>2. q * k = a * b + 12 * a + 12 * b + 144 OBVIOUS
  <2>3. a * b \in Nat BY <2>1
  <2> HIDE DEF a, b
  <2>4. q * k >= 144 BY <2>1, <2>2, <2>3
  <2> QED BY <1>0, <2>4
<1> QED BY <1>1, <1>2, <1>3

\* n divides no product of two numbers between 1 and n - 1.
LEMMA NoMultiple ==
  ASSUME NEW n \in Sizes, NEW inc \in 1 .. n - 1, NEW k \in 1 .. n - 1, NEW c \in Nat
  PROVE  k * inc # n * c
<1>0. n \in Nat /\ n >= 3 /\ inc \in Nat BY SizesNat
<1> DEFINE S == {j \in 1 .. n : \E d \in Nat : j * inc = n * d}
           m == Min(S)
<1>1. n \in S BY <1>0
<1>2. S \in SUBSET Nat OBVIOUS
<1>3. m \in S /\ \A j \in S : m <= j
  <2> HIDE DEF S
  <2> QED BY <1>1, <1>2, MinNat
<1> HIDE DEF m
<1>4. PICK d \in Nat : m * inc = n * d BY <1>3
<1>5. m \in 1 .. n /\ m \in Nat BY <1>3
<1> DEFINE r == n % m
<1>5a. m > 0 BY <1>5
<1>5b. r \in 0 .. m - 1 /\ \E q \in Nat : n = m * q + r BY <1>0, <1>5, <1>5a, Division
<1> HIDE DEF r
<1>6. PICK q \in Nat : r \in 0 .. m - 1 /\ n = m * q + r BY <1>5b
<1>7. r * inc = n * (inc - q * d)
  <2>1. r = n - m * q BY <1>0, <1>5, <1>6
  <2>2. (n - m * q) * inc = n * inc - q * (m * inc) BY <1>0, <1>5, <1>6
  <2>3. q * (n * d) = n * (q * d) BY <1>0, <1>4, <1>6
  <2>4. n * (inc - q * d) = n * inc - n * (q * d) BY <1>0, <1>4, <1>6
  <2> QED BY <1>4, <2>1, <2>2, <2>3, <2>4
<1>8. r = 0
  <2> SUFFICES ASSUME r # 0 PROVE FALSE OBVIOUS
  <2> DEFINE e == inc - q * d
  <2>1. e \in Int BY <1>0, <1>4, <1>6
  <2>2. r * inc = n * e BY <1>7
  <2>3. r * inc > 0
    <3>1. r \in Nat /\ r >= 1 /\ inc >= 1 BY <1>5, <1>6
    <3> QED BY <1>0, <3>1
  <2> HIDE DEF e
  <2>4. e \in Nat
    <3> SUFFICES ASSUME e < 0 PROVE FALSE BY <2>1
    <3>1. n * e <= 0 BY <1>0, <2>1
    <3>2. n * e \in Int /\ r * inc \in Int BY <1>0, <1>6, <2>1
    <3> QED BY <2>2, <2>3, <3>1, <3>2
  <2>5. r \in 1 .. n BY <1>5, <1>6
  <2>6. r \in S BY <2>2, <2>4, <2>5
  <2>7. m <= r BY <1>3, <2>6
  <2> QED BY <1>5, <1>6, <2>7
<1>9. n = q * m BY <1>0, <1>5, <1>6, <1>8
<1>10. m = 1 \/ m = n BY <1>5, <1>6, <1>9, SizesPrime
<1>11. m # 1
  <2> SUFFICES ASSUME m = 1 PROVE FALSE OBVIOUS
  <2>1. inc = n * d BY <1>0, <1>4
  <2>2. d = 0 \/ d >= 1 BY <1>4
  <2>3. CASE d = 0 BY <1>0, <2>1, <2>3
  <2>4. CASE d >= 1
    <3>1. n * d = n + n * (d - 1) BY <1>0, <1>4
    <3>2. d - 1 \in Nat BY <1>4, <2>4
    <3>3. n * (d - 1) \in Nat BY <1>0, <3>2
    <3>4. n * d >= n BY <1>0, <3>1, <3>3
    <3> QED BY <1>0, <2>1, <3>4
  <2> QED BY <2>2, <2>3, <2>4
<1>12. k \notin S BY <1>0, <1>3, <1>10, <1>11
<1>13. k \in 1 .. n BY <1>0
<1> QED BY <1>12, <1>13

\* lookmapping's probes meet no slot twice.
LEMMA SlotsDiffer ==
  ASSUME NEW n \in Sizes, NEW inc \in 1 .. n - 1, NEW h \in Nat,
         NEW a \in 0 .. n - 1, NEW b \in 0 .. n - 1, a < b
  PROVE  (h + a * inc) % n # (h + b * inc) % n
<1> SUFFICES ASSUME (h + a * inc) % n = (h + b * inc) % n PROVE FALSE OBVIOUS
<1>0. n \in Nat /\ n >= 3 /\ inc \in Nat /\ inc >= 1 BY SizesNat
<1> DEFINE x == h + a * inc
           y == h + b * inc
<1>1. x \in Nat /\ y \in Nat BY <1>0
<1>2. y - x = (b - a) * inc BY <1>0
<1>3. (b - a) * inc \in Nat BY <1>0
<1> HIDE DEF x, y
<1>3a. n > 0 BY <1>0
<1>4. PICK p \in Nat : x = n * p + (x % n) BY <1>0, <1>1, <1>3a, Division
<1>5. PICK q \in Nat : y = n * q + (y % n) BY <1>0, <1>1, <1>3a, Division
<1>6. x % n = y % n /\ x % n \in Nat BY <1>0, <1>1 DEF x, y
<1>7. y - x = n * (q - p)
  <2>1. n * (q - p) = n * q - n * p BY <1>0
  <2> QED BY <1>0, <1>1, <1>4, <1>5, <1>6, <2>1
<1>8. q - p \in Nat
  <2> SUFFICES ASSUME q - p < 0 PROVE FALSE OBVIOUS
  <2>1. n * (q - p) < 0 BY <1>0
  <2> QED BY <1>1, <1>2, <1>3, <1>7, <2>1
<1>9. b - a \in 1 .. n - 1 BY <1>0
<1> QED BY <1>2, <1>7, <1>8, <1>9, NoMultiple

\* lookmapping's probes meet every slot.
LEMMA SlotsCover ==
  ASSUME NEW n \in Sizes, NEW inc \in 1 .. n - 1, NEW h \in Nat, NEW i \in 0 .. n - 1
  PROVE  \E k \in 0 .. n - 1 : (h + k * inc) % n = i
<1>0. n \in Nat /\ n >= 3 /\ inc \in Nat BY SizesNat
<1> DEFINE D == 0 .. n - 1
           f == [k \in D |-> (h + k * inc) % n]
<1>1. ASSUME NEW k \in D PROVE (h + k * inc) % n \in D
  <2>1. h + k * inc \in Nat BY <1>0
  <2> QED BY <1>0, <2>1, Division
<1>2. f \in [D -> D] BY <1>1
<1>3. ASSUME NEW a \in D, NEW b \in D, f[a] = f[b] PROVE a = b
  <2>1. CASE a < b BY <1>3, <2>1, SlotsDiffer
  <2>2. CASE b < a BY <1>3, <2>2, SlotsDiffer
  <2> QED BY <2>1, <2>2
<1>4. IsFiniteSet(D)
  <2>1. 0 \in Int /\ n - 1 \in Int BY <1>0
  <2> QED BY <2>1, FS_Interval
<1>5. f \in Injection(D, D)
  <2> HIDE DEF f, D
  <2> QED BY <1>2, <1>3 DEF Injection, IsInjective
<1>6. f \in Surjection(D, D)
  <2> HIDE DEF f, D
  <2> QED BY <1>4, <1>5, FS_Injection
<1>7. \E k \in D : f[k] = i
  <2>1. i \in D OBVIOUS
  <2> HIDE DEF f, D
  <2> QED BY <1>6, <2>1 DEF Surjection
<1> QED BY <1>7

-----------------------------------------------------------------------------
(* Tables in which every item is found.                                    *)

\* The slots looked at for a key are all slots of the table, each once.
LEMMA Probes ==
  ASSUME NEW k \in Key, NEW n \in Sizes
  PROVE  /\ \A p \in 0 .. n - 1 : Slots(Hash[k], n)[p] \in 0 .. n - 1
         /\ \A p, q \in 0 .. n - 1 : Slots(Hash[k], n)[p] = Slots(Hash[k], n)[q] => p = q
         /\ \A i \in 0 .. n - 1 : \E p \in 0 .. n - 1 : Slots(Hash[k], n)[p] = i
<1>0. n \in Nat /\ n >= 3 /\ n > 0 BY SizesNat
<1> DEFINE inc == Incr(Hash[k], n)
           first == Hash[k] % n
           probe == Slots(Hash[k], n)
<1>1. inc \in 1 .. n - 1 BY IncrNat
<1>2. first \in Nat BY <1>0, TableAssumption
<1>3. probe = [p \in 0 .. n - 1 |-> (first + p * inc) % n] BY DEF Slots
<1> HIDE DEF inc, first, probe
<1>4. \A p \in 0 .. n - 1 : probe[p] \in 0 .. n - 1
  <2> SUFFICES ASSUME NEW p \in 0 .. n - 1 PROVE probe[p] \in 0 .. n - 1 OBVIOUS
  <2>1. first + p * inc \in Nat BY <1>0, <1>1, <1>2
  <2> QED BY <1>0, <1>3, <2>1, Division
<1>5. ASSUME NEW p \in 0 .. n - 1, NEW q \in 0 .. n - 1, probe[p] = probe[q] PROVE p = q
  <2>1. CASE p < q BY <1>1, <1>2, <1>3, <1>5, <2>1, SlotsDiffer
  <2>2. CASE q < p BY <1>1, <1>2, <1>3, <1>5, <2>2, SlotsDiffer
  <2> QED BY <2>1, <2>2
<1>6. \A i \in 0 .. n - 1 : \E p \in 0 .. n - 1 : probe[p] = i BY <1>1, <1>2, <1>3, SlotsCover
<1> QED BY <1>4, <1>5, <1>6 DEF probe

\* lookmapping stops when a NULL key is left.
LEMMA SearchStops ==
  ASSUME NEW n \in Sizes, NEW tab \in Tables(n), NEW k \in Key,
         NEW i \in 0 .. n - 1, tab[i].key = NULL
  PROVE  Stops(tab, k) # {}
<1>1. DOMAIN tab = 0 .. n - 1 BY DEF Tables
<1>2. SizeOf(tab) = n BY <1>1, SizesNat, SizeOfTable
<1>3. PICK p \in 0 .. n - 1 : Slots(Hash[k], n)[p] = i BY Probes
<1>4. Stops(tab, k) = {q \in 0 .. n - 1 : tab[Slots(Hash[k], n)[q]].key \in {NULL, k}}
  BY <1>1, <1>2 DEF Stops
<1> QED BY <1>3, <1>4

\* A table with fewer filled slots than slots has a NULL key.
LEMMA NullLeft ==
  ASSUME NEW n \in Nat, NEW tab \in Tables(n), Cardinality(NonNull(tab)) < n
  PROVE  \E i \in 0 .. n - 1 : tab[i].key = NULL
<1> SUFFICES ASSUME \A i \in 0 .. n - 1 : tab[i].key # NULL PROVE FALSE OBVIOUS
<1>1. DOMAIN tab = 0 .. n - 1 BY DEF Tables
<1>2. NonNull(tab) = DOMAIN tab BY <1>1 DEF NonNull
<1>3. Cardinality(NonNull(tab)) = n BY <1>1, <1>2, SizeOfTable DEF SizeOf
<1> QED BY <1>3

\* A search for k gets to slot i: it stops at none of the slots before.
Reached(tab, n, k, i) ==
  \E p \in 0 .. n - 1 :
    /\ Slots(Hash[k], n)[p] = i
    /\ \A q \in 0 .. n - 1 : q < p => tab[Slots(Hash[k], n)[q]].key \notin {NULL, k}

\* Tables in which every item is where a search for its key gets to.
Hashed(n) ==
  {tab \in Tables(n) :
     \A i \in 0 .. n - 1 : tab[i].value # NULL => Reached(tab, n, tab[i].key, i)}

\* No key is in two slots.
LEMMA KeysUnique ==
  ASSUME NEW n \in Sizes, NEW tab \in Hashed(n), NEW i \in 0 .. n - 1, NEW j \in 0 .. n - 1,
         tab[i].value # NULL, tab[i].key = tab[j].key
  PROVE  i = j
<1> DEFINE k == tab[i].key
           probe == Slots(Hash[k], n)
<1>1. tab \in Tables(n) /\ tab[i] \in ValidEntry /\ tab[j] \in ValidEntry BY DEF Hashed, Tables
<1>2. k \in Key /\ tab[j].value # NULL BY <1>1 DEF ValidEntry
<1>3. Reached(tab, n, k, i) /\ Reached(tab, n, k, j) BY <1>2 DEF Hashed
<1> HIDE DEF k
<1>4. PICK p \in 0 .. n - 1 : probe[p] = i /\ \A q \in 0 .. n - 1 : q < p => tab[probe[q]].key \notin {NULL, k}
  BY <1>3 DEF Reached
<1>5. PICK q \in 0 .. n - 1 : probe[q] = j /\ \A r \in 0 .. n - 1 : r < q => tab[probe[r]].key \notin {NULL, k}
  BY <1>3 DEF Reached
<1>6. tab[i].key = k /\ tab[j].key = k BY DEF k
<1>7. ~(p < q) BY <1>4, <1>5, <1>6
<1>8. ~(q < p) BY <1>4, <1>5, <1>6
<1>9. p = q BY <1>7, <1>8
<1> QED BY <1>4, <1>5, <1>9

\* lookmapping returns the key's slot or, when the key is not there, a free one
\* where a later search will find it.
LEMMA LookFinds ==
  ASSUME NEW n \in Sizes, NEW tab \in Hashed(n), NEW k \in Key, Stops(tab, k) # {}
  PROVE  /\ Look(tab, k) \in 0 .. n - 1
         /\ tab[Look(tab, k)].value # NULL => tab[Look(tab, k)].key = k
         /\ tab[Look(tab, k)].value = NULL => \A j \in 0 .. n - 1 : tab[j].key # k
         /\ Reached(tab, n, k, Look(tab, k))
<1>0. n \in Nat /\ n >= 3 /\ k # NULL /\ k # Dummy /\ Dummy # NULL /\ Dummy \notin Key /\ NULL \notin Key
  BY SizesNat, TableAssumption
<1>1. tab \in Tables(n) /\ DOMAIN tab = 0 .. n - 1 BY DEF Hashed, Tables
<1>2. SizeOf(tab) = n BY <1>0, <1>1, SizeOfTable
<1> DEFINE probe == Slots(Hash[k], n)
           S == Stops(tab, k)
           stop == Min(S)
           free == {p \in 0 .. stop : tab[probe[p]].key = Dummy}
           i == Look(tab, k)
<1>3. S = {p \in 0 .. n - 1 : tab[probe[p]].key \in {NULL, k}} BY <1>1, <1>2 DEF Stops
<1>4. i = IF tab[probe[stop]].key = NULL /\ free # {} THEN probe[Min(free)] ELSE probe[stop]
  BY <1>2 DEF Look
<1>5. \A p \in 0 .. n - 1 : probe[p] \in 0 .. n - 1 BY Probes
<1> HIDE DEF probe, i
<1>6. stop \in S /\ \A p \in S : stop <= p
  <2>1. S \in SUBSET Nat BY <1>3
  <2> HIDE DEF S
  <2> QED BY <2>1, MinNat DEF S
<1> HIDE DEF stop
<1>7. stop \in 0 .. n - 1 /\ tab[probe[stop]].key \in {NULL, k} BY <1>3, <1>6
<1>8. \A q \in 0 .. n - 1 : q < stop => tab[probe[q]].key \notin {NULL, k} BY <1>3, <1>6, <1>7
<1>9. \A j \in 0 .. n - 1 : tab[j] \in ValidEntry BY <1>1 DEF Tables
<1> HIDE DEF S
<1>10. CASE tab[probe[stop]].key = k
  <2>1. i = probe[stop] BY <1>0, <1>4, <1>10
  <2>2. i \in 0 .. n - 1 BY <1>5, <1>7, <2>1
  <2>3. tab[i].value # NULL BY <1>9, <1>10, <2>1, <2>2 DEF ValidEntry
  <2>4. Reached(tab, n, k, i) BY <1>7, <1>8, <2>1 DEF Reached, probe
  <2> QED BY <1>10, <2>1, <2>2, <2>3, <2>4 DEF i
<1>11. CASE tab[probe[stop]].key = NULL
  <2>1. ASSUME NEW j \in 0 .. n - 1, tab[j].key = k PROVE FALSE
    <3>1. tab[j].value # NULL BY <1>9, <2>1 DEF ValidEntry
    <3>2. Reached(tab, n, k, j) BY <2>1, <3>1 DEF Hashed
    <3>3. PICK p \in 0 .. n - 1 : probe[p] = j /\ \A q \in 0 .. n - 1 : q < p => tab[probe[q]].key \notin {NULL, k}
      BY <3>2 DEF Reached, probe
    <3>4. ~(stop < p) BY <1>7, <1>11, <3>3
    <3>5. ~(p < stop) BY <1>8, <2>1, <3>3
    <3>6. p = stop BY <1>7, <3>4, <3>5
    <3> QED BY <1>0, <1>11, <2>1, <3>3, <3>6
  <2>2. PICK p \in 0 .. stop : i = probe[p] /\ tab[probe[p]].key \in {Dummy, NULL}
    <3>0. stop \in 0 .. stop BY <1>7
    <3>1. CASE free = {}
      <4>1. i = probe[stop] BY <1>4, <3>1
      <4> QED BY <1>11, <3>0, <4>1
    <3>2. CASE free # {}
      <4>1. free \in SUBSET Nat BY <1>7
      <4>2. Min(free) \in free
        <5> HIDE DEF free
        <5> QED BY <3>2, <4>1, MinNat
      <4> QED BY <1>4, <1>11, <3>2, <4>2
    <3> QED BY <3>1, <3>2
  <2>3. p \in 0 .. n - 1 BY <1>0, <1>7
  <2>4. i \in 0 .. n - 1 BY <1>5, <2>2, <2>3
  <2>5. tab[i].value = NULL BY <1>0, <1>9, <2>2, <2>4 DEF ValidEntry
  <2>6. \A q \in 0 .. n - 1 : q < p => tab[probe[q]].key \notin {NULL, k} BY <1>7, <1>8
  <2>7. Reached(tab, n, k, i) BY <2>2, <2>3, <2>6 DEF Reached, probe
  <2> QED BY <2>1, <2>4, <2>5, <2>7 DEF i
<1> QED BY <1>7, <1>10, <1>11

\* insertmapping writes the item into the slot lookmapping returns.
LEMMA InsertWrites ==
  ASSUME NEW n \in Sizes, NEW tab \in Hashed(n), NEW k \in Key, NEW v \in Value, Stops(tab, k) # {}
  PROVE  Insert(tab, k, v) = [tab EXCEPT ![Look(tab, k)] = [key |-> k, value |-> v]]
<1> DEFINE i == Look(tab, k)
<1>1. i \in 0 .. n - 1 /\ (tab[i].value # NULL => tab[i].key = k) BY LookFinds
<1>2. Insert(tab, k, v) = IF tab[i].value # NULL THEN [tab EXCEPT ![i].value = v]
                          ELSE [tab EXCEPT ![i] = [key |-> k, value |-> v]]
  BY DEF Insert
<1> HIDE DEF i
<1>3. tab[i] \in Entry BY <1>1 DEF Hashed, Tables, ValidEntry
<1>4. CASE tab[i].value # NULL
  <2>1. [tab[i] EXCEPT !.value = v] = [key |-> k, value |-> v] BY <1>1, <1>3, <1>4 DEF Entry
  <2>2. Insert(tab, k, v) = [tab EXCEPT ![i] = [tab[i] EXCEPT !.value = v]] BY <1>2, <1>4
  <2> QED BY <2>1, <2>2 DEF i
<1>5. CASE tab[i].value = NULL BY <1>2, <1>5 DEF i
<1> QED BY <1>4, <1>5

\* A search that got to a slot still does when another slot is filled with
\* something else than its key, and when that slot itself is.
LEMMA ReachedStays ==
  ASSUME NEW n \in Sizes, NEW tab \in Tables(n), NEW k \in Key, NEW j \in 0 .. n - 1,
         Reached(tab, n, k, j), NEW i \in 0 .. n - 1, NEW e, e.key # NULL, e.key # k \/ i = j
  PROVE  Reached([tab EXCEPT ![i] = e], n, k, j)
<1> DEFINE probe == Slots(Hash[k], n)
           new == [tab EXCEPT ![i] = e]
<1>1. PICK p \in 0 .. n - 1 : probe[p] = j /\ \A q \in 0 .. n - 1 : q < p => tab[probe[q]].key \notin {NULL, k}
  BY DEF Reached
<1>2. /\ \A q \in 0 .. n - 1 : probe[q] \in 0 .. n - 1
      /\ \A q \in 0 .. n - 1 : probe[q] = probe[p] => q = p
  BY Probes
<1>3. new[i] = e /\ \A q \in 0 .. n - 1 : q # i => new[q] = tab[q] BY DEF Tables
<1> HIDE DEF new
<1>4. \A q \in 0 .. n - 1 : q < p => new[probe[q]].key \notin {NULL, k}
  <2> SUFFICES ASSUME NEW q \in 0 .. n - 1, q < p PROVE new[probe[q]].key \notin {NULL, k} OBVIOUS
  <2>0. p \in Int /\ q \in Int BY SizesNat
  <2>1. probe[q] # j /\ probe[q] \in 0 .. n - 1 BY <1>1, <1>2, <2>0
  <2>2. CASE probe[q] = i BY <1>3, <2>1, <2>2
  <2>3. CASE probe[q] # i BY <1>1, <1>3, <2>1, <2>3
  <2> QED BY <2>2, <2>3
<1> QED BY <1>1, <1>4 DEF Reached, new

\* The table after an insertion: one slot has changed, and every item can be
\* found.
LEMMA InsertHashed ==
  ASSUME NEW n \in Sizes, NEW tab \in Hashed(n), NEW k \in Key, NEW v \in Value, Stops(tab, k) # {}
  PROVE  /\ Insert(tab, k, v) \in Hashed(n)
         /\ Insert(tab, k, v)[Look(tab, k)] = [key |-> k, value |-> v]
         /\ \A j \in 0 .. n - 1 : j # Look(tab, k) => Insert(tab, k, v)[j] = tab[j] /\ tab[j].key # k
<1> DEFINE i == Look(tab, k)
           e == [key |-> k, value |-> v]
           new == [tab EXCEPT ![i] = e]
<1>0. v # NULL /\ k # NULL BY TableAssumption
<1>1. /\ i \in 0 .. n - 1 /\ (tab[i].value # NULL => tab[i].key = k) /\ Reached(tab, n, k, i)
      /\ tab[i].value = NULL => \A j \in 0 .. n - 1 : tab[j].key # k
  BY LookFinds
<1>2. Insert(tab, k, v) = new BY InsertWrites
<1> HIDE DEF i
<1>3. tab \in Tables(n) BY DEF Hashed
<1>4. e \in ValidEntry BY <1>0 DEF ValidEntry, Entry
<1>5. new \in Tables(n) BY <1>1, <1>3, <1>4 DEF Tables
<1>6. new[i] = e /\ \A j \in 0 .. n - 1 : j # i => new[j] = tab[j] BY <1>1, <1>3 DEF Tables
<1>7. \A j \in 0 .. n - 1 : j # i => tab[j].key # k
  <2> SUFFICES ASSUME NEW j \in 0 .. n - 1, j # i, tab[j].key = k PROVE FALSE OBVIOUS
  <2>1. tab[i].value # NULL BY <1>1
  <2>2. tab[i].key = tab[j].key BY <1>1, <2>1
  <2> QED BY <1>1, <2>1, <2>2, KeysUnique
<1>8. e.key = k /\ e.value = v OBVIOUS
<1> HIDE DEF e
<1>9. ASSUME NEW j \in 0 .. n - 1, new[j].value # NULL PROVE Reached(new, n, new[j].key, j)
  <2>1. CASE j = i
    <3>1. Reached(new, n, k, i) BY <1>0, <1>1, <1>3, <1>8, ReachedStays
    <3> QED BY <1>6, <1>8, <2>1, <3>1
  <2>2. CASE j # i
    <3>1. new[j] = tab[j] BY <1>6, <2>2
    <3> DEFINE kj == tab[j].key
    <3>2. kj \in Key BY <1>3, <1>9, <3>1 DEF Tables, ValidEntry
    <3>3. Reached(tab, n, kj, j) BY <1>9, <3>1 DEF Hashed
    <3>4. kj # k BY <1>7, <2>2
    <3> HIDE DEF kj
    <3>5. Reached(new, n, kj, j) BY <1>0, <1>1, <1>3, <1>8, <3>2, <3>3, <3>4, ReachedStays
    <3> QED BY <3>1, <3>5 DEF kj
  <2> QED BY <2>1, <2>2
<1> HIDE DEF new
<1>10. new \in Hashed(n) BY <1>5, <1>9 DEF Hashed
<1> QED BY <1>2, <1>6, <1>7, <1>10 DEF i, e

\* The table after a removal.
LEMMA VacatedHashed ==
  ASSUME NEW n \in Sizes, NEW tab \in Hashed(n), NEW i \in 0 .. n - 1, tab[i].value # NULL
  PROVE  /\ [tab EXCEPT ![i] = [key |-> Dummy, value |-> NULL]] \in Hashed(n)
         /\ [tab EXCEPT ![i] = [key |-> Dummy, value |-> NULL]][i] = [key |-> Dummy, value |-> NULL]
         /\ \A j \in 0 .. n - 1 : j # i =>
              /\ [tab EXCEPT ![i] = [key |-> Dummy, value |-> NULL]][j] = tab[j]
              /\ tab[j].key # tab[i].key
<1> DEFINE e == [key |-> Dummy, value |-> NULL]
           new == [tab EXCEPT ![i] = e]
<1>0. Dummy # NULL /\ Dummy \notin Key BY TableAssumption
<1>1. tab \in Tables(n) BY DEF Hashed
<1>2. e \in ValidEntry BY <1>0 DEF ValidEntry, Entry
<1>3. new \in Tables(n) BY <1>1, <1>2 DEF Tables
<1>4. new[i] = e /\ \A j \in 0 .. n - 1 : j # i => new[j] = tab[j] BY <1>1 DEF Tables
<1>5. e.key = Dummy /\ e.value = NULL OBVIOUS
<1> HIDE DEF e
<1>6. ASSUME NEW j \in 0 .. n - 1, new[j].value # NULL PROVE Reached(new, n, new[j].key, j)
  <2>1. j # i /\ new[j] = tab[j] BY <1>4, <1>5, <1>6
  <2> DEFINE kj == tab[j].key
  <2>2. kj \in Key BY <1>1, <1>6, <2>1 DEF Tables, ValidEntry
  <2>3. Reached(tab, n, kj, j) BY <1>6, <2>1 DEF Hashed
  <2> HIDE DEF kj
  <2>4. kj # Dummy BY <1>0, <2>2
  <2>5. Reached(new, n, kj, j) BY <1>0, <1>1, <1>5, <2>2, <2>3, <2>4, ReachedStays
  <2> QED BY <2>1, <2>5 DEF kj
<1> HIDE DEF new
<1>7. new \in Hashed(n) BY <1>3, <1>6 DEF Hashed
<1>8. \A j \in 0 .. n - 1 : j # i => tab[j].key # tab[i].key BY KeysUnique
<1> QED BY <1>4, <1>7, <1>8 DEF new, e

-----------------------------------------------------------------------------
(* What a table holds.                                                     *)

\* No key is in the table twice.
Unique(tab) == \A i, j \in Items(tab) : tab[i].key = tab[j].key => i = j

\* In a table with unique keys, the contents are the items.
LEMMA ContentsAt ==
  ASSUME NEW tab, Unique(tab)
  PROVE  /\ \A k \in Key : (\A i \in Items(tab) : tab[i].key # k) => Contents(tab)[k] = NULL
         /\ \A i \in Items(tab) : tab[i].key \in Key => Contents(tab)[tab[i].key] = tab[i].value
<1>1. ASSUME NEW k \in Key, \A i \in Items(tab) : tab[i].key # k PROVE Contents(tab)[k] = NULL
  BY <1>1 DEF Contents
<1>2. ASSUME NEW i \in Items(tab), tab[i].key \in Key PROVE Contents(tab)[tab[i].key] = tab[i].value
  <2> DEFINE k == tab[i].key
             c == CHOOSE j \in Items(tab) : tab[j].key = k
  <2>1. c \in Items(tab) /\ tab[c].key = k OBVIOUS
  <2>2. Contents(tab)[k] = tab[c].value BY <1>2 DEF Contents
  <2> HIDE DEF c
  <2>3. c = i BY <2>1 DEF Unique
  <2> QED BY <2>2, <2>3
<1> QED BY <1>1, <1>2

\* A search finds one slot for a key: a table that is searched that way holds no
\* key twice.
LEMMA HashedUnique ==
  ASSUME NEW n \in Sizes, NEW tab \in Hashed(n)
  PROVE  /\ Unique(tab) /\ DOMAIN tab = 0 .. n - 1
         /\ \A i \in 0 .. n - 1 : tab[i] \in ValidEntry
         /\ \A i \in 0 .. n - 1 : i \in Items(tab) <=> tab[i].value # NULL
<1>1. DOMAIN tab = 0 .. n - 1 /\ \A i \in 0 .. n - 1 : tab[i] \in ValidEntry BY DEF Hashed, Tables
<1>2. \A i \in 0 .. n - 1 : i \in Items(tab) <=> tab[i].value # NULL BY <1>1 DEF Items
<1>3. \A i \in Items(tab) : i \in 0 .. n - 1 BY <1>1 DEF Items
<1>4. Unique(tab) BY <1>2, <1>3, KeysUnique DEF Unique
<1> QED BY <1>1, <1>2, <1>4

\* Two tables with the same items hold the same dictionary.
LEMMA SameContents ==
  ASSUME NEW a, NEW b, Unique(a), Unique(b),
         \A i \in Items(a) : \E j \in Items(b) : a[i] = b[j],
         \A j \in Items(b) : \E i \in Items(a) : a[i] = b[j]
  PROVE  Contents(a) = Contents(b)
<1>1. ASSUME NEW k \in Key PROVE Contents(a)[k] = Contents(b)[k]
  <2>1. CASE \E i \in Items(a) : a[i].key = k
    <3>1. PICK i \in Items(a) : a[i].key = k BY <2>1
    <3>2. PICK j \in Items(b) : a[i] = b[j] OBVIOUS
    <3>3. Contents(a)[k] = a[i].value BY <3>1, ContentsAt
    <3>4. Contents(b)[k] = b[j].value BY <3>1, <3>2, ContentsAt
    <3> QED BY <3>2, <3>3, <3>4
  <2>2. CASE \A i \in Items(a) : a[i].key # k
    <3>1. \A j \in Items(b) : b[j].key # k BY <2>2
    <3> QED BY <2>2, <3>1, ContentsAt
  <2> QED BY <2>1, <2>2
<1>2. Contents(a) = [k \in Key |-> Contents(a)[k]] BY DEF Contents
<1>3. Contents(b) = [k \in Key |-> Contents(b)[k]] BY DEF Contents
<1> HIDE DEF Contents
<1> QED BY <1>1, <1>2, <1>3

\* What a lookup returns.
LEMMA ContentsLook ==
  ASSUME NEW n \in Sizes, NEW tab \in Hashed(n), NEW k \in Key, Stops(tab, k) # {}
  PROVE  Contents(tab)[k] = tab[Look(tab, k)].value
<1> DEFINE i == Look(tab, k)
<1>1. /\ i \in 0 .. n - 1 /\ (tab[i].value # NULL => tab[i].key = k)
      /\ tab[i].value = NULL => \A j \in 0 .. n - 1 : tab[j].key # k
  BY LookFinds
<1> HIDE DEF i
<1>2. Unique(tab) /\ DOMAIN tab = 0 .. n - 1 BY HashedUnique
<1>3. i \in Items(tab) <=> tab[i].value # NULL BY <1>1, HashedUnique
<1>4. CASE tab[i].value # NULL BY <1>1, <1>2, <1>3, <1>4, ContentsAt DEF i
<1>5. CASE tab[i].value = NULL
  <2>1. \A j \in Items(tab) : tab[j].key # k BY <1>1, <1>2, <1>5 DEF Items
  <2> QED BY <1>2, <1>5, <2>1, ContentsAt DEF i
<1> QED BY <1>4, <1>5

\* An insertion stores the value under the key.
LEMMA ContentsInsert ==
  ASSUME NEW n \in Sizes, NEW tab \in Hashed(n), NEW k \in Key, NEW v \in Value, Stops(tab, k) # {}
  PROVE  Contents(Insert(tab, k, v)) = [Contents(tab) EXCEPT ![k] = v]
<1> DEFINE i == Look(tab, k)
           new == Insert(tab, k, v)
<1>0. v # NULL BY TableAssumption
<1>1. i \in 0 .. n - 1 BY LookFinds
<1>2. /\ new \in Hashed(n) /\ new[i] = [key |-> k, value |-> v]
      /\ \A j \in 0 .. n - 1 : j # i => new[j] = tab[j] /\ tab[j].key # k
  BY InsertHashed
<1> HIDE DEF i, new
<1>2a. new[i].key = k /\ new[i].value = v BY <1>2
<1>3. /\ Unique(tab) /\ DOMAIN tab = 0 .. n - 1 /\ Unique(new) /\ DOMAIN new = 0 .. n - 1
      /\ \A j \in 0 .. n - 1 : j \in Items(tab) <=> tab[j].value # NULL
      /\ \A j \in 0 .. n - 1 : j \in Items(new) <=> new[j].value # NULL
  BY <1>2, HashedUnique
<1>3a. (\A j \in Items(tab) : j \in 0 .. n - 1) /\ (\A j \in Items(new) : j \in 0 .. n - 1)
  BY <1>3 DEF Items
<1>4. ASSUME NEW x \in Key PROVE Contents(new)[x] = IF x = k THEN v ELSE Contents(tab)[x]
  <2>1. CASE x = k
    <3>1. i \in Items(new) BY <1>0, <1>1, <1>2a, <1>3
    <3> QED BY <1>2a, <1>3, <2>1, <3>1, ContentsAt
  <2>2. CASE x # k /\ \E j \in Items(tab) : tab[j].key = x
    <3>1. PICK j \in Items(tab) : tab[j].key = x BY <2>2
    <3>2. j \in 0 .. n - 1 BY <1>3a
    <3>3. j # i
      <4> SUFFICES ASSUME j = i PROVE FALSE OBVIOUS
      <4>1. tab[i].value # NULL BY <1>3, <3>1, <3>2
      <4>2. tab[i].key = k BY <4>1, LookFinds DEF i
      <4> QED BY <2>2, <3>1, <4>2
    <3>4. new[j] = tab[j] BY <1>2, <3>2, <3>3
    <3>5. j \in Items(new) BY <1>3, <3>1, <3>2, <3>4
    <3>6. Contents(new)[x] = new[j].value BY <1>3, <3>1, <3>4, <3>5, ContentsAt
    <3>7. Contents(tab)[x] = tab[j].value BY <1>3, <3>1, ContentsAt
    <3> QED BY <2>2, <3>4, <3>6, <3>7
  <2>3. CASE x # k /\ \A j \in Items(tab) : tab[j].key # x
    <3>1. ASSUME NEW j \in Items(new), new[j].key = x PROVE FALSE
      <4>1. j \in 0 .. n - 1 BY <1>3a
      <4>2. j # i BY <1>2a, <2>3, <3>1
      <4>3. new[j] = tab[j] BY <1>2, <4>1, <4>2
      <4>4. j \in Items(tab) BY <1>3, <4>1, <4>3
      <4> QED BY <2>3, <3>1, <4>3, <4>4
    <3>2. Contents(new)[x] = NULL BY <1>3, <3>1, ContentsAt
    <3>3. Contents(tab)[x] = NULL BY <1>3, <2>3, ContentsAt
    <3> QED BY <2>3, <3>2, <3>3
  <2> QED BY <2>1, <2>2, <2>3
<1>5. Contents(new) = [x \in Key |-> Contents(new)[x]] BY DEF Contents
<1>6. DOMAIN Contents(tab) = Key /\ Contents(tab) = [x \in Key |-> Contents(tab)[x]] BY DEF Contents
<1> HIDE DEF Contents
<1> QED BY <1>4, <1>5, <1>6 DEF new

\* A removal deletes the key.
LEMMA ContentsVacated ==
  ASSUME NEW n \in Sizes, NEW tab \in Hashed(n), NEW i \in 0 .. n - 1, tab[i].value # NULL
  PROVE  Contents([tab EXCEPT ![i] = [key |-> Dummy, value |-> NULL]])
           = [Contents(tab) EXCEPT ![tab[i].key] = NULL]
<1> DEFINE new == [tab EXCEPT ![i] = [key |-> Dummy, value |-> NULL]]
           k == tab[i].key
<1>1. /\ new \in Hashed(n) /\ new[i] = [key |-> Dummy, value |-> NULL]
      /\ \A j \in 0 .. n - 1 : j # i => new[j] = tab[j] /\ tab[j].key # k
  BY VacatedHashed
<1> HIDE DEF new
<1>1a. new[i].value = NULL BY <1>1
<1>2. /\ Unique(tab) /\ DOMAIN tab = 0 .. n - 1 /\ Unique(new) /\ DOMAIN new = 0 .. n - 1
      /\ \A j \in 0 .. n - 1 : j \in Items(tab) <=> tab[j].value # NULL
      /\ \A j \in 0 .. n - 1 : j \in Items(new) <=> new[j].value # NULL
  BY <1>1, HashedUnique
<1>3. (\A j \in Items(tab) : j \in 0 .. n - 1) /\ (\A j \in Items(new) : j \in 0 .. n - 1)
  BY <1>2 DEF Items
<1>4. ASSUME NEW x \in Key PROVE Contents(new)[x] = IF x = k THEN NULL ELSE Contents(tab)[x]
  <2>1. CASE x # k /\ \E j \in Items(tab) : tab[j].key = x
    <3>1. PICK j \in Items(tab) : tab[j].key = x BY <2>1
    <3>2. j \in 0 .. n - 1 /\ j # i BY <1>3, <2>1, <3>1
    <3>3. new[j] = tab[j] BY <1>1, <3>2
    <3>4. j \in Items(new) BY <1>2, <3>1, <3>2, <3>3
    <3>5. Contents(new)[x] = new[j].value BY <1>2, <3>1, <3>3, <3>4, ContentsAt
    <3>6. Contents(tab)[x] = tab[j].value BY <1>2, <3>1, ContentsAt
    <3> QED BY <2>1, <3>3, <3>5, <3>6
  <2>2. CASE x = k \/ \A j \in Items(tab) : tab[j].key # x
    <3>1. ASSUME NEW j \in Items(new), new[j].key = x PROVE FALSE
      <4>1. j \in 0 .. n - 1 /\ j # i BY <1>1a, <1>2, <1>3
      <4>2. new[j] = tab[j] /\ tab[j].key # k BY <1>1, <4>1
      <4>3. j \in Items(tab) BY <1>2, <4>1, <4>2
      <4> QED BY <2>2, <3>1, <4>2, <4>3
    <3>2. Contents(new)[x] = NULL BY <1>2, <3>1, ContentsAt
    <3>3. x # k => Contents(tab)[x] = NULL BY <1>2, <2>2, ContentsAt
    <3> QED BY <3>2, <3>3
  <2> QED BY <2>1, <2>2
<1>5. Contents(new) = [x \in Key |-> Contents(new)[x]] BY DEF Contents
<1>6. DOMAIN Contents(tab) = Key /\ Contents(tab) = [x \in Key |-> Contents(tab)[x]] BY DEF Contents
<1> HIDE DEF Contents
<1> QED BY <1>4, <1>5, <1>6 DEF new

-----------------------------------------------------------------------------
(* mappingresize: the new table holds what the old one held.               *)

\* The slots with an entry in E.
At(tab, E) == {i \in DOMAIN tab : tab[i] \in E}

\* Entries that hold an item.
ItemEntry == {e \in ValidEntry : e.value # NULL}

\* One more slot.
LEMMA OneSlotMore ==
  ASSUME NEW S, NEW T, NEW x, NEW C \in BOOLEAN, IsFiniteSet(S), x \notin S,
         T = IF C THEN S \cup {x} ELSE S
  PROVE  /\ IsFiniteSet(T) /\ Cardinality(S) \in Nat
         /\ Cardinality(T) = Cardinality(S) + (IF C THEN 1 ELSE 0)
<1>1. Cardinality(S) \in Nat BY FS_CardinalityType
<1>2. IsFiniteSet(S \cup {x}) /\ Cardinality(S \cup {x}) = Cardinality(S) + 1 BY FS_AddElement
<1> QED BY <1>1, <1>2

\* Sets of slots are finite.
LEMMA FiniteAt ==
  ASSUME NEW n \in Nat, NEW S \in SUBSET (0 .. n - 1)
  PROVE  IsFiniteSet(S) /\ Cardinality(S) \in Nat
<1>1. 0 \in Int /\ n - 1 \in Int OBVIOUS
<1>2. IsFiniteSet(0 .. n - 1) BY <1>1, FS_Interval
<1> QED BY <1>2, FS_Subset, FS_CardinalityType

\* The insertion of a new key adds one entry to the table.
LEMMA InsertAdds ==
  ASSUME NEW n \in Sizes, NEW tab \in Hashed(n), NEW k \in Key, NEW v \in Value, Stops(tab, k) # {},
         tab[Look(tab, k)].value = NULL, NEW E \in SUBSET ItemEntry
  PROVE  Cardinality(At(Insert(tab, k, v), E)) =
           Cardinality(At(tab, E)) + (IF [key |-> k, value |-> v] \in E THEN 1 ELSE 0)
<1> DEFINE i == Look(tab, k)
           new == Insert(tab, k, v)
           e == [key |-> k, value |-> v]
           C == e \in E
<1>1. i \in 0 .. n - 1 BY LookFinds
<1>2. new \in Hashed(n) /\ new[i] = e /\ \A j \in 0 .. n - 1 : j # i => new[j] = tab[j]
  BY InsertHashed
<1>3. DOMAIN tab = 0 .. n - 1 /\ DOMAIN new = 0 .. n - 1 BY <1>2, HashedUnique
<1>4. tab[i].value = NULL OBVIOUS
<1> HIDE DEF i, new, e
<1>5. i \notin At(tab, E) BY <1>4 DEF At, ItemEntry
<1>6. At(tab, E) \in SUBSET (0 .. n - 1) BY <1>3 DEF At
<1>7. IsFiniteSet(At(tab, E)) BY <1>6, SizesNat, FiniteAt
<1>8. At(new, E) = IF C THEN At(tab, E) \cup {i} ELSE At(tab, E)
  BY <1>1, <1>2, <1>3, <1>5 DEF At
<1>9. C \in BOOLEAN OBVIOUS
<1> HIDE DEF C
<1>10. Cardinality(At(new, E)) = Cardinality(At(tab, E)) + (IF C THEN 1 ELSE 0)
  BY <1>5, <1>7, <1>8, <1>9, OneSlotMore
<1> QED BY <1>10 DEF new, C, e

\* The items of the first j slots.
First(tab, j, E) == {q \in 0 .. j - 1 : tab[q] \in E}

\* One slot more is counted, if its entry is in E.
LEMMA FirstAdds ==
  ASSUME NEW j \in Nat, j > 0, NEW tab, NEW E
  PROVE  /\ Cardinality(First(tab, j, E)) =
              Cardinality(First(tab, j - 1, E)) + (IF tab[j - 1] \in E THEN 1 ELSE 0)
         /\ \A q \in First(tab, j, E) : q \in First(tab, j - 1, E) \/ q = j - 1
         /\ \A q \in First(tab, j - 1, E) : q \in First(tab, j, E)
<1> DEFINE C == tab[j - 1] \in E
           S == First(tab, j - 1, E)
<1>1. \A q \in 0 .. j - 1 : q \in 0 .. j - 1 - 1 \/ q = j - 1 OBVIOUS
<1>2. \A q \in 0 .. j - 1 - 1 : q \in 0 .. j - 1 /\ q # j - 1 OBVIOUS
<1>3. j - 1 \in 0 .. j - 1 /\ j - 1 \in Nat OBVIOUS
<1>4. First(tab, j, E) = IF C THEN S \cup {j - 1} ELSE S BY <1>1, <1>2, <1>3 DEF First
<1>5. j - 1 \notin S BY <1>2 DEF First
<1>6. S \in SUBSET (0 .. j - 1 - 1) BY DEF First
<1>7. IsFiniteSet(S) BY <1>3, <1>6, FiniteAt
<1>8. C \in BOOLEAN OBVIOUS
<1> HIDE DEF C, S
<1>9. Cardinality(First(tab, j, E)) = Cardinality(S) + (IF C THEN 1 ELSE 0)
  BY <1>4, <1>5, <1>7, <1>8, OneSlotMore
<1> QED BY <1>4, <1>9 DEF C, S

\* A resized table holds the items of the old one, and nothing else.
LEMMA Rehashed ==
  ASSUME NEW m \in Nat, NEW n \in Sizes, NEW tab \in Tables(m), Unique(tab),
         Cardinality(Items(tab)) < n
  PROVE  /\ Rehash(tab, n) \in Hashed(n)
         /\ NonNull(Rehash(tab, n)) = Items(Rehash(tab, n))
         /\ Contents(Rehash(tab, n)) = Contents(tab)
         /\ \A E \in SUBSET ItemEntry :
              Cardinality(At(Rehash(tab, n), E)) = Cardinality(At(tab, E))
<1> DEFINE f == Copies(tab, n)
           Good(j) ==
             /\ f[j] \in Hashed(n)
             /\ NonNull(f[j]) = Items(f[j])
             /\ \A i \in Items(f[j]) : \E q \in First(tab, j, ItemEntry) : f[j][i] = tab[q]
             /\ \A q \in First(tab, j, ItemEntry) : \E i \in Items(f[j]) : f[j][i] = tab[q]
             /\ \A E \in SUBSET ItemEntry : Cardinality(At(f[j], E)) = Cardinality(First(tab, j, E))
<1>0. n \in Nat /\ n >= 3 BY SizesNat
<1>1. DOMAIN tab = 0 .. m - 1 /\ SizeOf(tab) = m BY SizeOfTable DEF Tables
<1>2. /\ f[0] = NewTable(n)
      /\ \A j \in 1 .. m : f[j] = CopyStep(tab, f[j - 1], j)
  BY <1>0, CopiesFollow
<1>3. Rehash(tab, n) = f[m] BY <1>1 DEF Rehash
<1> HIDE DEF f
<1>4. \A q \in 0 .. m - 1 : tab[q] \in ValidEntry BY DEF Tables
<1>5. Good(0)
  <2>1. NewTable(n) = [i \in 0 .. n - 1 |-> Empty] BY DEF NewTable
  <2>2. Empty \in ValidEntry /\ Empty.value = NULL /\ Empty.key = NULL
    BY TableAssumption DEF Empty, ValidEntry, Entry
  <2> DEFINE g == f[0]
  <2>3. DOMAIN g = 0 .. n - 1 /\ \A i \in 0 .. n - 1 : g[i] = Empty BY <1>2, <2>1
  <2>4. g \in Tables(n) BY <1>2, <2>1, <2>2 DEF Tables
  <2> HIDE DEF g
  <2>5. g \in Hashed(n) BY <2>2, <2>3, <2>4 DEF Hashed
  <2>6. NonNull(g) = {} /\ Items(g) = {} BY <2>2, <2>3 DEF NonNull, Items
  <2>7. \A E \in SUBSET ItemEntry : At(g, E) = {} BY <2>2, <2>3 DEF At, ItemEntry
  <2>8. \A E : First(tab, 0, E) = {} BY DEF First
  <2> QED BY <2>5, <2>6, <2>7, <2>8 DEF g
<1>6. ASSUME NEW j \in 1 .. m, Good(j - 1) PROVE Good(j)
  <2> DEFINE a == f[j - 1]
             e == tab[j - 1]
  <2>1. j \in Nat /\ j > 0 /\ j - 1 \in 0 .. m - 1 /\ j - 1 \in DOMAIN tab BY <1>1
  <2>2. f[j] = CopyStep(tab, a, j) BY <1>2
  <2>3. e \in ValidEntry BY <1>4, <2>1
  <2>4. /\ a \in Hashed(n) /\ NonNull(a) = Items(a)
        /\ \A i \in Items(a) : \E q \in First(tab, j - 1, ItemEntry) : a[i] = tab[q]
        /\ \A q \in First(tab, j - 1, ItemEntry) : \E i \in Items(a) : a[i] = tab[q]
        /\ \A E \in SUBSET ItemEntry : Cardinality(At(a, E)) = Cardinality(First(tab, j - 1, E))
    BY <1>6
  <2> HIDE DEF a
  <2>5. CASE e.value = NULL
    <3>1. f[j] = a BY <2>2, <2>5 DEF CopyStep
    <3>2. e \notin ItemEntry BY <2>5 DEF ItemEntry
    <3>3. \A E \in SUBSET ItemEntry : First(tab, j, E) = First(tab, j - 1, E)
      <4> SUFFICES ASSUME NEW E \in SUBSET ItemEntry PROVE First(tab, j, E) = First(tab, j - 1, E)
        OBVIOUS
      <4>1. j - 1 \notin First(tab, j, E) BY <3>2 DEF First
      <4>2. /\ \A q \in First(tab, j, E) : q \in First(tab, j - 1, E) \/ q = j - 1
            /\ \A q \in First(tab, j - 1, E) : q \in First(tab, j, E)
        BY <2>1, FirstAdds
      <4>3. \A q : q \in First(tab, j, E) <=> q \in First(tab, j - 1, E) BY <4>1, <4>2
      <4> QED BY <4>3
    <3>4. ItemEntry \in SUBSET ItemEntry OBVIOUS
    <3>5. First(tab, j, ItemEntry) = First(tab, j - 1, ItemEntry) BY <3>3, <3>4
    <3> HIDE DEF e
    <3> QED BY <2>4, <3>1, <3>3, <3>5
  <2>6. CASE e.value # NULL
    <3> DEFINE k == e.key
               v == e.value
               i == Look(a, k)
               new == f[j]
    <3>1. k \in Key /\ v \in Value /\ e \in ItemEntry /\ e = [key |-> k, value |-> v]
      BY <2>3, <2>6 DEF ValidEntry, Entry, ItemEntry
    <3>2. new = Insert(a, k, v) BY <2>2, <2>6 DEF CopyStep
    <3>2a. j - 1 \in Items(tab) BY <2>1, <2>6 DEF Items
    <3>2b. tab[j - 1] = e /\ tab[j - 1].key = k OBVIOUS
    <3> HIDE DEF e
    <3>3. /\ a \in Tables(n) /\ DOMAIN a = 0 .. n - 1 /\ Unique(a)
          /\ \A x \in 0 .. n - 1 : a[x] \in ValidEntry
          /\ \A x \in 0 .. n - 1 : x \in Items(a) <=> a[x].value # NULL
      BY <2>4, HashedUnique DEF Hashed
    <3>4. Items(a) = At(a, ItemEntry) BY <3>3 DEF Items, At, ItemEntry
    <3>5. First(tab, j - 1, ItemEntry) \in SUBSET Items(tab)
      BY <1>1, <2>1 DEF First, Items, ItemEntry
    <3>6. Cardinality(NonNull(a)) < n
      <4>1. Cardinality(NonNull(a)) = Cardinality(First(tab, j - 1, ItemEntry)) BY <2>4, <3>4
      <4>2. IsFiniteSet(Items(tab)) /\ Cardinality(Items(tab)) \in Nat BY <1>1, FiniteSlots
      <4>3. IsFiniteSet(NonNull(a)) /\ Cardinality(NonNull(a)) \in Nat BY <1>0, <3>3, FiniteSlots
      <4>4. Cardinality(First(tab, j - 1, ItemEntry)) <= Cardinality(Items(tab)) BY <3>5, <4>2, FS_Subset
      <4> QED BY <1>0, <4>1, <4>2, <4>3, <4>4
    <3>7. PICK z \in 0 .. n - 1 : a[z].key = NULL BY <1>0, <3>3, <3>6, NullLeft
    <3> HIDE DEF k, v
    <3>8. Stops(a, k) # {} BY <3>1, <3>3, <3>7, SearchStops
    <3>9. i \in 0 .. n - 1 /\ (a[i].value # NULL => a[i].key = k) BY <2>4, <3>1, <3>8, LookFinds
    <3>10. /\ new \in Hashed(n) /\ new[i] = e
           /\ \A x \in 0 .. n - 1 : x # i => new[x] = a[x]
      BY <2>4, <3>1, <3>2, <3>8, InsertHashed
    <3> HIDE DEF i, new
    <3>11. a[i].value = NULL
      <4> SUFFICES ASSUME a[i].value # NULL PROVE FALSE OBVIOUS
      <4>1. i \in Items(a) /\ a[i].key = k BY <3>3, <3>9
      <4>2. PICK q \in First(tab, j - 1, ItemEntry) : a[i] = tab[q] BY <2>4, <4>1
      <4>3. q \in Items(tab) /\ q \in 0 .. j - 1 - 1 BY <3>5 DEF First
      <4>4. tab[q].key = tab[j - 1].key BY <3>2b, <4>1, <4>2
      <4>5. q = j - 1 BY <3>2a, <4>3, <4>4 DEF Unique
      <4> QED BY <2>1, <4>3, <4>5
    <3>12. DOMAIN new = 0 .. n - 1 /\ \A x \in 0 .. n - 1 : x \in Items(new) <=> new[x].value # NULL
      BY <3>10, HashedUnique
    <3>13. e.key # NULL /\ e.value # NULL BY <3>1, TableAssumption DEF k, v
    <3>14. Items(new) = Items(a) \cup {i} BY <3>3, <3>9, <3>10, <3>12, <3>13 DEF Items
    <3>15. NonNull(new) = NonNull(a) \cup {i} BY <3>3, <3>9, <3>10, <3>12, <3>13 DEF NonNull
    <3>16. NonNull(new) = Items(new) BY <2>4, <3>14, <3>15
    <3>17. \A x \in Items(a) : x \in 0 .. n - 1 /\ x # i BY <3>3, <3>11 DEF Items
    <3>18. j - 1 \in First(tab, j, ItemEntry)
      <4>1. j - 1 \in 0 .. j - 1 BY <2>1
      <4> QED BY <3>1, <3>2b, <4>1 DEF First
    <3>19. /\ \A q \in First(tab, j, ItemEntry) : q \in First(tab, j - 1, ItemEntry) \/ q = j - 1
           /\ \A q \in First(tab, j - 1, ItemEntry) : q \in First(tab, j, ItemEntry)
      BY <2>1, FirstAdds
    <3>20. ASSUME NEW x \in Items(new) PROVE \E q \in First(tab, j, ItemEntry) : new[x] = tab[q]
      <4>1. CASE x = i BY <3>2b, <3>10, <3>18, <4>1
      <4>2. CASE x # i
        <5>1. x \in Items(a) BY <3>14, <4>2
        <5>2. new[x] = a[x] BY <3>10, <3>17, <5>1
        <5>3. PICK q \in First(tab, j - 1, ItemEntry) : a[x] = tab[q] BY <2>4, <5>1
        <5> QED BY <3>19, <5>2, <5>3
      <4> QED BY <4>1, <4>2
    <3>21. ASSUME NEW q \in First(tab, j, ItemEntry) PROVE \E x \in Items(new) : new[x] = tab[q]
      <4>1. CASE q = j - 1 BY <3>2b, <3>10, <3>14, <4>1
      <4>2. CASE q # j - 1
        <5>1. q \in First(tab, j - 1, ItemEntry) BY <3>19, <4>2
        <5>2. PICK x \in Items(a) : a[x] = tab[q] BY <2>4, <5>1
        <5>3. new[x] = a[x] BY <3>10, <3>17
        <5> QED BY <3>14, <5>2, <5>3
      <4> QED BY <4>1, <4>2
    <3>22. ASSUME NEW E \in SUBSET ItemEntry PROVE Cardinality(At(new, E)) = Cardinality(First(tab, j, E))
      <4>1. Cardinality(At(new, E)) = Cardinality(At(a, E)) + (IF e \in E THEN 1 ELSE 0)
        BY <2>4, <3>1, <3>2, <3>8, <3>11, InsertAdds DEF i
      <4>2. Cardinality(First(tab, j, E)) =
              Cardinality(First(tab, j - 1, E)) + (IF e \in E THEN 1 ELSE 0)
        BY <2>1, <3>2b, FirstAdds
      <4> QED BY <2>4, <4>1, <4>2
    <3> QED BY <3>10, <3>16, <3>20, <3>21, <3>22 DEF new
  <2> QED BY <2>5, <2>6
<1>7. Good(m)
  <2> DEFINE S == {j \in 0 .. m : ~Good(j)}
  <2> HIDE DEF Good
  <2>0. m \in 0 .. m OBVIOUS
  <2> SUFFICES ASSUME S # {} PROVE FALSE BY <2>0
  <2>1. S \in SUBSET Nat OBVIOUS
  <2> DEFINE x == Min(S)
  <2> HIDE DEF S
  <2>2. x \in S /\ \A y \in S : x <= y BY <2>1, MinNat
  <2> HIDE DEF x
  <2>3. x \in 0 .. m /\ ~Good(x) BY <2>2 DEF S
  <2>4. x # 0 BY <1>5, <2>3
  <2>5. x \in 1 .. m /\ x - 1 \in 0 .. m /\ ~(x <= x - 1) BY <2>3, <2>4
  <2>6. Good(x - 1) BY <2>2, <2>5 DEF S
  <2> QED BY <1>6, <2>3, <2>5, <2>6
<1>8. First(tab, m, ItemEntry) = Items(tab) BY <1>1, <1>4 DEF First, Items, ItemEntry
<1>9. \A E : First(tab, m, E) = At(tab, E) BY <1>1 DEF First, At
<1>10. Unique(f[m]) BY <1>7, HashedUnique
<1>11. Contents(f[m]) = Contents(tab) BY <1>7, <1>8, <1>10, SameContents
<1> QED BY <1>3, <1>7, <1>9, <1>11

-----------------------------------------------------------------------------
(* ProbeSequence: the loops of lookmapping, turn by turn.                  *)

\* The first c slots looked at from slot f on with the increment d.
Visits(f, d, n, c) == {(f + k * d) % n : k \in 0 .. c - 1}

\* They are slots, and n of them are the table.
LEMMA VisitsAll ==
  ASSUME NEW n \in Sizes, NEW d \in 1 .. n - 1, NEW f \in 0 .. n - 1
  PROVE  /\ \A c \in Nat : Visits(f, d, n, c) \in SUBSET (0 .. n - 1)
         /\ Visits(f, d, n, n) = 0 .. n - 1
<1>0. n \in Nat /\ n > 0 /\ d \in Nat /\ f \in Nat BY SizesNat
<1>1. ASSUME NEW k \in Nat PROVE (f + k * d) % n \in 0 .. n - 1
  <2>1. k * d \in Nat BY <1>0
  <2>2. f + k * d \in Nat BY <1>0, <2>1
  <2> QED BY <1>0, <2>2, Division
<1>2. \A c \in Nat : Visits(f, d, n, c) \in SUBSET (0 .. n - 1)
  <2> SUFFICES ASSUME NEW c \in Nat, NEW k \in 0 .. c - 1 PROVE (f + k * d) % n \in 0 .. n - 1
    BY DEF Visits
  <2> QED BY <1>1
<1>3. \A i \in 0 .. n - 1 : i \in Visits(f, d, n, n)
  <2> SUFFICES ASSUME NEW i \in 0 .. n - 1 PROVE i \in Visits(f, d, n, n) OBVIOUS
  <2>1. PICK k \in 0 .. n - 1 : (f + k * d) % n = i BY <1>0, SlotsCover
  <2> QED BY <2>1 DEF Visits
<1>4. Visits(f, d, n, n) \in SUBSET (0 .. n - 1) BY <1>0, <1>2
<1> QED BY <1>2, <1>3, <1>4

\* The next slot is one of them only when all slots are.
LEMMA VisitsNew ==
  ASSUME NEW n \in Sizes, NEW d \in 1 .. n - 1, NEW f \in 0 .. n - 1, NEW c \in 0 .. n
  PROVE  (f + c * d) % n \in Visits(f, d, n, c) <=> c = n
<1>0. n \in Nat /\ n > 0 /\ d \in Nat /\ f \in Nat /\ c \in Nat BY SizesNat
<1>1. ASSUME c # n, (f + c * d) % n \in Visits(f, d, n, c) PROVE FALSE
  <2>1. PICK k \in 0 .. c - 1 : (f + k * d) % n = (f + c * d) % n BY <1>1 DEF Visits
  <2>2. k \in 0 .. n - 1 /\ c \in 0 .. n - 1 /\ k < c BY <1>0, <1>1
  <2> QED BY <1>0, <2>1, <2>2, SlotsDiffer
<1>2. ASSUME c = n PROVE (f + c * d) % n \in Visits(f, d, n, c)
  <2>1. c * d \in Nat BY <1>0
  <2>2. f + c * d \in Nat BY <1>0, <2>1
  <2>3. (f + c * d) % n \in 0 .. n - 1 BY <1>0, <2>2, Division
  <2> QED BY <1>2, <2>3, VisitsAll
<1> QED BY <1>1, <1>2

\* i = (i + incr) % size gives the slot after that.
LEMMA VisitsStep ==
  ASSUME NEW n \in Sizes, NEW d \in 1 .. n - 1, NEW f \in 0 .. n - 1, NEW c \in Nat
  PROVE  /\ (((f + c * d) % n) + d) % n = (f + (c + 1) * d) % n
         /\ Visits(f, d, n, c + 1) = Visits(f, d, n, c) \cup {(f + c * d) % n}
<1>0. n \in Nat /\ n > 0 /\ d \in Nat /\ f \in Nat BY SizesNat
<1> DEFINE x == f + c * d
           y == (x % n) + d
<1>1. x \in Nat
  <2>1. c * d \in Nat BY <1>0
  <2> QED BY <1>0, <2>1
<1>2. f + (c + 1) * d = x + d BY <1>0
<1> HIDE DEF x
<1>3. x % n \in 0 .. n - 1 /\ \E q \in Nat : x = n * q + (x % n) BY <1>0, <1>1, Division
<1>4. PICK q \in Nat : x = n * q + (x % n) BY <1>3
<1>5. y \in Nat BY <1>0, <1>3
<1>6. x + d = n * q + y
  <2>1. n * q \in Nat BY <1>0
  <2>2. x % n \in Nat BY <1>3
  <2> QED BY <1>0, <1>4, <2>1, <2>2
<1> HIDE DEF y
<1>7. PICK p \in Nat : y = n * p + (y % n) BY <1>0, <1>5, Division
<1>8. y % n \in 0 .. n - 1 BY <1>0, <1>5, Division
<1>9. x + d = n * (q + p) + (y % n)
  <2>1. n * (q + p) = n * q + n * p BY <1>0
  <2>2. n * q \in Nat /\ n * p \in Nat BY <1>0
  <2>3. y % n \in Nat BY <1>8
  <2> QED BY <1>6, <1>7, <2>1, <2>2, <2>3
<1>10. (x + d) % n = y % n
  <2>1. x + d \in Nat /\ q + p \in Nat BY <1>0, <1>1
  <2> QED BY <1>0, <1>8, <1>9, <2>1, Remainder
<1>11. 0 .. (c + 1) - 1 = (0 .. c - 1) \cup {c} OBVIOUS
<1>12. Visits(f, d, n, c + 1) = Visits(f, d, n, c) \cup {(f + c * d) % n} BY <1>11 DEF Visits
<1> QED BY <1>2, <1>10, <1>12 DEF x, y

\* The increment is the first sum that is not 0 modulo the size.
LEMMA IncrFirst ==
  ASSUME NEW h \in Nat, NEW n \in Sizes, NEW t \in 1 .. MaxTurns, Sum(h, t) % n # 0,
         \A j \in 1 .. t - 1 : Sum(h, j) % n = 0
  PROVE  Incr(h, n) = Sum(h, t) % n
<1> DEFINE J == {j \in 1 .. MaxTurns : Sum(h, j) % n # 0}
<1>0. MaxTurns \in Nat BY TableAssumption
<1>1. t \in J /\ J \in SUBSET Nat BY <1>0
<1>2. Min(J) \in J /\ Min(J) <= t
  <2> HIDE DEF J
  <2> QED BY <1>1, MinNat
<1>3. Incr(h, n) = Sum(h, Min(J)) % n BY DEF Incr
<1> DEFINE m == Min(J)
<1>4. m \in 1 .. MaxTurns /\ Sum(h, m) % n # 0 BY <1>2
<1> HIDE DEF m
<1>5. m <= t BY <1>2 DEF m
<1>6. m = t
  <2> SUFFICES ASSUME m # t PROVE FALSE OBVIOUS
  <2>1. m \in 1 .. t - 1 BY <1>0, <1>4, <1>5
  <2> QED BY <1>4, <2>1
<1> QED BY <1>3, <1>6 DEF m

\* t turns of the do-while loop have been made, and none before the last one has
\* found an increment.
Turns(t) ==
  /\ sum = Sum(hash, t)
  /\ loop = "sum" => \A j \in 1 .. t : Sum(hash, j) % size = 0
  /\ loop = "probe" => /\ t >= 1
                       /\ \A j \in 1 .. t - 1 : Sum(hash, j) % size = 0
                       /\ incr = Sum(hash, t) % size /\ incr # 0

\* c slots have been looked at, and slot is next.
Looked(c) ==
  /\ seen = Visits(hash % size, incr, size, c)
  /\ Cardinality(seen) = c
  /\ slot = ((hash % size) + c * incr) % size

\* The invariant of the loops.
LInv ==
  /\ hash \in 0 .. Word - 1
  /\ size \in Sizes
  /\ loop \in {"sum", "probe"}
  /\ \E t \in Nat : Turns(t)
  /\ loop = "sum" => seen = {} /\ slot = hash % size
  /\ loop = "probe" => incr \in 1 .. size - 1 /\ \E c \in 0 .. size : Looked(c)

\* Before the first turn nothing has been looked at.
LEMMA LInit ==
  ASSUME ProbeInit
  PROVE  LInv
<1>1. /\ hash \in 0 .. Word - 1 /\ size \in Sizes /\ sum = hash /\ slot = hash % size
      /\ seen = {} /\ loop = "sum"
  BY SizeAssumption DEF ProbeInit, Sizes
<1>2. hash \in Nat BY <1>1, TableAssumption
<1>3. Sum(hash, 0) = hash BY <1>2, SumTurn
<1>4. Turns(0) BY <1>1, <1>3 DEF Turns
<1> QED BY <1>1, <1>4 DEF LInv

\* A turn of the do-while loop.
LEMMA LNextSum ==
  ASSUME LInv, NextSum
  PROVE  LInv'
<1> DEFINE h == hash
           n == size
<1>1. /\ loop = "sum" /\ sum' = (3 * sum + 1) % Word /\ incr' = sum' % n
      /\ loop' = IF incr' = 0 THEN "sum" ELSE "probe"
      /\ h' = h /\ n' = n /\ slot' = slot /\ seen' = seen
  BY DEF NextSum, Triple, Again
<1>2. h \in Nat /\ Word \in Nat /\ Word > 0 BY TableAssumption DEF LInv
<1>3. n \in Sizes /\ n \in Nat /\ n > 0 BY SizesNat DEF LInv
<1>4. PICK t \in Nat : Turns(t) BY DEF LInv
<1>5. sum' = Sum(h, t + 1) BY <1>1, <1>2, <1>4, SumTurn DEF Turns
<1>6. \A j \in 1 .. (t + 1) - 1 : Sum(h, j) % n = 0 BY <1>1, <1>4 DEF Turns
<1>7. t + 1 \in Nat /\ t + 1 >= 1 OBVIOUS
<1>8. incr' = Sum(h, t + 1) % n BY <1>1, <1>5
<1>9. Turns(t + 1)'
  <2>1. ASSUME loop' = "sum" PROVE \A j \in 1 .. t + 1 : Sum(h, j) % n = 0
    <3>1. Sum(h, t + 1) % n = 0 BY <1>1, <1>8, <2>1
    <3>2. \A j \in 1 .. t + 1 : j = t + 1 \/ j \in 1 .. (t + 1) - 1 OBVIOUS
    <3> QED BY <1>6, <3>1, <3>2
  <2>2. loop' = "probe" => incr' # 0 BY <1>1
  <2> QED BY <1>1, <1>5, <1>6, <1>7, <1>8, <2>1, <2>2 DEF Turns
<1>10. ASSUME loop' = "probe" PROVE incr' \in 1 .. n - 1 /\ Looked(0)'
  <2>1. incr' # 0 BY <1>1, <1>10
  <2>2. Sum(h, t + 1) \in Nat BY <1>2, <1>7, SumNat
  <2>3. incr' \in 0 .. n - 1 BY <1>3, <1>8, <2>2, Division
  <2>4. incr' \in 1 .. n - 1 BY <1>3, <2>1, <2>3
  <2>5. seen = {} /\ slot = h % n BY <1>1 DEF LInv
  <2>6. Visits(h % n, incr', n, 0) = {} BY DEF Visits
  <2>7. h % n \in 0 .. n - 1 BY <1>2, <1>3, Division
  <2>8. (h % n) % n = h % n BY <1>3, <2>7
  <2>9. slot' = ((h % n) + 0 * incr') % n BY <1>1, <1>3, <2>4, <2>5, <2>7, <2>8
  <2> QED BY <1>1, <2>4, <2>5, <2>6, <2>9, FS_EmptySet DEF Looked
<1>11. 0 \in 0 .. n BY <1>3
<1>12. loop' \in {"sum", "probe"} BY <1>1
<1>13. loop' = "sum" => seen' = {} /\ slot' = h % n BY <1>1 DEF LInv
<1>14. (\E u \in Nat : Turns(u))' BY <1>7, <1>9
<1>15. loop' = "probe" => (incr \in 1 .. size - 1 /\ \E c \in 0 .. size : Looked(c))'
  BY <1>1, <1>10, <1>11
<1> QED BY <1>1, <1>12, <1>13, <1>14, <1>15 DEF LInv

\* A probe: the slot is a new one, or all have been looked at.
LEMMA LNextProbe ==
  ASSUME LInv, NextProbe
  PROVE  LInv'
<1> DEFINE n == size
           d == incr
           f == hash % n
<1>1. /\ loop = "probe" /\ slot \notin seen /\ seen' = seen \cup {slot}
      /\ slot' = (slot + d) % n
      /\ hash' = hash /\ n' = n /\ sum' = sum /\ d' = d /\ loop' = loop
  BY DEF NextProbe
<1>2. hash \in Nat BY TableAssumption DEF LInv
<1>3. n \in Sizes /\ n \in Nat /\ n > 0 /\ d \in 1 .. n - 1 BY <1>1, SizesNat DEF LInv
<1>4. f \in 0 .. n - 1 BY <1>2, <1>3, Division
<1>5. PICK c \in 0 .. n : Looked(c) BY <1>1 DEF LInv
<1>6. seen = Visits(f, d, n, c) /\ Cardinality(seen) = c /\ slot = (f + c * d) % n
  BY <1>5 DEF Looked
<1>7. PICK t \in Nat : Turns(t) BY DEF LInv
<1>8. Turns(t)' BY <1>1, <1>7 DEF Turns
<1> HIDE DEF n, d, f
<1>9. c # n BY <1>1, <1>3, <1>4, <1>6, VisitsNew
<1>10. c + 1 \in 0 .. n /\ c \in Nat BY <1>3, <1>9
<1>11. seen' = Visits(f, d, n, c + 1) BY <1>1, <1>3, <1>4, <1>6, <1>10, VisitsStep
<1>12. slot' = (f + (c + 1) * d) % n BY <1>1, <1>3, <1>4, <1>6, <1>10, VisitsStep
<1>13. IsFiniteSet(seen)
  <2>1. seen \in SUBSET (0 .. n - 1) BY <1>3, <1>4, <1>6, <1>10, VisitsAll
  <2>2. 0 \in Int /\ n - 1 \in Int BY <1>3
  <2> QED BY <2>1, <2>2, FS_Interval, FS_Subset
<1>14. Cardinality(seen') = c + 1 BY <1>1, <1>6, <1>13, FS_AddElement
<1>15. Looked(c + 1)' BY <1>1, <1>11, <1>12, <1>14 DEF Looked, n, d, f
<1>16. (\E u \in Nat : Turns(u))' BY <1>8
<1>17. (incr \in 1 .. size - 1 /\ \E a \in 0 .. size : Looked(a))'
  BY <1>1, <1>3, <1>10, <1>15 DEF n, d
<1> QED BY <1>1, <1>16, <1>17 DEF LInv, n

\* The loops keep their invariant.
LEMMA LInvHolds == ProbeSpec => []LInv
<1>1. ProbeInit => LInv BY LInit
<1>2. LInv /\ [ProbeNext]_probe_vars => LInv'
  <2> SUFFICES ASSUME LInv, [ProbeNext]_probe_vars PROVE LInv' OBVIOUS
  <2>1. CASE UNCHANGED probe_vars BY <2>1 DEF probe_vars, LInv, Turns, Looked
  <2> QED BY <2>1, LNextSum, LNextProbe DEF ProbeNext
<1> QED BY <1>1, <1>2, PTL DEF ProbeSpec

\* lookmapping looks at every slot before it looks at one again, whatever the
\* hash and the increment: CoversTable.  The sizes are prime, so that no multiple
\* of the increment leads back earlier.
THEOREM ProbesCoverTable == ProbeSpec => []CoversTable
<1>1. LInv => CoversTable
  <2> SUFFICES ASSUME LInv, loop = "probe", slot \in seen PROVE seen = 0 .. size - 1
    BY DEF CoversTable
  <2>1. size \in Sizes /\ size \in Nat /\ size > 0 /\ incr \in 1 .. size - 1
    BY SizesNat DEF LInv
  <2>2. hash \in Nat BY TableAssumption DEF LInv
  <2>3. hash % size \in 0 .. size - 1 BY <2>1, <2>2, Division
  <2>4. PICK c \in 0 .. size : Looked(c) BY DEF LInv
  <2>5. c = size BY <2>1, <2>3, <2>4, VisitsNew DEF Looked
  <2> QED BY <2>1, <2>3, <2>4, <2>5, VisitsAll DEF Looked
<1> QED BY <1>1, LInvHolds, PTL

\* Incr and Slots, by which the other modules search, compute what the loops of
\* lookmapping compute, if MaxTurns turns suffice for every hash
\* (EveryHashAssumption): LoopsAgree.
THEOREM OperatorsAgree == ProbeSpec => []LoopsAgree
<1>0. ProbeSpec => [](size \in Size)
  <2>1. ProbeInit => size \in Size BY DEF ProbeInit
  <2>2. size \in Size /\ [ProbeNext]_probe_vars => (size \in Size)'
    BY DEF ProbeNext, NextSum, NextProbe, probe_vars
  <2> QED BY <2>1, <2>2, PTL DEF ProbeSpec
<1>1. LInv /\ size \in Size => LoopsAgree
  <2> SUFFICES ASSUME LInv, size \in Size, loop = "probe"
               PROVE  /\ incr = Incr(hash, size)
                      /\ slot \notin seen => slot = Slots(hash, size)[Cardinality(seen)]
    BY DEF LoopsAgree
  <2>1. size \in Sizes /\ size \in Nat /\ size > 0 /\ incr \in 1 .. size - 1
    BY SizesNat DEF LInv
  <2>2. hash \in Nat /\ hash \in 0 .. Word - 1 BY TableAssumption DEF LInv
  <2>3. hash % size \in 0 .. size - 1 BY <2>1, <2>2, Division
  <2>4. PICK t \in Nat : Turns(t) BY DEF LInv
  <2>5. /\ t >= 1 /\ \A j \in 1 .. t - 1 : Sum(hash, j) % size = 0
        /\ incr = Sum(hash, t) % size /\ incr # 0
    BY <2>4 DEF Turns
  <2>6. PICK j \in 1 .. MaxTurns : Sum(hash, j) % size # 0 BY <2>2, EveryHashAssumption DEF TurnsSuffice
  <2>7. t \in 1 .. MaxTurns
    <3>1. MaxTurns \in Nat BY TableAssumption
    <3>2. j \notin 1 .. t - 1 BY <2>5, <2>6
    <3> QED BY <2>4, <2>5, <2>6, <3>1, <3>2
  <2>8. incr = Incr(hash, size) BY <2>1, <2>2, <2>5, <2>7, IncrFirst
  <2>9. PICK c \in 0 .. size : Looked(c) BY DEF LInv
  <2>10. ASSUME slot \notin seen PROVE slot = Slots(hash, size)[Cardinality(seen)]
    <3>1. c # size BY <2>1, <2>3, <2>9, <2>10, VisitsNew DEF Looked
    <3>2. c \in 0 .. size - 1 BY <2>1, <3>1
    <3>3. Slots(hash, size) = [k \in 0 .. size - 1 |-> ((hash % size) + k * incr) % size]
      BY <2>8 DEF Slots
    <3> QED BY <2>9, <3>2, <3>3 DEF Looked
  <2> QED BY <2>8, <2>10
<1> QED BY <1>0, <1>1, LInvHolds, PTL

-----------------------------------------------------------------------------
(* MappingObject: counters and references.                                 *)

Object == INSTANCE MappingObject

\* The instance's copies of the operators of HashTable are those operators.
LEMMA ObjectTable ==
  /\ \A S : Object!Cardinality(S) = Cardinality(S)
  /\ \A tab : Object!Items(tab) = Items(tab) /\ Object!NonNull(tab) = NonNull(tab)
  /\ \A tab : Object!Contents(tab) = Contents(tab) /\ Object!SizeOf(tab) = SizeOf(tab)
  /\ \A n : Object!NewTable(n) = NewTable(n)
<1>1. \A S : Object!Cardinality(S) = Cardinality(S) BY DEF Object!Cardinality, Cardinality
<1>2. \A tab : Object!Items(tab) = Items(tab) /\ Object!NonNull(tab) = NonNull(tab)
  BY DEF Object!Items, Items, Object!NonNull, NonNull
<1>3. \A tab : Object!Contents(tab) = Contents(tab)
  BY DEF Object!Contents, Contents, Object!Items, Items
<1>4. \A tab : Object!SizeOf(tab) = SizeOf(tab) BY <1>1 DEF Object!SizeOf, SizeOf
<1>5. \A n : Object!NewTable(n) = NewTable(n)
  BY DEF Object!NewTable, NewTable, Object!Empty, Empty
<1> QED BY <1>1, <1>2, <1>3, <1>4, <1>5

\* So are those of the search and the insertion,
LEMMA ObjectSearch ==
  /\ \A tab, k : Object!Stops(tab, k) = Stops(tab, k) /\ Object!Look(tab, k) = Look(tab, k)
  /\ \A tab, k, v : Object!Insert(tab, k, v) = Insert(tab, k, v)
<1>1. \A h, n : Object!Slots(h, n) = Slots(h, n)
  BY DEF Object!Slots, Slots, Object!Incr, Incr, Object!Sum, Sum, Object!Min, Min
<1>2. \A tab : Object!SizeOf(tab) = SizeOf(tab) BY ObjectTable
<1>3. \A tab, k : Object!Stops(tab, k) = Stops(tab, k)
  BY <1>1, <1>2 DEF Object!Stops, Stops
<1>4. \A S : Object!Min(S) = Min(S) BY DEF Object!Min, Min
<1>5. \A tab, k : Object!Look(tab, k) = Look(tab, k)
  BY <1>1, <1>2, <1>3, <1>4 DEF Object!Look, Look
<1>6. \A tab, k, v : Object!Insert(tab, k, v) = Insert(tab, k, v)
  BY <1>5 DEF Object!Insert, Insert
<1> QED BY <1>3, <1>5, <1>6

\* and those of mappingresize.
LEMMA ObjectResize ==
  /\ \A used : Object!HasPrime(used) <=> HasPrime(used)
  /\ \A used : Object!NewSize(used) = NewSize(used)
  /\ \A tab, n : Object!Rehash(tab, n) = Rehash(tab, n)
<1>1. \A used : Object!HasPrime(used) <=> HasPrime(used)
  BY DEF Object!HasPrime, HasPrime, Object!primes, primes
<1>2. \A used : Object!NewSize(used) = NewSize(used)
  BY DEF Object!NewSize, NewSize, Object!primes, primes, Object!Min, Min
<1>3. \A tab, n : Object!Rehash(tab, n) = Rehash(tab, n)
  <2> SUFFICES ASSUME NEW tab, NEW n PROVE Object!Rehash(tab, n) = Rehash(tab, n) OBVIOUS
  <2>1. Object!SizeOf(tab) = SizeOf(tab) /\ Object!NewTable(n) = NewTable(n) BY ObjectTable
  <2>2. \A a, k, v : Object!Insert(a, k, v) = Insert(a, k, v) BY ObjectSearch
  <2>3. Object!Copies(tab, n) = Copies(tab, n)
    BY <2>1, <2>2 DEF Object!Copies, Copies
  <2> QED BY <2>1, <2>3 DEF Object!Rehash, Rehash
<1> QED BY <1>1, <1>2, <1>3

-----------------------------------------------------------------------------
(* One thread: the counters and the references.                            *)

\* The slots that own a reference to x.
KeyAt(tab, x) == {i \in DOMAIN tab : tab[i].key = x}

ValueAt(tab, x) == {i \in DOMAIN tab : tab[i].value = x}

\* The counters count what is in the table.
Exact(tab, fill, used, r) ==
  /\ fill = Cardinality(NonNull(tab))
  /\ used = Cardinality(Items(tab))
  /\ r \in [Object!Objects -> Int]
  /\ \A x \in Object!Objects : r[x] = Cardinality(KeyAt(tab, x)) + Cardinality(ValueAt(tab, x))

\* Without a table everything is zero; with one, every item is found, and the
\* counters are exact.
OInv ==
  /\ \/ ma_table = NULL /\ ma_size = 0
     \/ ma_table # NULL /\ ma_size \in Sizes /\ ma_table \in Hashed(ma_size)
  /\ Exact(OldTable, ma_fill, ma_used, refs)

\* One element comes or goes.
LEMMA OneChanges ==
  ASSUME NEW S, NEW T, NEW i, IsFiniteSet(S), IsFiniteSet(T), \A j : j # i => (j \in S <=> j \in T)
  PROVE  Cardinality(T) = Cardinality(S) + (IF i \in T THEN 1 ELSE 0) - (IF i \in S THEN 1 ELSE 0)
<1>1. S \ {i} = T \ {i} OBVIOUS
<1>2. Cardinality(S) \in Nat /\ Cardinality(T) \in Nat BY FS_CardinalityType
<1>3. Cardinality(S \ {i}) = IF i \in S THEN Cardinality(S) - 1 ELSE Cardinality(S) BY FS_RemoveElement
<1>4. Cardinality(T \ {i}) = IF i \in T THEN Cardinality(T) - 1 ELSE Cardinality(T) BY FS_RemoveElement
<1> QED BY <1>1, <1>2, <1>3, <1>4

\* The counts of a table are numbers.
LEMMA CountsNat ==
  ASSUME NEW n \in Nat, NEW tab, DOMAIN tab = 0 .. n - 1, NEW x
  PROVE  /\ IsFiniteSet(KeyAt(tab, x)) /\ Cardinality(KeyAt(tab, x)) \in Nat
         /\ IsFiniteSet(ValueAt(tab, x)) /\ Cardinality(ValueAt(tab, x)) \in Nat
<1>1. KeyAt(tab, x) \in SUBSET (0 .. n - 1) /\ ValueAt(tab, x) \in SUBSET (0 .. n - 1)
  BY DEF KeyAt, ValueAt
<1> QED BY <1>1, FiniteAt

\* The tables differ in slot i only.
OneSlot(n, tab, new, i) ==
  /\ DOMAIN tab = 0 .. n - 1 /\ DOMAIN new = 0 .. n - 1 /\ i \in 0 .. n - 1
  /\ \A j \in 0 .. n - 1 : j # i => new[j] = tab[j]

\* What a change of one slot does to the counts.
LEMMA SlotChanges ==
  ASSUME NEW n \in Nat, NEW tab, NEW new, NEW i, OneSlot(n, tab, new, i), NEW x
  PROVE  /\ Cardinality(KeyAt(new, x)) = Cardinality(KeyAt(tab, x))
              + (IF new[i].key = x THEN 1 ELSE 0) - (IF tab[i].key = x THEN 1 ELSE 0)
         /\ Cardinality(ValueAt(new, x)) = Cardinality(ValueAt(tab, x))
              + (IF new[i].value = x THEN 1 ELSE 0) - (IF tab[i].value = x THEN 1 ELSE 0)
         /\ Cardinality(NonNull(new)) = Cardinality(NonNull(tab))
              + (IF new[i].key # NULL THEN 1 ELSE 0) - (IF tab[i].key # NULL THEN 1 ELSE 0)
         /\ Cardinality(Items(new)) = Cardinality(Items(tab))
              + (IF new[i].value # NULL THEN 1 ELSE 0) - (IF tab[i].value # NULL THEN 1 ELSE 0)
<1> USE DEF OneSlot
<1>1. /\ IsFiniteSet(KeyAt(tab, x)) /\ IsFiniteSet(ValueAt(tab, x))
      /\ IsFiniteSet(NonNull(tab)) /\ IsFiniteSet(Items(tab))
      /\ IsFiniteSet(KeyAt(new, x)) /\ IsFiniteSet(ValueAt(new, x))
      /\ IsFiniteSet(NonNull(new)) /\ IsFiniteSet(Items(new))
  BY CountsNat, FiniteSlots
<1>2. Cardinality(KeyAt(new, x)) = Cardinality(KeyAt(tab, x))
        + (IF new[i].key = x THEN 1 ELSE 0) - (IF tab[i].key = x THEN 1 ELSE 0)
  <2>1. \A j : j # i => (j \in KeyAt(tab, x) <=> j \in KeyAt(new, x)) BY DEF KeyAt
  <2>2. (i \in KeyAt(tab, x) <=> tab[i].key = x) /\ (i \in KeyAt(new, x) <=> new[i].key = x) BY DEF KeyAt
  <2>3. Cardinality(KeyAt(new, x)) = Cardinality(KeyAt(tab, x))
          + (IF i \in KeyAt(new, x) THEN 1 ELSE 0) - (IF i \in KeyAt(tab, x) THEN 1 ELSE 0)
    BY <1>1, <2>1, OneChanges
  <2> QED BY <2>2, <2>3
<1>3. Cardinality(ValueAt(new, x)) = Cardinality(ValueAt(tab, x))
        + (IF new[i].value = x THEN 1 ELSE 0) - (IF tab[i].value = x THEN 1 ELSE 0)
  <2>1. \A j : j # i => (j \in ValueAt(tab, x) <=> j \in ValueAt(new, x)) BY DEF ValueAt
  <2>2. (i \in ValueAt(tab, x) <=> tab[i].value = x) /\ (i \in ValueAt(new, x) <=> new[i].value = x)
    BY DEF ValueAt
  <2>3. Cardinality(ValueAt(new, x)) = Cardinality(ValueAt(tab, x))
          + (IF i \in ValueAt(new, x) THEN 1 ELSE 0) - (IF i \in ValueAt(tab, x) THEN 1 ELSE 0)
    BY <1>1, <2>1, OneChanges
  <2> QED BY <2>2, <2>3
<1>4. Cardinality(NonNull(new)) = Cardinality(NonNull(tab))
        + (IF new[i].key # NULL THEN 1 ELSE 0) - (IF tab[i].key # NULL THEN 1 ELSE 0)
  <2>1. \A j : j # i => (j \in NonNull(tab) <=> j \in NonNull(new)) BY DEF NonNull
  <2>2. (i \in NonNull(tab) <=> tab[i].key # NULL) /\ (i \in NonNull(new) <=> new[i].key # NULL)
    BY DEF NonNull
  <2>3. Cardinality(NonNull(new)) = Cardinality(NonNull(tab))
          + (IF i \in NonNull(new) THEN 1 ELSE 0) - (IF i \in NonNull(tab) THEN 1 ELSE 0)
    BY <1>1, <2>1, OneChanges
  <2> QED BY <2>2, <2>3
<1>5. Cardinality(Items(new)) = Cardinality(Items(tab))
        + (IF new[i].value # NULL THEN 1 ELSE 0) - (IF tab[i].value # NULL THEN 1 ELSE 0)
  <2>1. \A j : j # i => (j \in Items(tab) <=> j \in Items(new)) BY DEF Items
  <2>2. (i \in Items(tab) <=> tab[i].value # NULL) /\ (i \in Items(new) <=> new[i].value # NULL)
    BY DEF Items
  <2>3. Cardinality(Items(new)) = Cardinality(Items(tab))
          + (IF i \in Items(new) THEN 1 ELSE 0) - (IF i \in Items(tab) THEN 1 ELSE 0)
    BY <1>1, <2>1, OneChanges
  <2> QED BY <2>2, <2>3
<1> QED BY <1>2, <1>3, <1>4, <1>5

\* INCREF and XDECREF.
LEMMA RefsChange ==
  ASSUME NEW r \in [Object!Objects -> Int]
  PROVE  /\ \A y \in Object!Objects :
              /\ Object!Incref(r, y) \in [Object!Objects -> Int]
              /\ \A x \in Object!Objects : Object!Incref(r, y)[x] = r[x] + (IF y = x THEN 1 ELSE 0)
         /\ \A y \in Object!Objects \cup {NULL} :
              /\ Object!Xdecref(r, y) \in [Object!Objects -> Int]
              /\ \A x \in Object!Objects : Object!Xdecref(r, y)[x] = r[x] - (IF y = x THEN 1 ELSE 0)
<1>1. NULL \notin Object!Objects BY TableAssumption DEF Object!Objects
<1>2. ASSUME NEW y \in Object!Objects
      PROVE  /\ Object!Incref(r, y) \in [Object!Objects -> Int]
             /\ \A x \in Object!Objects : Object!Incref(r, y)[x] = r[x] + (IF y = x THEN 1 ELSE 0)
  BY DEF Object!Incref
<1>3. ASSUME NEW y \in Object!Objects \cup {NULL}
      PROVE  /\ Object!Xdecref(r, y) \in [Object!Objects -> Int]
             /\ \A x \in Object!Objects : Object!Xdecref(r, y)[x] = r[x] - (IF y = x THEN 1 ELSE 0)
  BY <1>1 DEF Object!Xdecref
<1> QED BY <1>2, <1>3

\* insertmapping into tab.
LEMMA OInserted ==
  ASSUME NEW n \in Sizes, NEW tab \in Hashed(n), NEW fill, NEW used, NEW r, Exact(tab, fill, used, r),
         NEW k \in Key, NEW v \in Value, Stops(tab, k) # {},
         Object!Inserted(tab, fill, used, r, k, v)
  PROVE  OInv' /\ Contents(OldTable') = [Contents(tab) EXCEPT ![k] = v]
<1> DEFINE i == Look(tab, k)
           e == tab[i]
           new == Insert(tab, k, v)
           Obj == Object!Objects
<1>0. /\ n \in Nat /\ n >= 3 /\ k \in Obj /\ v \in Obj /\ k # NULL /\ v # NULL
      /\ NULL \notin Obj
  BY SizesNat, TableAssumption DEF Object!Objects
<1>1. /\ ma_table' = new /\ ma_size' = SizeOf(tab)
      /\ ma_fill' = (IF e.key = NULL THEN fill + 1 ELSE fill)
      /\ ma_used' = (IF e.value = NULL THEN used + 1 ELSE used)
      /\ refs' = (IF e.value # NULL THEN Object!Xdecref(Object!Incref(r, v), e.value)
                    ELSE Object!Xdecref(Object!Incref(Object!Incref(r, v), k), e.key))
  BY ObjectTable, ObjectSearch DEF Object!Inserted
<1>2. i \in 0 .. n - 1 /\ (e.value # NULL => e.key = k) BY LookFinds
<1>3. /\ new \in Hashed(n) /\ new[i] = [key |-> k, value |-> v]
      /\ \A j \in 0 .. n - 1 : j # i => new[j] = tab[j]
  BY InsertHashed
<1>4. Contents(new) = [Contents(tab) EXCEPT ![k] = v] BY ContentsInsert
<1>5. DOMAIN tab = 0 .. n - 1 /\ DOMAIN new = 0 .. n - 1 /\ e \in ValidEntry
  BY <1>2, <1>3, HashedUnique
<1> HIDE DEF i, new
<1>5a. OneSlot(n, tab, new, i) BY <1>2, <1>3, <1>5 DEF OneSlot
<1>6. SizeOf(tab) = n BY <1>0, <1>5, SizeOfTable
<1>7. new # NULL
  <2>1. new \in [0 .. n - 1 -> Entry] BY <1>3 DEF Hashed, Tables, ValidEntry
  <2> QED BY <2>1, NullAssumption DEF Sizes
<1>8. new[i].key = k /\ new[i].value = v BY <1>3
<1>9. /\ e.key \in Obj \cup {NULL} /\ e.value \in Obj \cup {NULL}
      /\ e.value # NULL => e.key # NULL
  BY <1>0, <1>2, <1>5 DEF ValidEntry, Entry, Object!Objects
<1> HIDE DEF e
<1>9a. tab[i] = e BY DEF e
<1>10. r \in [Obj -> Int] BY DEF Exact
<1>11. Exact(new, ma_fill', ma_used', refs')
  <2>1. Cardinality(NonNull(tab)) \in Nat /\ Cardinality(Items(tab)) \in Nat BY <1>0, <1>5, FiniteSlots
  <2>2. ma_fill' = Cardinality(NonNull(new))
    <3>1. Cardinality(NonNull(new)) = Cardinality(NonNull(tab))
            + (IF new[i].key # NULL THEN 1 ELSE 0) - (IF tab[i].key # NULL THEN 1 ELSE 0)
      BY <1>0, <1>5a, SlotChanges
    <3>2. fill = Cardinality(NonNull(tab)) BY DEF Exact
    <3> QED BY <1>0, <1>1, <1>8, <1>9a, <2>1, <3>1, <3>2
  <2>3. ma_used' = Cardinality(Items(new))
    <3>1. Cardinality(Items(new)) = Cardinality(Items(tab))
            + (IF new[i].value # NULL THEN 1 ELSE 0) - (IF tab[i].value # NULL THEN 1 ELSE 0)
      BY <1>0, <1>5a, SlotChanges
    <3>2. used = Cardinality(Items(tab)) BY DEF Exact
    <3> QED BY <1>0, <1>1, <1>8, <1>9a, <2>1, <3>1, <3>2
  <2>4. /\ refs' \in [Obj -> Int]
        /\ \A x \in Obj : refs'[x] = IF e.value # NULL
             THEN r[x] + (IF v = x THEN 1 ELSE 0) - (IF e.value = x THEN 1 ELSE 0)
             ELSE r[x] + (IF v = x THEN 1 ELSE 0) + (IF k = x THEN 1 ELSE 0) - (IF e.key = x THEN 1 ELSE 0)
    <3> DEFINE r1 == Object!Incref(r, v)
               r2 == Object!Incref(r1, k)
    <3>1. r1 \in [Obj -> Int] /\ \A x \in Obj : r1[x] = r[x] + (IF v = x THEN 1 ELSE 0)
      BY <1>0, <1>10, RefsChange
    <3> HIDE DEF r1
    <3>2. r2 \in [Obj -> Int] /\ \A x \in Obj : r2[x] = r1[x] + (IF k = x THEN 1 ELSE 0)
      BY <1>0, <3>1, RefsChange
    <3> HIDE DEF r2
    <3>3. CASE e.value # NULL
      <4>1. refs' = Object!Xdecref(r1, e.value) BY <1>1, <3>3 DEF r1
      <4>2. refs' \in [Obj -> Int] /\ \A x \in Obj : refs'[x] = r1[x] - (IF e.value = x THEN 1 ELSE 0)
        BY <1>9, <3>1, <4>1, RefsChange
      <4>3. ASSUME NEW x \in Obj
            PROVE  refs'[x] = r[x] + (IF v = x THEN 1 ELSE 0) - (IF e.value = x THEN 1 ELSE 0)
        <5>1. refs'[x] = r1[x] - (IF e.value = x THEN 1 ELSE 0) BY <4>2
        <5>2. r1[x] = r[x] + (IF v = x THEN 1 ELSE 0) /\ r[x] \in Int BY <1>10, <3>1
        <5> QED BY <5>1, <5>2
      <4> QED BY <3>3, <4>2, <4>3
    <3>4. CASE e.value = NULL
      <4>1. refs' = Object!Xdecref(r2, e.key) BY <1>1, <3>4 DEF r1, r2
      <4>2. refs' \in [Obj -> Int] /\ \A x \in Obj : refs'[x] = r2[x] - (IF e.key = x THEN 1 ELSE 0)
        BY <1>9, <3>2, <4>1, RefsChange
      <4>3. ASSUME NEW x \in Obj
            PROVE  refs'[x] = r[x] + (IF v = x THEN 1 ELSE 0) + (IF k = x THEN 1 ELSE 0)
                                  - (IF e.key = x THEN 1 ELSE 0)
        <5>1. refs'[x] = r2[x] - (IF e.key = x THEN 1 ELSE 0) BY <4>2
        <5>2. r2[x] = r1[x] + (IF k = x THEN 1 ELSE 0) BY <3>2
        <5>3. r1[x] = r[x] + (IF v = x THEN 1 ELSE 0) /\ r[x] \in Int BY <1>10, <3>1
        <5> QED BY <5>1, <5>2, <5>3
      <4> QED BY <3>4, <4>2, <4>3
    <3> QED BY <3>3, <3>4
  <2>5. ASSUME NEW x \in Obj
        PROVE  refs'[x] = Cardinality(KeyAt(new, x)) + Cardinality(ValueAt(new, x))
    <3>1. /\ Cardinality(KeyAt(new, x)) = Cardinality(KeyAt(tab, x))
               + (IF new[i].key = x THEN 1 ELSE 0) - (IF tab[i].key = x THEN 1 ELSE 0)
          /\ Cardinality(ValueAt(new, x)) = Cardinality(ValueAt(tab, x))
               + (IF new[i].value = x THEN 1 ELSE 0) - (IF tab[i].value = x THEN 1 ELSE 0)
      BY <1>0, <1>5a, SlotChanges
    <3>2. Cardinality(KeyAt(tab, x)) \in Nat /\ Cardinality(ValueAt(tab, x)) \in Nat
      BY <1>0, <1>5, CountsNat
    <3>3. r[x] = Cardinality(KeyAt(tab, x)) + Cardinality(ValueAt(tab, x)) BY DEF Exact
    <3>4. x # NULL BY <1>0
    <3>5. CASE e.value # NULL
      <4>1. refs'[x] = r[x] + (IF v = x THEN 1 ELSE 0) - (IF e.value = x THEN 1 ELSE 0)
        BY <2>4, <3>5
      <4>2. e.key = k BY <1>2, <1>9a, <3>5
      <4> QED BY <1>8, <1>9a, <3>1, <3>2, <3>3, <4>1, <4>2
    <3>6. CASE e.value = NULL
      <4>1. refs'[x] = r[x] + (IF v = x THEN 1 ELSE 0) + (IF k = x THEN 1 ELSE 0) - (IF e.key = x THEN 1 ELSE 0)
        BY <2>4, <3>6
      <4> QED BY <1>8, <1>9a, <3>1, <3>2, <3>3, <3>4, <3>6, <4>1
    <3> QED BY <3>5, <3>6
  <2> QED BY <2>2, <2>3, <2>4, <2>5 DEF Exact
<1>12. OldTable' = new BY <1>1, <1>7 DEF OldTable
<1>13. OInv' BY <1>1, <1>3, <1>6, <1>7, <1>11, <1>12 DEF OInv
<1> QED BY <1>4, <1>12, <1>13

\* What the dictionary holds.
Dict == Contents(OldTable)

\* What an operation may do to it.
DictStep ==
  \/ Dict' = Dict
  \/ Dict' = [k \in Key |-> NULL]
  \/ \E k \in Key : Dict[k] # NULL /\ Dict' = [Dict EXCEPT ![k] = NULL]
  \/ \E k \in Key, v \in Value : Dict' = [Dict EXCEPT ![k] = v]

\* It is the one that mappingresize copies.
LEMMA ObjectOld == Object!OldTable = OldTable /\ (Object!OldTable)' = OldTable'
BY ObjectTable DEF Object!OldTable, OldTable

\* The prime mappingresize chooses.
LEMMA NewSizePrime ==
  ASSUME NEW used \in Nat, HasPrime(used)
  PROVE  NewSize(used) \in Sizes /\ NewSize(used) > used * 2
<1> DEFINE I == {i \in DOMAIN primes : primes[i] > used * 2}
<1>1. I # {} BY DEF HasPrime
<1>2. I \in SUBSET Nat
  <2>1. I \in SUBSET DOMAIN primes OBVIOUS
  <2>2. DOMAIN primes \in SUBSET Nat BY SizesNat
  <2> HIDE DEF I
  <2> QED BY <2>1, <2>2
<1>3. Min(I) \in I
  <2> HIDE DEF I
  <2> QED BY <1>1, <1>2, MinNat
<1>4. NewSize(used) = primes[Min(I)] BY DEF NewSize
<1> QED BY <1>3, <1>4 DEF Sizes

\* No table: no counts.
LEMMA EmptyExact ==
  /\ Exact(NewTable(0), 0, 0, [x \in Object!Objects |-> 0])
  /\ NewTable(0) \in Tables(0) /\ Unique(NewTable(0))
  /\ Contents(NewTable(0)) = [k \in Key |-> NULL]
<1> DEFINE tab == NewTable(0)
<1>1. DOMAIN tab = {} BY DEF NewTable
<1>2. tab \in Tables(0)
  <2>1. Empty \in ValidEntry BY TableAssumption DEF Empty, Entry, ValidEntry
  <2> QED BY <2>1 DEF NewTable, Tables
<1> HIDE DEF tab
<1>3. NonNull(tab) = {} /\ Items(tab) = {} BY <1>1 DEF NonNull, Items
<1>4. \A x : KeyAt(tab, x) = {} /\ ValueAt(tab, x) = {} BY <1>1 DEF KeyAt, ValueAt
<1>5. Cardinality({}) = 0 BY FS_EmptySet
<1> DEFINE r == [x \in Object!Objects |-> 0]
<1>6. r \in [Object!Objects -> Int] /\ \A x \in Object!Objects : r[x] = 0 OBVIOUS
<1> HIDE DEF r
<1>7. Exact(tab, 0, 0, r) BY <1>3, <1>4, <1>5, <1>6 DEF Exact
<1>8. Contents(tab) = [k \in Key |-> NULL] BY <1>3 DEF Contents
<1>9. Unique(tab) BY <1>3 DEF Unique
<1> QED BY <1>2, <1>7, <1>8, <1>9 DEF tab, r

\* The table, if any, as an argument of mappingresize.
LEMMA OTableUnique ==
  ASSUME OInv
  PROVE  \E m \in Nat : OldTable \in Tables(m) /\ DOMAIN OldTable = 0 .. m - 1 /\ Unique(OldTable)
                        /\ (ma_table # NULL => m = ma_size)
<1>1. CASE ma_table = NULL
  <2>1. OldTable = NewTable(0) BY <1>1 DEF OldTable
  <2>2. OldTable \in Tables(0) /\ Unique(OldTable) BY <2>1, EmptyExact
  <2>3. DOMAIN OldTable = 0 .. 0 - 1 BY <2>2 DEF Tables
  <2> QED BY <1>1, <2>2, <2>3
<1>2. CASE ma_table # NULL
  <2>1. OldTable = ma_table /\ ma_size \in Sizes /\ ma_table \in Hashed(ma_size) BY <1>2 DEF OldTable, OInv
  <2>2. OldTable \in Tables(ma_size) /\ ma_size \in Nat BY <2>1, SizesNat DEF Hashed
  <2>3. Unique(OldTable) /\ DOMAIN OldTable = 0 .. ma_size - 1 BY <2>1, HashedUnique
  <2> QED BY <2>2, <2>3
<1> QED BY <1>1, <1>2

\* mappingresize: the new table owns what the old one owned, but no dummies.
LEMMA OResized ==
  ASSUME OInv, HasPrime(ma_used), NEW n, n = NewSize(ma_used), NEW tab, tab = Rehash(OldTable, n),
         NEW r, r = [refs EXCEPT ![Dummy] = @ - Object!DummyRefs]
  PROVE  /\ n \in Sizes /\ tab \in Hashed(n) /\ Contents(tab) = Dict
         /\ Exact(tab, Cardinality(NonNull(tab)), Cardinality(Items(tab)), r)
         /\ \A k \in Key : Stops(tab, k) # {}
<1> DEFINE old == OldTable
           Obj == Object!Objects
<1>1. PICK m \in Nat : old \in Tables(m) /\ DOMAIN old = 0 .. m - 1 /\ Unique(old) BY OTableUnique
<1>2. Exact(old, ma_fill, ma_used, refs) BY DEF OInv
<1>3. Object!DummyRefs = Cardinality(KeyAt(old, Dummy))
  <2>1. CASE ma_table = NULL
    <3>1. KeyAt(old, Dummy) = {} BY <2>1 DEF OldTable, KeyAt, NewTable
    <3> QED BY <2>1, <3>1, FS_EmptySet DEF Object!DummyRefs
  <2>2. CASE ma_table # NULL BY <2>2, ObjectTable DEF OldTable, KeyAt, Object!DummyRefs
  <2> QED BY <2>1, <2>2
<1> HIDE DEF old
<1>4. ma_used \in Nat /\ ma_used = Cardinality(Items(old)) BY <1>1, <1>2, FiniteSlots DEF Exact
<1>5. n \in Sizes /\ n > ma_used * 2 BY <1>4, NewSizePrime
<1>6. n \in Nat /\ n >= 3 BY <1>5, SizesNat
<1>7. Cardinality(Items(old)) < n BY <1>4, <1>5, <1>6
<1>8. /\ tab \in Hashed(n) /\ NonNull(tab) = Items(tab) /\ Contents(tab) = Contents(old)
      /\ \A E \in SUBSET ItemEntry : Cardinality(At(tab, E)) = Cardinality(At(old, E))
  BY <1>1, <1>5, <1>7, Rehashed DEF old
<1>9. DOMAIN tab = 0 .. n - 1 /\ \A i \in 0 .. n - 1 : tab[i] \in ValidEntry BY <1>5, <1>8, HashedUnique
<1>10. \A i \in 0 .. m - 1 : old[i] \in ValidEntry BY <1>1 DEF Tables
<1>11. NULL \notin Obj /\ Dummy \in Obj /\ Dummy # NULL /\ Dummy \notin Key BY TableAssumption DEF Object!Objects
<1>12. \A k \in Key : Stops(tab, k) # {}
  <2>1. ItemEntry \in SUBSET ItemEntry OBVIOUS
  <2>2. Items(tab) = At(tab, ItemEntry) /\ Items(old) = At(old, ItemEntry)
    BY <1>1, <1>9, <1>10 DEF Items, At, ItemEntry
  <2>3. Cardinality(NonNull(tab)) = Cardinality(Items(old)) BY <1>8, <2>1, <2>2
  <2>4. tab \in Tables(n) BY <1>8 DEF Hashed
  <2>5. PICK z \in 0 .. n - 1 : tab[z].key = NULL BY <1>6, <1>7, <2>3, <2>4, NullLeft
  <2> QED BY <1>5, <2>4, <2>5, SearchStops
<1>13. ASSUME NEW x \in Obj PROVE r[x] = Cardinality(KeyAt(tab, x)) + Cardinality(ValueAt(tab, x))
  <2>1. refs \in [Obj -> Int] /\ refs[x] = Cardinality(KeyAt(old, x)) + Cardinality(ValueAt(old, x))
    BY <1>2 DEF Exact
  <2>2. /\ Cardinality(KeyAt(old, x)) \in Nat /\ Cardinality(ValueAt(old, x)) \in Nat
        /\ Cardinality(KeyAt(tab, x)) \in Nat /\ Cardinality(ValueAt(tab, x)) \in Nat
    BY <1>1, <1>6, <1>9, CountsNat
  <2>3. Cardinality(ValueAt(tab, x)) = Cardinality(ValueAt(old, x))
    <3> DEFINE E == {e \in ItemEntry : e.value = x}
    <3>1. E \in SUBSET ItemEntry OBVIOUS
    <3>2. x # NULL BY <1>11
    <3>3. ValueAt(tab, x) = At(tab, E) BY <1>9, <3>2 DEF ValueAt, At, ItemEntry
    <3>4. ValueAt(old, x) = At(old, E) BY <1>1, <1>10, <3>2 DEF ValueAt, At, ItemEntry
    <3> HIDE DEF E
    <3> QED BY <1>8, <3>1, <3>3, <3>4
  <2>4. CASE x = Dummy
    <3>1. KeyAt(tab, Dummy) = {}
      <4> SUFFICES ASSUME NEW i \in 0 .. n - 1, tab[i].key = Dummy PROVE FALSE BY <1>9 DEF KeyAt
      <4>1. i \in NonNull(tab) BY <1>9, <1>11 DEF NonNull
      <4>2. tab[i].value # NULL BY <1>8, <4>1 DEF Items
      <4> QED BY <1>9, <1>11, <4>2 DEF ValidEntry
    <3>2. Cardinality(KeyAt(tab, Dummy)) = 0 BY <3>1, FS_EmptySet
    <3>3. r[x] = refs[x] - Cardinality(KeyAt(old, x)) BY <1>3, <2>1, <2>4
    <3> QED BY <2>1, <2>2, <2>3, <2>4, <3>2, <3>3
  <2>5. CASE x # Dummy
    <3> DEFINE E == {e \in ItemEntry : e.key = x}
    <3>1. E \in SUBSET ItemEntry OBVIOUS
    <3>2. x # NULL BY <1>11
    <3>3. \A e \in ValidEntry : e.key = x => e \in ItemEntry
      BY <2>5, <3>2 DEF ValidEntry, Entry, ItemEntry
    <3>4. KeyAt(tab, x) = At(tab, E) BY <1>9, <3>3 DEF KeyAt, At
    <3>5. KeyAt(old, x) = At(old, E) BY <1>1, <1>10, <3>3 DEF KeyAt, At
    <3> HIDE DEF E
    <3>6. Cardinality(KeyAt(tab, x)) = Cardinality(KeyAt(old, x)) BY <1>8, <3>1, <3>4, <3>5
    <3>7. r[x] = refs[x] BY <2>1, <2>5
    <3> QED BY <2>1, <2>3, <3>6, <3>7
  <2> QED BY <2>4, <2>5
<1>14. r \in [Obj -> Int]
  <2>1. refs \in [Obj -> Int] BY <1>2 DEF Exact
  <2>2. Object!DummyRefs \in Int BY <1>1, <1>3, CountsNat
  <2> QED BY <1>11, <2>1, <2>2
<1>15. Exact(tab, Cardinality(NonNull(tab)), Cardinality(Items(tab)), r) BY <1>13, <1>14 DEF Exact
<1> QED BY <1>5, <1>8, <1>12, <1>15 DEF Dict, old

\* mappingremove: a dummy takes the place of the key, and its value is gone.
LEMMA ORemoved ==
  ASSUME OInv, NEW k \in Key, Object!Remove(k)
  PROVE  OInv' /\ Dict[k] # NULL /\ Dict' = [Dict EXCEPT ![k] = NULL]
<1> DEFINE i == Look(ma_table, k)
           e == ma_table[i]
           gone == [key |-> Dummy, value |-> NULL]
           new == [ma_table EXCEPT ![i] = gone]
           Obj == Object!Objects
           n == ma_size
<1>1. /\ ma_table # NULL /\ Stops(ma_table, k) # {} /\ e.value # NULL
      /\ refs' = Object!Xdecref(Object!Xdecref(Object!Incref(refs, Dummy), e.value), e.key)
      /\ ma_table' = new /\ ma_used' = ma_used - 1 /\ ma_size' = ma_size /\ ma_fill' = ma_fill
  BY ObjectSearch DEF Object!Remove, Object!Deleted
<1>2. n \in Sizes /\ ma_table \in Hashed(n) /\ OldTable = ma_table BY <1>1 DEF OInv, OldTable
<1>3. Exact(ma_table, ma_fill, ma_used, refs) BY <1>2 DEF OInv
<1>4. i \in 0 .. n - 1 /\ e.key = k BY <1>1, <1>2, LookFinds
<1>5. Contents(ma_table)[k] = e.value BY <1>1, <1>2, ContentsLook
<1>6. n \in Nat /\ n >= 3 BY <1>2, SizesNat
<1> HIDE DEF i, n
<1>7. /\ new \in Hashed(n) /\ new[i] = gone
      /\ \A j \in 0 .. n - 1 : j # i => new[j] = ma_table[j]
  <2>1. n \in Sizes /\ ma_table \in Hashed(n) /\ i \in 0 .. n - 1 /\ ma_table[i].value # NULL
    BY <1>1, <1>2, <1>4
  <2> QED BY ONLY <2>1, VacatedHashed
<1>8. Contents(new) = [Contents(ma_table) EXCEPT ![k] = NULL] BY <1>1, <1>2, <1>4, ContentsVacated
<1> HIDE DEF new
<1>9. DOMAIN ma_table = 0 .. n - 1 /\ DOMAIN new = 0 .. n - 1 /\ e \in ValidEntry
  BY <1>2, <1>4, <1>7, HashedUnique
<1>10. new # NULL
  <2>1. new \in [0 .. n - 1 -> Entry] BY <1>7 DEF Hashed, Tables, ValidEntry
  <2> QED BY <1>2, <2>1, NullAssumption DEF Sizes
<1>11. OneSlot(n, ma_table, new, i) BY <1>4, <1>7, <1>9 DEF OneSlot
<1>12. new[i].key = Dummy /\ new[i].value = NULL BY <1>7
<1>13. /\ k \in Obj /\ e.value \in Obj /\ Dummy \in Obj /\ NULL \notin Obj
       /\ k # NULL /\ Dummy # NULL
  BY <1>1, <1>9, TableAssumption DEF ValidEntry, Entry, Object!Objects
<1>14. ma_table[i] = e OBVIOUS
<1> HIDE DEF e, gone
<1>15. Exact(new, ma_fill', ma_used', refs')
  <2>1. Cardinality(NonNull(ma_table)) \in Nat /\ Cardinality(Items(ma_table)) \in Nat
    BY <1>6, <1>9, FiniteSlots
  <2>2. /\ Cardinality(NonNull(new)) = Cardinality(NonNull(ma_table))
             + (IF new[i].key # NULL THEN 1 ELSE 0) - (IF ma_table[i].key # NULL THEN 1 ELSE 0)
        /\ Cardinality(Items(new)) = Cardinality(Items(ma_table))
             + (IF new[i].value # NULL THEN 1 ELSE 0) - (IF ma_table[i].value # NULL THEN 1 ELSE 0)
    BY <1>6, <1>11, SlotChanges
  <2>3. ma_fill = Cardinality(NonNull(ma_table)) /\ ma_used = Cardinality(Items(ma_table)) BY <1>3 DEF Exact
  <2>4. ma_fill' = Cardinality(NonNull(new)) BY <1>1, <1>4, <1>12, <1>13, <1>14, <2>1, <2>2, <2>3
  <2>5. ma_used' = Cardinality(Items(new)) BY <1>1, <1>12, <1>14, <2>1, <2>2, <2>3
  <2> DEFINE r == refs
             r1 == Object!Incref(r, Dummy)
             r2 == Object!Xdecref(r1, e.value)
  <2>6. r \in [Obj -> Int] BY <1>3 DEF Exact
  <2>7. r1 \in [Obj -> Int] /\ \A x \in Obj : r1[x] = r[x] + (IF Dummy = x THEN 1 ELSE 0)
    BY <1>13, <2>6, RefsChange
  <2> HIDE DEF r1
  <2>8. r2 \in [Obj -> Int] /\ \A x \in Obj : r2[x] = r1[x] - (IF e.value = x THEN 1 ELSE 0)
    BY <1>13, <2>7, RefsChange
  <2>9. refs' = Object!Xdecref(r2, k) BY <1>1, <1>4 DEF r1
  <2> HIDE DEF r2
  <2>10. refs' \in [Obj -> Int] /\ \A x \in Obj : refs'[x] = r2[x] - (IF k = x THEN 1 ELSE 0)
    BY <1>13, <2>8, <2>9, RefsChange
  <2>11. ASSUME NEW x \in Obj
         PROVE  refs'[x] = Cardinality(KeyAt(new, x)) + Cardinality(ValueAt(new, x))
    <3>1. /\ Cardinality(KeyAt(new, x)) = Cardinality(KeyAt(ma_table, x))
               + (IF new[i].key = x THEN 1 ELSE 0) - (IF ma_table[i].key = x THEN 1 ELSE 0)
          /\ Cardinality(ValueAt(new, x)) = Cardinality(ValueAt(ma_table, x))
               + (IF new[i].value = x THEN 1 ELSE 0) - (IF ma_table[i].value = x THEN 1 ELSE 0)
      BY <1>6, <1>11, SlotChanges
    <3>2. Cardinality(KeyAt(ma_table, x)) \in Nat /\ Cardinality(ValueAt(ma_table, x)) \in Nat
      BY <1>6, <1>9, CountsNat
    <3>3. r[x] = Cardinality(KeyAt(ma_table, x)) + Cardinality(ValueAt(ma_table, x)) BY <1>3 DEF Exact
    <3>4. x # NULL BY <1>13
    <3>5. refs'[x] = r2[x] - (IF k = x THEN 1 ELSE 0) BY <2>10
    <3>6. r2[x] = r1[x] - (IF e.value = x THEN 1 ELSE 0) BY <2>8
    <3>7. r1[x] = r[x] + (IF Dummy = x THEN 1 ELSE 0) BY <2>7
    <3>8. ma_table[i].key = k BY <1>4, <1>14
    <3> HIDE DEF r
    <3> QED BY <1>12, <1>14, <3>1, <3>2, <3>3, <3>4, <3>5, <3>6, <3>7, <3>8
  <2> QED BY <2>4, <2>5, <2>10, <2>11 DEF Exact
<1>16. OldTable' = new BY <1>1, <1>10 DEF OldTable
<1>17. OInv' BY <1>1, <1>2, <1>7, <1>10, <1>15, <1>16 DEF OInv, n
<1>18. Dict' = [Dict EXCEPT ![k] = NULL] BY <1>2, <1>8, <1>16 DEF Dict
<1>19. Dict[k] # NULL BY <1>1, <1>2, <1>5 DEF Dict
<1> QED BY <1>17, <1>18, <1>19

\* mappingclear gives back everything the table owned.
LEMMA OCleared ==
  ASSUME OInv, Object!Clear
  PROVE  OInv' /\ Dict' = [k \in Key |-> NULL]
<1> DEFINE Obj == Object!Objects
<1>1. /\ ma_table # NULL /\ ma_table' = NULL /\ ma_size' = 0 /\ ma_fill' = 0 /\ ma_used' = 0
      /\ refs' = [x \in Obj |-> refs[x] - Cardinality(KeyAt(ma_table, x))
                                           - Cardinality(ValueAt(ma_table, x))]
  BY ObjectTable DEF Object!Clear, KeyAt, ValueAt
<1>2. ma_size \in Sizes /\ ma_table \in Hashed(ma_size) /\ OldTable = ma_table BY <1>1 DEF OInv, OldTable
<1>3. ma_size \in Nat /\ DOMAIN ma_table = 0 .. ma_size - 1 BY <1>2, SizesNat, HashedUnique
<1>4. ASSUME NEW x \in Obj
      PROVE  refs[x] - Cardinality(KeyAt(ma_table, x)) - Cardinality(ValueAt(ma_table, x)) = 0
  <2>1. refs[x] = Cardinality(KeyAt(ma_table, x)) + Cardinality(ValueAt(ma_table, x))
    BY <1>2 DEF OInv, Exact
  <2>2. Cardinality(KeyAt(ma_table, x)) \in Nat /\ Cardinality(ValueAt(ma_table, x)) \in Nat
    BY <1>3, CountsNat
  <2> QED BY <2>1, <2>2
<1>5. refs' = [x \in Obj |-> 0] BY <1>1, <1>4
<1>6. OldTable' = NewTable(0) BY <1>1 DEF OldTable
<1> QED BY <1>1, <1>5, <1>6, EmptyExact DEF OInv, Dict

\* Every operation keeps the counters and has the effect it should have.
LEMMA ONext ==
  ASSUME OInv, [Object!Next]_(Object!vars)
  PROVE  OInv' /\ DictStep
<1>0. ASSUME UNCHANGED Object!vars PROVE OInv' /\ DictStep
  <2>1. UNCHANGED <<ma_table, ma_size, ma_fill, ma_used, refs>> BY <1>0 DEF Object!vars
  <2>2. OldTable' = OldTable BY <2>1 DEF OldTable
  <2>3. OInv' BY <2>1, <2>2 DEF OInv, Exact
  <2> QED BY <2>2, <2>3 DEF DictStep, Dict
<1>1. ASSUME NEW k \in Key, NEW v \in Value, ma_table # NULL, Stops(ma_table, k) # {},
             Object!Inserted(ma_table, ma_fill, ma_used, refs, k, v)
      PROVE  OInv' /\ DictStep
  <2>1. ma_size \in Sizes /\ ma_table \in Hashed(ma_size) /\ OldTable = ma_table BY <1>1 DEF OInv, OldTable
  <2>2. Exact(ma_table, ma_fill, ma_used, refs) BY <2>1 DEF OInv
  <2>3. OInv' /\ Contents(OldTable') = [Contents(ma_table) EXCEPT ![k] = v] BY <1>1, <2>1, <2>2, OInserted
  <2> QED BY <2>1, <2>3 DEF DictStep, Dict
<1>2. ASSUME NEW k \in Key, NEW v \in Value, Object!InsertPlain(k, v) PROVE OInv' /\ DictStep
  <2>1. ma_table # NULL
    <3> SUFFICES ASSUME ma_table = NULL PROVE FALSE OBVIOUS
    <3>1. ma_size = 0 /\ OldTable = NewTable(0) BY NullAssumption DEF OInv, OldTable
    <3>2. NonNull(NewTable(0)) = {} BY DEF NonNull, NewTable
    <3>3. ma_fill = 0 BY <3>1, <3>2, FS_EmptySet DEF OInv, Exact
    <3> QED BY <1>2, <3>1, <3>3 DEF Object!InsertPlain, Object!ResizeNeeded
  <2>2. Stops(ma_table, k) # {} /\ Object!Inserted(ma_table, ma_fill, ma_used, refs, k, v)
    BY <1>2, ObjectSearch DEF Object!InsertPlain
  <2> QED BY <1>1, <2>1, <2>2
<1>3. ASSUME NEW k \in Key, NEW v \in Value, Object!InsertUnresized(k, v) PROVE OInv' /\ DictStep
  <2>1. ma_table # NULL
    <3> SUFFICES ASSUME ma_table = NULL PROVE FALSE OBVIOUS
    <3>1. ma_size = 0 /\ OldTable = NewTable(0) BY DEF OInv, OldTable
    <3>2. NonNull(NewTable(0)) = {} BY DEF NonNull, NewTable
    <3>3. ma_fill = 0 BY <3>1, <3>2, FS_EmptySet DEF OInv, Exact
    <3> QED BY <1>3, <3>1, <3>3 DEF Object!InsertUnresized, Object!NoRoom
  <2>2. Stops(ma_table, k) # {} /\ Object!Inserted(ma_table, ma_fill, ma_used, refs, k, v)
    BY <1>3, ObjectSearch DEF Object!InsertUnresized
  <2> QED BY <1>1, <2>1, <2>2
<1>4. ASSUME NEW k \in Key, NEW v \in Value, Object!InsertResized(k, v) PROVE OInv' /\ DictStep
  <2> DEFINE n == NewSize(ma_used)
             tab == Rehash(OldTable, n)
             r == [refs EXCEPT ![Dummy] = @ - Object!DummyRefs]
             fill == Cardinality(NonNull(tab))
             used == Cardinality(Items(tab))
  <2>1. HasPrime(ma_used) /\ Object!Inserted(tab, fill, used, r, k, v)
    BY <1>4, ObjectTable, ObjectResize, ObjectOld DEF Object!InsertResized
  <2>2. /\ n \in Sizes /\ tab \in Hashed(n) /\ Contents(tab) = Dict
        /\ Exact(tab, fill, used, r) /\ Stops(tab, k) # {}
    BY <2>1, OResized
  <2> HIDE DEF n, tab, r, fill, used
  <2>3. OInv' /\ Contents(OldTable') = [Contents(tab) EXCEPT ![k] = v] BY <2>1, <2>2, OInserted
  <2> QED BY <2>2, <2>3 DEF DictStep, Dict
<1>5. ASSUME NEW k \in Key, Object!Remove(k) PROVE OInv' /\ DictStep
  BY <1>5, ORemoved DEF DictStep
<1>6. ASSUME NEW k \in Key, Object!RemoveMissing(k) PROVE OInv' /\ DictStep
  BY <1>0, <1>6 DEF Object!RemoveMissing
<1>7. ASSUME Object!InsertFails PROVE OInv' /\ DictStep BY <1>0, <1>7 DEF Object!InsertFails
<1>8. ASSUME Object!Clear PROVE OInv' /\ DictStep BY <1>8, OCleared DEF DictStep
<1> QED BY <1>0, <1>2, <1>3, <1>4, <1>5, <1>6, <1>7, <1>8 DEF Object!Next

\* In a new dictionary nothing is counted.
LEMMA OInit ==
  ASSUME Object!Init
  PROVE  OInv /\ Dict = [k \in Key |-> NULL]
<1>1. /\ ma_table = NULL /\ ma_size = 0 /\ ma_fill = 0 /\ ma_used = 0
      /\ refs = [x \in Object!Objects |-> 0]
  BY DEF Object!Init
<1>2. OldTable = NewTable(0) BY <1>1 DEF OldTable
<1> QED BY <1>1, <1>2, EmptyExact DEF OInv, Dict

\* The counters are exact all the time.
LEMMA OInvHolds == Object!Spec => []OInv
<1>1. Object!Init => OInv BY OInit
<1>2. OInv /\ [Object!Next]_(Object!vars) => OInv' BY ONext
<1> QED BY <1>1, <1>2, PTL DEF Object!Spec

\* ma_fill and ma_used are the numbers of keys (with the dummies) and of items in
\* the table, whatever has been inserted, removed and resized: CountsExact.
THEOREM CountsStayExact == Object!Spec => []CountsExact
<1>1. OInv => CountsExact
  <2> SUFFICES ASSUME OInv PROVE CountsExact OBVIOUS
  <2>1. PICK m \in Nat : OldTable \in Tables(m) /\ DOMAIN OldTable = 0 .. m - 1 BY OTableUnique
  <2>2. \A i \in DOMAIN OldTable : OldTable[i].value # NULL <=> OldTable[i].key \in Key
    BY <2>1 DEF Tables, ValidEntry
  <2>3. ma_fill = Cardinality(NonNull(OldTable)) /\ ma_used = Cardinality(Items(OldTable)) BY DEF OInv, Exact
  <2> QED BY <2>2, <2>3, ObjectOld, ObjectTable DEF CountsExact
<1> QED BY <1>1, OInvHolds, PTL

\* The dictionary owns as many references to an object as its table holds: no
\* insertion, removal, resize or clear loses one or gives one back twice, also
\* when key and value are the same object: RefsExact.
THEOREM RefsStayExact == Object!Spec => []RefsExact
<1>1. OInv => RefsExact
  BY ObjectOld, ObjectTable DEF OInv, Exact, KeyAt, ValueAt, RefsExact,
    Object!Objects, Objects
<1> QED BY <1>1, OInvHolds, PTL

\* The fields of a dictionary have their types, and no reference count of it is
\* negative.
THEOREM ObjectTypes == Object!Spec => []Object!TypeOK
<1>1. OInv => Object!TypeOK
  <2> SUFFICES ASSUME OInv PROVE Object!TypeOK OBVIOUS
  <2>1. PICK m \in Nat : /\ OldTable \in Tables(m) /\ DOMAIN OldTable = 0 .. m - 1
                         /\ ma_table # NULL => m = ma_size
    BY OTableUnique
  <2>2. refs \in [Object!Objects -> Nat]
    <3>1. \A x \in Object!Objects : refs[x] \in Nat
      BY <2>1, CountsNat DEF OInv, Exact
    <3> QED BY <3>1 DEF OInv, Exact
  <2>3. CASE ma_table = NULL
    <3>1. OldTable = NewTable(0) /\ ma_size = 0 BY <2>3 DEF OldTable, OInv
    <3>2. NonNull(NewTable(0)) = {} /\ Items(NewTable(0)) = {} BY DEF NonNull, Items, NewTable
    <3>3. ma_fill = 0 /\ ma_used = 0 BY <3>1, <3>2, FS_EmptySet DEF OInv, Exact
    <3> QED BY <2>2, <2>3, <3>1, <3>3 DEF Object!TypeOK
  <2>4. CASE ma_table # NULL
    <3>1. ma_size \in Sizes /\ ma_table \in Hashed(ma_size) /\ OldTable = ma_table BY <2>4 DEF OInv, OldTable
    <3>2. ma_size \in Nat /\ ma_size >= 3 BY <3>1, SizesNat
    <3>3. ma_size \in {Object!primes[i] : i \in DOMAIN Object!primes}
      BY <3>1 DEF Sizes, primes, Object!primes
    <3>4. ma_table \in [0 .. ma_size - 1 -> Entry] BY <3>1 DEF Hashed, Tables, ValidEntry
    <3>5. DOMAIN ma_table = 0 .. ma_size - 1 BY <3>4
    <3>6. Cardinality(DOMAIN ma_table) = ma_size BY <3>2, <3>5, SizeOfTable DEF SizeOf
    <3>7. IsFiniteSet(DOMAIN ma_table)
      <4>1. DOMAIN ma_table \in SUBSET (0 .. ma_size - 1) BY <3>5
      <4> QED BY <3>2, <4>1, FiniteAt
    <3>8. NonNull(ma_table) \in SUBSET DOMAIN ma_table /\ Items(ma_table) \in SUBSET DOMAIN ma_table
      BY DEF NonNull, Items
    <3>9. Cardinality(NonNull(ma_table)) <= ma_size /\ Cardinality(Items(ma_table)) <= ma_size
      BY <3>6, <3>7, <3>8, FS_Subset
    <3>10. Cardinality(NonNull(ma_table)) \in Nat /\ Cardinality(Items(ma_table)) \in Nat
      BY <3>2, <3>5, FiniteSlots
    <3>11. ma_fill \in 0 .. ma_size /\ ma_used \in 0 .. ma_size
      BY <3>1, <3>2, <3>9, <3>10 DEF OInv, Exact
    <3>12. ma_size # 0 BY <3>2
    <3> QED BY <2>2, <3>3, <3>4, <3>11, <3>12 DEF Object!TypeOK, Object!Entry, Entry
  <2> QED BY <2>3, <2>4
<1> QED BY <1>1, OInvHolds, PTL

\* A dictionary holds what was stored in it and not deleted, through resizes,
\* failed ones too: ActsAsDictionary.
THEOREM ObjectIsDictionary == Object!Spec => ActsAsDictionary
<1>1. Object!Init => AsDictionary!Init
  BY OInit DEF Dict, AsDictionary!Init, AsDictionary!EmptyDict
<1>2. OInv /\ [Object!Next]_(Object!vars) => [AsDictionary!Next]_(Contents(OldTable))
  <2> SUFFICES ASSUME OInv, [Object!Next]_(Object!vars)
               PROVE  [AsDictionary!Next]_(Contents(OldTable))
    OBVIOUS
  <2>1. DictStep BY ONext
  <2> QED BY <2>1 DEF Dict, DictStep, AsDictionary!Next, AsDictionary!Clear,
       AsDictionary!Delete, AsDictionary!Store, AsDictionary!EmptyDict
<1> QED BY <1>1, <1>2, OInvHolds, PTL DEF Object!Spec, ActsAsDictionary, AsDictionary!DictionarySpec

-----------------------------------------------------------------------------
(* MappingThreads: until the table is replaced or cleared under a thread   *)
(* that was reading its fields, or had read them and waited for the lock,  *)
(* what is read without the lock is still so later.                        *)

\* Where a thread holds the lock.
LockedPCs == {"resize", "insert", "remove", "clear", "lookup", "has_key", "keys"}

\* Where a thread is inside mappinginsert.
InsertPCs == {"insert_check", "resize_size", "resize_table", "resize_lock", "resize",
              "resize_free", "resize_failed", "insert_lock", "insert"}

\* Where a thread has a key to look for.
SearchPCs == {"remove_check", "remove_lock", "remove", "lookup_check", "lookup_lock", "lookup",
              "has_key_lock", "has_key"}

\* Where a thread relies on a table.
TablePCs == {"resize_free", "insert_lock", "insert", "remove_lock", "remove",
             "lookup_lock", "lookup"}

\* Where a thread has seen to it that one more item fits.
FlightPCs == {"resize_free", "insert_lock", "insert"}

LocalTypes ==
  /\ key \in [Thread -> Key \cup {NULL}]
  /\ value \in [Thread -> Value \cup {NULL}]
  /\ oldtable \in [Thread -> Addr \cup {NULL}]
  /\ oldsize \in [Thread -> Nat]
  /\ len \in [Thread -> Nat]

Types ==
  /\ ma_table \in Addr \cup {NULL}
  /\ DOMAIN heap = Addr
  /\ holder \in Thread \cup {NULL}
  /\ pc \in [Thread -> PCs]
  /\ LocalTypes

Locked == \A t \in Thread : pc[t] \in LockedPCs <=> holder = t

\* The counters of a table in which every item is found.
Counts(tab, n, fill, used) ==
  /\ n \in Sizes
  /\ tab \in Hashed(n)
  /\ fill = Cardinality(NonNull(tab))
  /\ used = Cardinality(Items(tab))

Counted ==
  /\ ma_table = NULL => ma_size = 0 /\ ma_fill = 0 /\ ma_used = 0
  /\ ma_table # NULL => Counts(heap[ma_table], ma_size, ma_fill, ma_used)

\* What mappingresize read before it locked is still so when it has locked.
NotStale ==
  \A t \in Thread :
    /\ pc[t] \in {"resize_table", "resize_lock", "resize"} => oldsize[t] = ma_size
    /\ pc[t] \in {"resize_lock", "resize"} => oldtable[t] = ma_table

HasTable == \A t \in Thread : pc[t] \in TablePCs => ma_table # NULL

\* What a thread is about to free.
Frees(t, a) == pc[t] = "resize_free" /\ oldtable[t] = a

\* Every table is the dictionary's or that of the one thread that frees it.
Owned ==
  /\ \A a \in Addr : heap[a] # NULL => a = ma_table \/ \E t \in Thread : Frees(t, a)
  /\ \A a \in Addr, t \in Thread : Frees(t, a) => a # ma_table /\ heap[a] # NULL
  /\ \A a \in Addr, t, u \in Thread : Frees(t, a) /\ Frees(u, a) => t = u

Sized == \A a \in Addr : heap[a] # NULL => \E n \in Sizes : heap[a] \in Tables(n)

\* The arguments of a call.
Args ==
  \A t \in Thread :
    /\ pc[t] \in InsertPCs => key[t] \in Key /\ value[t] \in Value
    /\ pc[t] \in SearchPCs => key[t] \in Key

\* Two thirds of the table and what the threads in flight add to it.
Room ==
  \/ cramped \/ ma_table = NULL
  \/ 3 * (ma_fill + Cardinality(InFlight)) < 2 * ma_size + 3 * Cardinality(Thread)

Sound ==
  /\ Types /\ Locked /\ Counted /\ NotStale
  /\ HasTable /\ Owned /\ Sized /\ Args /\ Room

IInv == outdated \/ Sound

-----------------------------------------------------------------------------
(* Small facts.                                                            *)

\* The counters are numbers, and there is a table if the size is not zero.
LEMMA CountersNat ==
  ASSUME Counted
  PROVE  /\ ma_size \in Nat /\ ma_fill \in Nat /\ ma_used \in Nat
         /\ ma_size # 0 <=> ma_table # NULL
<1>1. CASE ma_table = NULL BY <1>1 DEF Counted
<1>2. CASE ma_table # NULL
  <2>1. Counts(heap[ma_table], ma_size, ma_fill, ma_used) BY <1>2 DEF Counted
  <2>2. ma_size \in Sizes /\ heap[ma_table] \in Hashed(ma_size) BY <2>1 DEF Counts
  <2>3. ma_size \in Nat /\ ma_size >= 3 BY <2>2, SizesNat
  <2>4. DOMAIN heap[ma_table] = 0 .. ma_size - 1 BY <2>2, HashedUnique
  <2>5. Cardinality(NonNull(heap[ma_table])) \in Nat /\ Cardinality(Items(heap[ma_table])) \in Nat
    BY <2>3, <2>4, FiniteSlots
  <2> QED BY <1>2, <2>1, <2>3, <2>5 DEF Counts
<1> QED BY <1>1, <1>2

\* The null pointer is no table.
LEMMA NoNullTable ==
  ASSUME NEW n \in Sizes, NEW tab \in Tables(n)
  PROVE  tab # NULL
<1>1. PICK i \in DOMAIN primes : n = primes[i] BY DEF Sizes
<1>2. tab \in [0 .. primes[i] - 1 -> Entry] BY <1>1 DEF Tables, ValidEntry
<1> QED BY <1>2, NullAssumption

\* Threads in flight are finitely many.
LEMMA FlightNat ==
  /\ IsFiniteSet(InFlight) /\ Cardinality(InFlight) \in Nat /\ Cardinality(Thread) \in Nat
  /\ Cardinality(InFlight) <= Cardinality(Thread)
<1>1. InFlight \in SUBSET Thread BY DEF InFlight
<1> QED BY <1>1, ThreadsAssumption, FS_Subset, FS_CardinalityType

\* Also after a step; the thread that has left is not among them.
LEMMA FlightNext ==
  ASSUME NEW t \in Thread, NEW from \in PCs, NEW to \in PCs, pc \in [Thread -> PCs], Goto(t, from, to)
  PROVE  /\ Cardinality(InFlight') \in Nat /\ Cardinality(InFlight') <= Cardinality(Thread)
         /\ (to \in FlightPCs => from \in FlightPCs) => Cardinality(InFlight') <= Cardinality(InFlight)
         /\ to \notin FlightPCs /\ from \in FlightPCs => Cardinality(InFlight') <= Cardinality(InFlight) - 1
<1>1. pc[t] = from /\ pc'[t] = to /\ \A u \in Thread : u # t => pc'[u] = pc[u] BY DEF Goto
<1> DEFINE S == InFlight
           T == {u \in Thread : pc'[u] \in FlightPCs}
<1>2. InFlight' = T BY DEF InFlight, FlightPCs
<1>3. S = {u \in Thread : pc[u] \in FlightPCs} BY DEF InFlight, FlightPCs
<1>4. IsFiniteSet(S) /\ Cardinality(S) \in Nat /\ Cardinality(Thread) \in Nat BY FlightNat
<1>5. T \in SUBSET Thread OBVIOUS
<1>6. IsFiniteSet(T) /\ Cardinality(T) \in Nat /\ Cardinality(T) <= Cardinality(Thread)
  BY <1>5, ThreadsAssumption, FS_Subset, FS_CardinalityType
<1>7. ASSUME to \in FlightPCs => from \in FlightPCs PROVE Cardinality(T) <= Cardinality(S)
  <2>1. T \in SUBSET S BY <1>1, <1>3, <1>7
  <2> HIDE DEF S, T
  <2> QED BY <1>4, <2>1, FS_Subset
<1>8. ASSUME to \notin FlightPCs, from \in FlightPCs PROVE Cardinality(T) <= Cardinality(S) - 1
  <2>1. T \in SUBSET (S \ {t}) /\ t \in S BY <1>1, <1>3, <1>8
  <2> HIDE DEF S, T
  <2>2. IsFiniteSet(S \ {t}) /\ Cardinality(S \ {t}) = Cardinality(S) - 1 BY <1>4, <2>1, FS_RemoveElement
  <2> QED BY <2>1, <2>2, FS_Subset
<1> HIDE DEF S, T
<1> QED BY <1>2, <1>6, <1>7, <1>8 DEF S

\* Nobody but t changes its variables.
Alone(t) ==
  \A u \in Thread : u # t =>
    /\ key'[u] = key[u] /\ value'[u] = value[u] /\ len'[u] = len[u]
    /\ oldtable'[u] = oldtable[u] /\ oldsize'[u] = oldsize[u]

\* The lock is taken, given back or left alone.
Locks(t, from, to) ==
  \/ from \notin LockedPCs /\ to \notin LockedPCs /\ holder' = holder
  \/ from \notin LockedPCs /\ to \in LockedPCs /\ holder = NULL /\ holder' = t
  \/ from \in LockedPCs /\ to \notin LockedPCs /\ holder' = NULL

\* One thread at a time has the lock.
LEMMA LockedNext ==
  ASSUME Types, Locked, NEW t \in Thread, NEW from \in PCs, NEW to \in PCs, Goto(t, from, to),
         Locks(t, from, to)
  PROVE  Locked' /\ holder' \in Thread \cup {NULL}
<1>1. pc[t] = from /\ pc'[t] = to /\ \A u \in Thread : u # t => pc'[u] = pc[u] BY DEF Goto, Types
<1>2. NULL \notin Thread BY ThreadsAssumption
<1>3. holder' \in Thread \cup {NULL} BY DEF Types, Locks
<1> QED BY <1>1, <1>2, <1>3 DEF Types, Locked, Locks

\* A thread keeps the arguments of its call.
LEMMA ArgsNext ==
  ASSUME Types, Args, NEW t \in Thread, NEW from \in PCs, NEW to \in PCs, Goto(t, from, to), Alone(t),
         to \in InsertPCs => key'[t] \in Key /\ value'[t] \in Value,
         to \in SearchPCs => key'[t] \in Key
  PROVE  Args'
<1>1. pc'[t] = to /\ \A u \in Thread : u # t => pc'[u] = pc[u] BY DEF Goto, Types
<1> QED BY <1>1 DEF Args, Alone

-----------------------------------------------------------------------------
(* What the steps do to the invariant.                                     *)

\* It holds of a new dictionary.
LEMMA InvInit == Init => Sound
<1> SUFFICES ASSUME Init PROVE Sound OBVIOUS
<1>1. Types /\ Locked BY ThreadsAssumption DEF Init, Types, LocalTypes, PCs, Locked, LockedPCs
<1>2. Counted /\ NotStale /\ HasTable BY DEF Init, Counted, NotStale, HasTable, TablePCs
<1>3. Owned /\ Sized BY DEF Init, Owned, Frees, Sized
<1>4. Args BY DEF Init, Args, InsertPCs, SearchPCs
<1>5. Room BY DEF Init, Room
<1> QED BY <1>1, <1>2, <1>3, <1>4, <1>5 DEF Sound

\* Where the table is left alone, so is the room in it, unless a thread goes
\* on to insert: then less than two thirds are filled.
LEMMA RoomNext ==
  ASSUME Types, Counted, Room, NEW t \in Thread, NEW from \in PCs, NEW to \in PCs, Goto(t, from, to),
         cramped => cramped',
         to \in FlightPCs => from \in FlightPCs \/ cramped' \/ 3 * ma_fill < 2 * ma_size,
         UNCHANGED <<ma_table, ma_size, ma_fill>>
  PROVE  Room'
<1>0. pc \in [Thread -> PCs] BY DEF Types
<1>1. ma_size \in Nat /\ ma_fill \in Nat BY CountersNat
<1>2. /\ Cardinality(InFlight') \in Nat /\ Cardinality(InFlight') <= Cardinality(Thread)
      /\ (to \in FlightPCs => from \in FlightPCs) => Cardinality(InFlight') <= Cardinality(InFlight)
  BY <1>0, FlightNext
<1>3. Cardinality(InFlight) \in Nat /\ Cardinality(Thread) \in Nat BY FlightNat
<1>4. CASE to \in FlightPCs => from \in FlightPCs
  <2>1. Cardinality(InFlight') <= Cardinality(InFlight) BY <1>2, <1>4
  <2>2. CASE cramped \/ ma_table = NULL BY <2>2 DEF Room
  <2>3. CASE 3 * (ma_fill + Cardinality(InFlight)) < 2 * ma_size + 3 * Cardinality(Thread)
    <3>1. 3 * (ma_fill' + Cardinality(InFlight')) < 2 * ma_size' + 3 * Cardinality(Thread)
      BY <1>1, <1>2, <1>3, <2>1, <2>3
    <3> QED BY <3>1 DEF Room
  <2> QED BY <2>2, <2>3 DEF Room
<1>5. CASE cramped' BY <1>5 DEF Room
<1>6. CASE 3 * ma_fill < 2 * ma_size
  <2>1. 3 * (ma_fill' + Cardinality(InFlight')) < 2 * ma_size' + 3 * Cardinality(Thread)
    BY <1>1, <1>2, <1>3, <1>6
  <2> QED BY <2>1 DEF Room
<1> QED BY <1>4, <1>5, <1>6

\* A step that changes neither the table nor the heap: a call, a lock taken,
\* a test, a lookup, a list of keys.
LEMMA InvQuiet ==
  ASSUME Sound, NEW t \in Thread, NEW from \in PCs, NEW to \in PCs, Goto(t, from, to),
         Locks(t, from, to), Alone(t), LocalTypes', from # "resize_free", to # "resize_free",
         to \in TablePCs => ma_table # NULL,
         to \in {"resize_table", "resize_lock", "resize"} => oldsize'[t] = ma_size,
         to \in {"resize_lock", "resize"} => oldtable'[t] = ma_table,
         to \in InsertPCs => key'[t] \in Key /\ value'[t] \in Value,
         to \in SearchPCs => key'[t] \in Key,
         cramped => cramped',
         to \in FlightPCs => from \in FlightPCs \/ cramped' \/ 3 * ma_fill < 2 * ma_size,
         UNCHANGED <<mp, heap>>
  PROVE  Sound'
<1>0. UNCHANGED <<ma_table, ma_size, ma_fill, ma_used, heap>> BY DEF mp
<1>1. Types /\ Locked /\ Counted /\ NotStale /\ HasTable /\ Owned /\ Sized /\ Args /\ Room BY DEF Sound
<1>2. /\ pc[t] = from /\ pc' = [pc EXCEPT ![t] = to] /\ pc \in [Thread -> PCs]
  BY <1>1 DEF Types, Goto
<1>3. pc'[t] = to /\ \A u \in Thread : u # t => pc'[u] = pc[u] BY <1>2
<1>4. Locked' /\ holder' \in Thread \cup {NULL} BY <1>1, LockedNext
<1>5. Types' BY <1>0, <1>1, <1>2, <1>4 DEF Types
<1>6. Counted' BY <1>0, <1>1 DEF Counted
<1>7. NotStale' BY <1>0, <1>1, <1>3 DEF NotStale, Alone
<1>8. HasTable' BY <1>0, <1>1, <1>3 DEF HasTable
<1>9. \A u \in Thread, a \in Addr : Frees(u, a)' <=> Frees(u, a) BY <1>2, <1>3 DEF Frees, Alone
<1>10. Owned' BY <1>0, <1>1, <1>9 DEF Owned
<1>11. Sized' BY <1>0, <1>1 DEF Sized
<1>12. Args' BY <1>1, ArgsNext
<1>13. Room' BY <1>0, <1>1, RoomNext
<1> QED BY <1>4, <1>5, <1>6, <1>7, <1>8, <1>10, <1>11, <1>12, <1>13 DEF Sound

\* A step that changes what is in the table.
LEMMA InvWrite ==
  ASSUME Sound, NEW t \in Thread, NEW from \in LockedPCs, Goto(t, from, "idle"), holder' = NULL,
         Alone(t), LocalTypes', ma_table # NULL, NEW new, heap' = [heap EXCEPT ![ma_table] = new],
         Counts(new, ma_size, ma_fill', ma_used'), Room', UNCHANGED <<ma_table, ma_size>>
  PROVE  Sound'
<1>1. Types /\ Locked /\ NotStale /\ HasTable /\ Owned /\ Sized /\ Args BY DEF Sound
<1>2. from \in PCs /\ "idle" \in PCs /\ "idle" \notin LockedPCs /\ from # "resize_free"
  BY DEF LockedPCs, PCs
<1>3. /\ pc[t] = from /\ pc' = [pc EXCEPT ![t] = "idle"] /\ pc \in [Thread -> PCs]
      /\ ma_table \in Addr /\ DOMAIN heap = Addr
  BY <1>1 DEF Types, Goto
<1>4. pc'[t] = "idle" /\ \A u \in Thread : u # t => pc'[u] = pc[u] BY <1>3
<1>5. heap'[ma_table] = new /\ DOMAIN heap' = Addr /\ \A a \in Addr : a # ma_table => heap'[a] = heap[a]
  BY <1>3
<1>6. Locked' /\ holder' \in Thread \cup {NULL} BY <1>1, <1>2, LockedNext DEF Locks
<1>7. Types' BY <1>1, <1>2, <1>3, <1>5, <1>6 DEF Types
<1>8. Counted' BY <1>5 DEF Counted
<1>9. NotStale' BY <1>1, <1>4 DEF NotStale, Alone
<1>10. HasTable' BY DEF HasTable
<1>11. ma_size \in Sizes /\ new \in Tables(ma_size) BY DEF Counts, Hashed
<1>12. \A u \in Thread, a \in Addr : Frees(u, a)' <=> Frees(u, a) BY <1>2, <1>3, <1>4 DEF Frees, Alone
<1>13. Owned' BY <1>1, <1>5, <1>12 DEF Owned
<1>14. Sized' BY <1>1, <1>5, <1>11 DEF Sized
<1>15. Args' BY <1>1, <1>2, ArgsNext DEF InsertPCs, SearchPCs
<1> QED BY <1>6, <1>7, <1>8, <1>9, <1>10, <1>13, <1>14, <1>15 DEF Sound

\* What the program sees.
Now == Contents(Table)

\* What a return does to the local variables.
LEMMA Returned ==
  ASSUME Types, NEW t \in Thread, NEW from, NEW r, Return(t, from, r)
  PROVE  /\ Goto(t, from, "idle") /\ Alone(t) /\ LocalTypes' /\ pc[t] = from
         /\ UNCHANGED <<oldtable, oldsize>> /\ result' = [result EXCEPT ![t] = r]
<1>1. /\ key' = [key EXCEPT ![t] = NULL] /\ value' = [value EXCEPT ![t] = NULL]
      /\ len' = [len EXCEPT ![t] = 0] /\ UNCHANGED <<oldtable, oldsize>> /\ Goto(t, from, "idle")
      /\ result' = [result EXCEPT ![t] = r]
  BY DEF Return
<1>2. LocalTypes BY DEF Types
<1>3. Alone(t) /\ LocalTypes' BY <1>1, <1>2 DEF Alone, LocalTypes
<1> QED BY <1>1, <1>3 DEF Goto

\* The table that insertmapping, mappingremove and mappinglookup search.
LEMMA TableFound ==
  ASSUME Sound, NEW t \in Thread, NEW from \in {"insert", "remove", "lookup", "has_key"}, Finds(t, from)
  PROVE  /\ Table = heap[ma_table] /\ ma_table # NULL /\ key[t] \in Key
         /\ Counts(Table, ma_size, ma_fill, ma_used) /\ Stops(Table, key[t]) # {}
<1>1. pc[t] = from /\ ma_table # NULL /\ Stops(Table, key[t]) # {} BY DEF Finds
<1>2. Table = heap[ma_table] BY <1>1 DEF Table
<1>3. key[t] \in Key BY <1>1 DEF Sound, Args, InsertPCs, SearchPCs
<1> QED BY <1>1, <1>2, <1>3 DEF Sound, Counted

\* insertmapping stores the value under the key, in a slot that may have been
\* free.
LEMMA InsertStep ==
  ASSUME Sound, NEW t \in Thread, InsertDo(t)
  PROVE  Sound' /\ Now' = [Now EXCEPT ![key[t]] = value[t]]
<1> DEFINE tab == Table
           k == key[t]
           v == value[t]
           i == Look(tab, k)
           new == Insert(tab, k, v)
           n == ma_size
<1>1. /\ Finds(t, "insert") /\ Return(t, "insert", Done) /\ holder' = NULL
      /\ heap' = [heap EXCEPT ![ma_table] = new]
      /\ ma_fill' = (IF tab[i].key = NULL THEN ma_fill + 1 ELSE ma_fill)
      /\ ma_used' = (IF tab[i].value = NULL THEN ma_used + 1 ELSE ma_used)
      /\ UNCHANGED <<ma_table, ma_size>>
  BY DEF InsertDo, Used
<1>2. cramped' = cramped BY Zenon DEF InsertDo, history
<1>3. /\ ma_table # NULL /\ k \in Key /\ Counts(tab, n, ma_fill, ma_used) /\ Stops(tab, k) # {}
      /\ tab = heap[ma_table]
  BY <1>1, TableFound
<1>4. Types /\ Counted /\ Room BY DEF Sound
<1>5. /\ Goto(t, "insert", "idle") /\ Alone(t) /\ LocalTypes' /\ pc[t] = "insert" BY <1>1, <1>4, Returned
<1>6. v \in Value /\ v # NULL /\ k # NULL BY <1>3, <1>5, TableAssumption DEF Sound, Args, InsertPCs
<1>7. n \in Sizes /\ tab \in Hashed(n) /\ ma_fill = Cardinality(NonNull(tab)) /\ ma_used = Cardinality(Items(tab))
  BY <1>3 DEF Counts
<1>8. n \in Nat /\ ma_fill \in Nat /\ ma_used \in Nat BY <1>4, CountersNat
<1> HIDE DEF tab, k, v, n
<1>9. i \in 0 .. n - 1 BY <1>3, <1>7, LookFinds
<1>10. /\ new \in Hashed(n) /\ new[i] = [key |-> k, value |-> v]
       /\ \A j \in 0 .. n - 1 : j # i => new[j] = tab[j]
  BY <1>3, <1>6, <1>7, InsertHashed
<1>11. Contents(new) = [Contents(tab) EXCEPT ![k] = v] BY <1>3, <1>6, <1>7, ContentsInsert
<1> HIDE DEF i, new
<1>12. DOMAIN tab = 0 .. n - 1 /\ DOMAIN new = 0 .. n - 1 BY <1>7, <1>10, HashedUnique
<1>13. OneSlot(n, tab, new, i) BY <1>9, <1>10, <1>12 DEF OneSlot
<1>14. /\ Cardinality(NonNull(new)) = Cardinality(NonNull(tab))
            + (IF new[i].key # NULL THEN 1 ELSE 0) - (IF tab[i].key # NULL THEN 1 ELSE 0)
       /\ Cardinality(Items(new)) = Cardinality(Items(tab))
            + (IF new[i].value # NULL THEN 1 ELSE 0) - (IF tab[i].value # NULL THEN 1 ELSE 0)
  BY <1>8, <1>13, SlotChanges
<1>15. Cardinality(NonNull(new)) = ma_fill' /\ Cardinality(Items(new)) = ma_used'
  BY <1>1, <1>6, <1>7, <1>8, <1>10, <1>14
<1>16. Counts(new, n, ma_fill', ma_used') BY <1>7, <1>10, <1>15 DEF Counts
<1>17. Room'
  <2>1. "insert" \in PCs /\ "idle" \in PCs /\ "insert" \in FlightPCs /\ "idle" \notin FlightPCs
    BY DEF PCs, FlightPCs
  <2>2. pc \in [Thread -> PCs] BY <1>4 DEF Types
  <2>3. Cardinality(InFlight') \in Nat /\ Cardinality(InFlight') <= Cardinality(InFlight) - 1
    BY <1>5, <2>1, <2>2, FlightNext
  <2>4. Cardinality(InFlight) \in Nat /\ Cardinality(Thread) \in Nat BY FlightNat
  <2>5. CASE cramped
    <3>1. cramped' BY <1>2, <2>5, Zenon
    <3> QED BY <3>1 DEF Room
  <2>6. CASE 3 * (ma_fill + Cardinality(InFlight)) < 2 * ma_size + 3 * Cardinality(Thread)
    <3>1. ma_fill' \in Nat /\ ma_fill' <= ma_fill + 1 BY <1>1, <1>8
    <3>2. 3 * (ma_fill' + Cardinality(InFlight')) < 2 * ma_size' + 3 * Cardinality(Thread)
      BY <1>1, <1>8, <2>3, <2>4, <2>6, <3>1 DEF n
    <3> QED BY <3>2 DEF Room
  <2> QED BY <1>3, <1>4, <2>5, <2>6 DEF Room
<1>18. "insert" \in LockedPCs BY DEF LockedPCs
<1>19. Sound' BY <1>1, <1>3, <1>5, <1>16, <1>17, <1>18, InvWrite DEF n
<1>20. Table' = new
  <2>1. ma_table \in Addr /\ DOMAIN heap = Addr BY <1>3, <1>4 DEF Types
  <2>2. heap'[ma_table'] = new /\ ma_table' # NULL BY <1>1, <1>3, <2>1
  <2> QED BY <2>2 DEF Table
<1> QED BY <1>11, <1>19, <1>20 DEF Now, tab, k, v

\* Nothing changes but that t returns.
LEMMA InvReturn ==
  ASSUME Sound, NEW t \in Thread, NEW from \in PCs, from # "resize_free", NEW r, Return(t, from, r),
         from \in LockedPCs => holder' = NULL, from \notin LockedPCs => holder' = holder,
         UNCHANGED <<mp, heap>>, cramped' = cramped
  PROVE  Sound'
<1>1. Types BY DEF Sound
<1>2. Goto(t, from, "idle") /\ Alone(t) /\ LocalTypes' BY <1>1, Returned
<1>3. /\ "idle" \in PCs
      /\ "idle" \notin LockedPCs \cup TablePCs \cup InsertPCs \cup SearchPCs \cup FlightPCs
  BY DEF PCs, LockedPCs, TablePCs, InsertPCs, SearchPCs, FlightPCs
<1>4. Locks(t, from, "idle") BY <1>3 DEF Locks
<1>5. cramped => cramped' BY Zenon
<1> QED BY <1>2, <1>3, <1>4, <1>5, InvQuiet

\* A step that leaves the table alone.
LEMMA SameNow ==
  ASSUME UNCHANGED <<mp, heap>>
  PROVE  Now' = Now
BY DEF mp, Now, Table

\* mappingremove puts a dummy in the place of the item, or finds none.
LEMMA RemoveStep ==
  ASSUME Sound, NEW t \in Thread, RemoveDo(t)
  PROVE  /\ Sound'
         /\ \/ /\ Now[key[t]] # NULL /\ Now' = [Now EXCEPT ![key[t]] = NULL]
               /\ result' = [result EXCEPT ![t] = Done]
            \/ /\ Now[key[t]] = NULL /\ Now' = Now
               /\ result' = [result EXCEPT ![t] = KeyError]
<1> DEFINE tab == Table
           k == key[t]
           i == Look(tab, k)
           new == Vacated(tab, i)
           n == ma_size
<1>1. /\ Finds(t, "remove") /\ holder' = NULL /\ UNCHANGED <<ma_table, ma_size, ma_fill>>
      /\ \/ /\ tab[i].value = NULL /\ Return(t, "remove", KeyError) /\ UNCHANGED <<heap, ma_used>>
         \/ /\ tab[i].value # NULL /\ Return(t, "remove", Done)
            /\ heap' = [heap EXCEPT ![ma_table] = new] /\ ma_used' = ma_used - 1
  BY DEF RemoveDo
<1>2. cramped' = cramped BY Zenon DEF RemoveDo, history
<1>3. /\ ma_table # NULL /\ k \in Key /\ Counts(tab, n, ma_fill, ma_used) /\ Stops(tab, k) # {}
      /\ tab = heap[ma_table]
  BY <1>1, TableFound
<1>4. Types /\ Counted /\ Room BY DEF Sound
<1>5. n \in Sizes /\ tab \in Hashed(n) /\ ma_fill = Cardinality(NonNull(tab)) /\ ma_used = Cardinality(Items(tab))
  BY <1>3 DEF Counts
<1>6. n \in Nat /\ ma_fill \in Nat /\ ma_used \in Nat BY <1>4, CountersNat
<1>7. Now[k] = tab[i].value BY <1>3, <1>5, ContentsLook DEF Now
<1>8. "remove" \in PCs /\ "remove" \in LockedPCs BY DEF PCs, LockedPCs
<1>9. CASE tab[i].value = NULL
  <2>1. Return(t, "remove", KeyError) /\ UNCHANGED <<mp, heap>> BY <1>1, <1>9 DEF mp
  <2>2. Sound' BY <1>1, <1>2, <1>8, <2>1, InvReturn
  <2>3. result' = [result EXCEPT ![t] = KeyError] BY <1>4, <2>1, Returned
  <2>4. Now' = Now BY <2>1, SameNow
  <2> QED BY <1>7, <1>9, <2>2, <2>3, <2>4
<1>10. CASE tab[i].value # NULL
  <2>1. /\ Return(t, "remove", Done) /\ heap' = [heap EXCEPT ![ma_table] = new] /\ ma_used' = ma_used - 1
    BY <1>1, <1>10
  <2>2. /\ Goto(t, "remove", "idle") /\ Alone(t) /\ LocalTypes' /\ result' = [result EXCEPT ![t] = Done]
    BY <1>4, <2>1, Returned
  <2> HIDE DEF tab, k, n
  <2>3. i \in 0 .. n - 1 /\ tab[i].key = k BY <1>3, <1>5, <1>10, LookFinds
  <2>4. /\ new \in Hashed(n) /\ new[i] = [key |-> Dummy, value |-> NULL]
        /\ \A j \in 0 .. n - 1 : j # i => new[j] = tab[j]
    <3> HIDE DEF i
    <3> QED BY <1>5, <1>10, <2>3, VacatedHashed DEF Vacated
  <2>5. Contents(new) = [Contents(tab) EXCEPT ![k] = NULL]
    <3> HIDE DEF i
    <3>1. Contents(new) = [Contents(tab) EXCEPT ![tab[i].key] = NULL]
      BY <1>5, <1>10, <2>3, ContentsVacated DEF Vacated
    <3> QED BY <2>3, <3>1
  <2> HIDE DEF i, new
  <2>6. DOMAIN tab = 0 .. n - 1 /\ DOMAIN new = 0 .. n - 1 BY <1>5, <2>4, HashedUnique
  <2>7. OneSlot(n, tab, new, i) BY <2>3, <2>4, <2>6 DEF OneSlot
  <2>8. /\ Cardinality(NonNull(new)) = Cardinality(NonNull(tab))
             + (IF new[i].key # NULL THEN 1 ELSE 0) - (IF tab[i].key # NULL THEN 1 ELSE 0)
        /\ Cardinality(Items(new)) = Cardinality(Items(tab))
             + (IF new[i].value # NULL THEN 1 ELSE 0) - (IF tab[i].value # NULL THEN 1 ELSE 0)
    BY <1>6, <2>7, SlotChanges
  <2>9. k # NULL /\ Dummy # NULL BY <1>3, TableAssumption
  <2>10. Cardinality(NonNull(new)) = ma_fill' /\ Cardinality(Items(new)) = ma_used'
    BY <1>1, <1>5, <1>6, <1>10, <2>1, <2>3, <2>4, <2>8, <2>9
  <2>11. Counts(new, n, ma_fill', ma_used') BY <1>5, <2>4, <2>10 DEF Counts
  <2>12. "idle" \in PCs /\ "idle" \notin FlightPCs BY DEF PCs, FlightPCs
  <2>13. cramped => cramped' BY <1>2, Zenon
  <2>14. Room' BY <1>1, <1>4, <1>8, <2>2, <2>12, <2>13, RoomNext
  <2>15. Sound' BY <1>1, <1>3, <1>8, <2>1, <2>2, <2>11, <2>14, InvWrite DEF n
  <2>16. Table' = new
    <3>1. ma_table \in Addr /\ DOMAIN heap = Addr BY <1>3, <1>4 DEF Types
    <3>2. heap'[ma_table'] = new /\ ma_table' # NULL BY <1>1, <1>3, <2>1, <3>1
    <3> QED BY <3>2 DEF Table
  <2> QED BY <1>7, <1>10, <2>2, <2>5, <2>15, <2>16 DEF Now, tab, k
<1> QED BY <1>9, <1>10

\* The table that mappingresize copies, and its slots.
LEMMA TableShape ==
  ASSUME Sound
  PROVE  /\ Table \in Tables(ma_size) /\ SizeOf(Table) = ma_size /\ Unique(Table)
         /\ Cardinality(Items(Table)) = ma_used /\ ma_size \in Nat /\ ma_used \in Nat
<1>0. ma_size \in Nat /\ ma_used \in Nat BY CountersNat DEF Sound
<1>1. CASE ma_table = NULL
  <2>1. ma_size = 0 /\ ma_used = 0 /\ Table = NewTable(0) BY <1>1 DEF Sound, Counted, Table
  <2>2. NewTable(0) \in Tables(0) /\ Unique(NewTable(0)) BY EmptyExact
  <2>3. DOMAIN NewTable(0) = 0 .. 0 - 1 BY <2>2 DEF Tables
  <2>4. SizeOf(NewTable(0)) = 0 BY <2>3, SizeOfTable
  <2>5. Items(NewTable(0)) = {} BY DEF NewTable, Items
  <2> QED BY <1>0, <2>1, <2>2, <2>4, <2>5, FS_EmptySet
<1>2. CASE ma_table # NULL
  <2>1. Table = heap[ma_table] /\ Counts(Table, ma_size, ma_fill, ma_used) BY <1>2 DEF Sound, Counted, Table
  <2>2. ma_size \in Sizes /\ Table \in Hashed(ma_size) /\ Cardinality(Items(Table)) = ma_used
    BY <2>1 DEF Counts
  <2>3. Table \in Tables(ma_size) BY <2>2 DEF Hashed
  <2>4. Unique(Table) /\ DOMAIN Table = 0 .. ma_size - 1 BY <2>2, HashedUnique
  <2> QED BY <1>0, <2>2, <2>3, <2>4, SizeOfTable
<1> QED BY <1>1, <1>2

\* Who has the lock has it alone.
LEMMA HasLock ==
  ASSUME Sound, NEW t \in Thread, pc[t] \in LockedPCs, NEW u \in Thread, u # t
  PROVE  pc[u] \notin LockedPCs
BY DEF Sound, Locked

\* mappingresize moves the items of the table it read before it locked: nobody
\* has replaced or cleared that since.  The program sees no change.
LEMMA ResizeStep ==
  ASSUME Sound, ~outdated', NEW t \in Thread, NEW a \in Addr, Resize(t, a)
  PROVE  Sound' /\ Now' = Now
<1> DEFINE n == NewSize(ma_used)
           tab == Rehash(Table, n)
<1>1. Types /\ Locked /\ NotStale /\ Owned /\ Sized /\ Args BY DEF Sound
<1>2. /\ Goto(t, "resize", "resize_free") /\ HasPrime(ma_used) /\ heap[a] = NULL /\ ma_table' = a
      /\ heap' = [heap EXCEPT ![a] = Copied(t)] /\ ma_size' = SizeOf(Copied(t))
      /\ ma_fill' = Cardinality(NonNull(Copied(t))) /\ ma_used' = Cardinality(Items(Copied(t)))
      /\ holder' = NULL /\ UNCHANGED locals
  BY DEF Resize
<1>3. ~OtherAt(t, Reading) BY Zenon DEF Resize
<1>4. UNCHANGED <<key, value, oldtable, oldsize, len>> BY <1>2 DEF locals
<1>5. /\ pc[t] = "resize" /\ pc' = [pc EXCEPT ![t] = "resize_free"] /\ pc \in [Thread -> PCs]
      /\ DOMAIN heap = Addr /\ a # NULL
  BY <1>1, <1>2, ThreadsAssumption DEF Types, Goto
<1>6. pc'[t] = "resize_free" /\ \A u \in Thread : u # t => pc'[u] = pc[u] BY <1>5
<1>7. oldtable[t] = ma_table /\ oldsize[t] = ma_size BY <1>1, <1>5 DEF NotStale
<1>8. /\ Table \in Tables(ma_size) /\ SizeOf(Table) = ma_size /\ Unique(Table)
      /\ Cardinality(Items(Table)) = ma_used /\ ma_size \in Nat /\ ma_used \in Nat
  BY TableShape
<1>9. Copied(t) = tab BY <1>7, <1>8 DEF Copied, CopiedSlots, Rehash, Table
<1>10. n \in Sizes /\ n > ma_used * 2 BY <1>2, <1>8, NewSizePrime
<1>11. n \in Nat /\ n >= 3 BY <1>10, SizesNat
<1> HIDE DEF n
<1>12. Cardinality(Items(Table)) < n BY <1>8, <1>10, <1>11
<1>13. /\ tab \in Hashed(n) /\ NonNull(tab) = Items(tab) /\ Contents(tab) = Contents(Table)
       /\ \A E \in SUBSET ItemEntry : Cardinality(At(tab, E)) = Cardinality(At(Table, E))
  BY <1>8, <1>10, <1>12, Rehashed
<1> HIDE DEF tab
<1>14. DOMAIN tab = 0 .. n - 1 /\ \A i \in 0 .. n - 1 : tab[i] \in ValidEntry BY <1>10, <1>13, HashedUnique
<1>15. SizeOf(tab) = n BY <1>11, <1>14, SizeOfTable
<1>16. Cardinality(Items(tab)) = ma_used
  <2>1. DOMAIN Table = 0 .. ma_size - 1 /\ \A i \in 0 .. ma_size - 1 : Table[i] \in ValidEntry
    BY <1>8 DEF Tables
  <2>2. Items(tab) = At(tab, ItemEntry) /\ Items(Table) = At(Table, ItemEntry)
    BY <1>14, <2>1 DEF Items, At, ItemEntry
  <2>3. ItemEntry \in SUBSET ItemEntry OBVIOUS
  <2> QED BY <1>8, <1>13, <2>2, <2>3
<1>17. ma_size' = n /\ ma_fill' = ma_used /\ ma_used' = ma_used BY <1>2, <1>9, <1>13, <1>15, <1>16
<1>18. heap'[a] = tab /\ DOMAIN heap' = Addr /\ \A b \in Addr : b # a => heap'[b] = heap[b]
  BY <1>2, <1>5, <1>9
<1>19. Counts(tab, n, ma_fill', ma_used') BY <1>10, <1>13, <1>16, <1>17 DEF Counts
<1>20. /\ "resize" \in PCs /\ "resize_free" \in PCs /\ "resize" \in LockedPCs /\ "resize_free" \notin LockedPCs
  BY DEF PCs, LockedPCs
<1>21. Locked' /\ holder' \in Thread \cup {NULL} BY <1>1, <1>2, <1>20, LockedNext DEF Locks
<1>22. Types' BY <1>1, <1>2, <1>4, <1>5, <1>18, <1>20, <1>21 DEF Types, LocalTypes
<1>23. Counted' BY <1>2, <1>5, <1>17, <1>18, <1>19 DEF Counted
<1>24. NotStale'
  <2> SUFFICES ASSUME NEW u \in Thread, pc'[u] \in {"resize_table", "resize_lock", "resize"} PROVE FALSE
    BY DEF NotStale
  <2>1. u # t /\ pc[u] = pc'[u] BY <1>6
  <2>2. pc[u] # "resize" BY <1>5, <1>20, <2>1, HasLock
  <2> QED BY <1>3, <2>1, <2>2 DEF OtherAt, Reading
<1>25. HasTable' BY <1>2, <1>5 DEF HasTable
<1>26. tab # NULL BY <1>10, <1>13, NoNullTable DEF Hashed
<1>27. Owned'
  <2>1. \A u \in Thread, b \in Addr : Frees(u, b)' <=> (u = t /\ b = ma_table) \/ Frees(u, b)
    BY <1>4, <1>5, <1>6, <1>7 DEF Frees
  <2>2. ma_table # NULL => ma_table \in Addr /\ heap[ma_table] # NULL
    <3>1. ma_table # NULL => ma_size \in Sizes /\ Table = heap[ma_table]
      BY DEF Sound, Counted, Counts, Table
    <3> QED BY <1>1, <1>8, <3>1, NoNullTable DEF Types
  <2>3. a # ma_table BY <1>2, <1>5, <2>2
  <2>4. NULL \notin Addr BY ThreadsAssumption
  <2>5. \A b \in Addr : heap'[b] # NULL => b = ma_table' \/ \E u \in Thread : Frees(u, b)'
    BY <1>1, <1>2, <1>18, <2>1 DEF Owned
  <2>6. \A b \in Addr, u \in Thread : Frees(u, b)' => b # ma_table' /\ heap'[b] # NULL
    BY <1>1, <1>2, <1>18, <2>1, <2>2, <2>3, <2>4 DEF Owned
  <2>7. \A b \in Addr, u, w \in Thread : Frees(u, b)' /\ Frees(w, b)' => u = w
    BY <1>1, <2>1 DEF Owned
  <2> QED BY <2>5, <2>6, <2>7 DEF Owned
<1>28. Sized'
  <2>1. tab \in Tables(n) BY <1>13 DEF Hashed
  <2> QED BY <1>1, <1>10, <1>18, <2>1 DEF Sized
<1>29. Args' BY <1>1, <1>4, <1>5, <1>6 DEF Args, InsertPCs, SearchPCs
<1>30. Room'
  <2>1. Cardinality(InFlight') \in Nat /\ Cardinality(InFlight') <= Cardinality(Thread)
    BY <1>2, <1>5, <1>20, FlightNext
  <2>2. Cardinality(Thread) \in Nat BY FlightNat
  <2>3. 3 * (ma_fill' + Cardinality(InFlight')) < 2 * ma_size' + 3 * Cardinality(Thread)
    BY <1>8, <1>10, <1>11, <1>17, <2>1, <2>2
  <2> QED BY <2>3 DEF Room
<1>31. Table' = tab BY <1>2, <1>5, <1>18 DEF Table
<1>32. Now' = Now BY <1>13, <1>31 DEF Now
<1> QED BY <1>21, <1>22, <1>23, <1>24, <1>25, <1>27, <1>28, <1>29, <1>30, <1>32 DEF Sound

\* XDEL(oldtable) frees that table and nothing else.
LEMMA ResizeFreeStep ==
  ASSUME Sound, NEW t \in Thread, ResizeFree(t)
  PROVE  Sound' /\ Now' = Now
<1>1. Types /\ Locked /\ Counted /\ NotStale /\ HasTable /\ Owned /\ Sized /\ Args /\ Room BY DEF Sound
<1>2. /\ Goto(t, "resize_free", "insert_lock") /\ UNCHANGED <<ma_table, ma_size, ma_fill, ma_used>>
      /\ UNCHANGED <<holder, key, value, len>>
      /\ heap' = [a \in Addr |-> IF a = oldtable[t] THEN NULL ELSE heap[a]]
      /\ oldtable' = [oldtable EXCEPT ![t] = NULL] /\ oldsize' = [oldsize EXCEPT ![t] = 0]
  BY DEF ResizeFree, Freed, mp
<1>3. cramped' = cramped BY Zenon DEF ResizeFree, history
<1>4. /\ pc[t] = "resize_free" /\ pc' = [pc EXCEPT ![t] = "insert_lock"] /\ pc \in [Thread -> PCs]
      /\ ma_table \in Addr \cup {NULL} /\ LocalTypes
  BY <1>1, <1>2 DEF Types, Goto
<1>5. pc'[t] = "insert_lock" /\ \A u \in Thread : u # t => pc'[u] = pc[u] BY <1>4
<1>6. Alone(t) /\ LocalTypes' /\ oldtable'[t] = NULL BY <1>2, <1>4 DEF Alone, LocalTypes
<1>7. /\ "insert_lock" \in PCs /\ "resize_free" \in PCs /\ "insert_lock" \notin LockedPCs
      /\ "resize_free" \notin LockedPCs /\ "insert_lock" \in FlightPCs /\ "resize_free" \in FlightPCs
  BY DEF PCs, LockedPCs, FlightPCs
<1>8. Locked' /\ holder' \in Thread \cup {NULL} BY <1>1, <1>2, <1>7, LockedNext DEF Locks
<1>9. Types' BY <1>2, <1>4, <1>6, <1>7, <1>8 DEF Types
<1>10. ma_table # NULL => ma_table # oldtable[t] BY <1>1, <1>4 DEF Owned, Frees
<1>11. ma_table # NULL => heap'[ma_table] = heap[ma_table] BY <1>2, <1>4, <1>10
<1>12. Counted' BY <1>1, <1>2, <1>11 DEF Counted
<1>13. NotStale' BY <1>1, <1>2, <1>5, <1>6 DEF NotStale, Alone
<1>14. HasTable' BY <1>1, <1>2, <1>4, <1>5 DEF HasTable, TablePCs
<1>15. Owned'
  <2>1. \A u \in Thread, a \in Addr : Frees(u, a)' <=> u # t /\ Frees(u, a)
    BY <1>5, <1>6 DEF Frees, Alone
  <2>2. \A a \in Addr : a = oldtable[t] <=> Frees(t, a) BY <1>4 DEF Frees
  <2>3. \A a \in Addr : heap'[a] # NULL => a = ma_table' \/ \E u \in Thread : Frees(u, a)'
    BY <1>1, <1>2, <2>1, <2>2 DEF Owned
  <2>4. \A a \in Addr, u \in Thread : Frees(u, a)' => a # ma_table' /\ heap'[a] # NULL
    BY <1>1, <1>2, <2>1, <2>2 DEF Owned
  <2>5. \A a \in Addr, u, w \in Thread : Frees(u, a)' /\ Frees(w, a)' => u = w
    BY <1>1, <2>1 DEF Owned
  <2> QED BY <2>3, <2>4, <2>5 DEF Owned
<1>16. Sized' BY <1>1, <1>2 DEF Sized
<1>17. Args' BY <1>1, <1>2, <1>4, <1>5 DEF Args, InsertPCs, SearchPCs
<1>18. cramped => cramped' BY <1>3, Zenon
<1>19. Room' BY <1>1, <1>2, <1>7, <1>18, RoomNext
<1>20. Now' = Now BY <1>2, <1>11 DEF Now, Table
<1> QED BY <1>8, <1>9, <1>12, <1>13, <1>14, <1>15, <1>16, <1>17, <1>19, <1>20 DEF Sound

\* mappingclear takes the table from nobody who relies on it.
LEMMA ClearStep ==
  ASSUME Sound, ~outdated', NEW t \in Thread, ClearDo(t)
  PROVE  Sound' /\ Now' = [k \in Key |-> NULL]
<1>1. Types /\ Locked /\ Counted /\ NotStale /\ HasTable /\ Owned /\ Sized /\ Args /\ Room BY DEF Sound
<1>2. /\ Return(t, "clear", Done) /\ holder' = NULL
      /\ ma_table' = NULL /\ ma_size' = 0 /\ ma_fill' = 0 /\ ma_used' = 0
      /\ heap' = [a \in Addr |-> IF a = ma_table THEN NULL ELSE heap[a]]
  BY DEF ClearDo
<1>3. ma_table = NULL \/ ~OtherAt(t, Relying) BY Zenon DEF ClearDo
<1>4. /\ Goto(t, "clear", "idle") /\ Alone(t) /\ LocalTypes' /\ pc[t] = "clear" BY <1>1, <1>2, Returned
<1>5. pc' = [pc EXCEPT ![t] = "idle"] /\ pc \in [Thread -> PCs] BY <1>1, <1>4 DEF Goto, Types
<1>6. pc'[t] = "idle" /\ \A u \in Thread : u # t => pc'[u] = pc[u] BY <1>5
<1>7. "clear" \in PCs /\ "idle" \in PCs /\ "clear" \in LockedPCs /\ "idle" \notin LockedPCs
  BY DEF PCs, LockedPCs
<1>8. Locked' /\ holder' \in Thread \cup {NULL} BY <1>1, <1>2, <1>4, <1>7, LockedNext DEF Locks
<1>9. Types' BY <1>2, <1>4, <1>5, <1>7, <1>8 DEF Types
<1>10. Counted' BY <1>2 DEF Counted
<1>11. ma_table # NULL => \A u \in Thread : pc'[u] \notin TablePCs \cup {"resize_table", "resize_lock", "resize"}
  <2> SUFFICES ASSUME ma_table # NULL, NEW u \in Thread, u # t
               PROVE  pc[u] \notin TablePCs \cup {"resize_table", "resize_lock", "resize"}
    BY <1>6 DEF TablePCs
  <2>1. pc[u] \notin LockedPCs BY <1>4, <1>7, HasLock
  <2>2. pc[u] \notin Relying BY <1>3 DEF OtherAt
  <2> QED BY <2>1, <2>2 DEF TablePCs, LockedPCs, Relying, Reading
<1>12. ma_table = NULL => ma_size = 0 BY <1>1 DEF Counted
<1>13. HasTable' BY <1>1, <1>2, <1>6, <1>11 DEF HasTable, TablePCs
<1>14. NotStale'
  <2>1. CASE ma_table = NULL BY <1>1, <1>2, <1>4, <1>6, <1>12, <2>1 DEF NotStale, Alone
  <2>2. CASE ma_table # NULL BY <1>11, <2>2 DEF NotStale
  <2> QED BY <2>1, <2>2
<1>15. Owned'
  <2>1. \A u \in Thread, a \in Addr : Frees(u, a)' <=> Frees(u, a)
    BY <1>4, <1>6 DEF Frees, Alone
  <2>2. \A u \in Thread, a \in Addr : Frees(u, a) => a # ma_table /\ a # NULL
    BY <1>1, ThreadsAssumption DEF Owned
  <2> QED BY <1>1, <1>2, <2>1, <2>2 DEF Owned
<1>16. Sized' BY <1>1, <1>2 DEF Sized
<1>17. Args' BY <1>1, <1>4, <1>7, ArgsNext DEF InsertPCs, SearchPCs
<1>18. Room' BY <1>2 DEF Room
<1>19. Table' = NewTable(0) BY <1>2 DEF Table
<1>20. Now' = [k \in Key |-> NULL] BY <1>19, EmptyExact DEF Now
<1> QED BY <1>8, <1>9, <1>10, <1>13, <1>14, <1>15, <1>16, <1>17, <1>18, <1>20 DEF Sound

\* The calls, and where they begin.
LEMMA Called ==
  ASSUME NEW t \in Thread, Call_(t)
  PROVE  \E to \in PCs, k \in Key \cup {NULL}, v \in Value \cup {NULL} :
           /\ Call(t, to, k, v)
           /\ \/ to = "insert_check" /\ k \in Key /\ v \in Value /\ len' = len
              \/ to \in {"remove_check", "lookup_check", "has_key_lock"} /\ k \in Key /\ len' = len
              \/ to = "clear_lock" /\ len' = len
              \/ to = "keys_lock" /\ len' = [len EXCEPT ![t] = ma_used]
<1>0. {"insert_check", "remove_check", "lookup_check", "has_key_lock", "clear_lock", "keys_lock"} \in SUBSET PCs
  BY DEF PCs
<1>1. CASE ClearCall(t)
  <2>1. Call(t, "clear_lock", NULL, NULL) /\ len' = len BY <1>1 DEF ClearCall
  <2> QED BY <1>0, <2>1
<1>2. CASE KeysCall(t)
  <2>1. Call(t, "keys_lock", NULL, NULL) /\ len' = [len EXCEPT ![t] = ma_used] BY <1>2 DEF KeysCall
  <2> QED BY <1>0, <2>1
<1>3. ASSUME NEW k \in Key, RemoveCall(t, k) \/ LookupCall(t, k) \/ HasKeyCall(t, k)
      PROVE  \E to \in {"remove_check", "lookup_check", "has_key_lock"} : Call(t, to, k, NULL) /\ len' = len
  BY <1>3 DEF RemoveCall, LookupCall, HasKeyCall
<1>4. ASSUME NEW k \in Key, NEW v \in Value, InsertCall(t, k, v)
      PROVE  Call(t, "insert_check", k, v) /\ len' = len
  BY <1>4 DEF InsertCall
<1>5. CASE \E k \in Key : RemoveCall(t, k) \/ LookupCall(t, k) \/ HasKeyCall(t, k) BY <1>0, <1>3, <1>5
<1>6. CASE \E k \in Key, v \in Value : InsertCall(t, k, v) BY <1>0, <1>4, <1>6
<1> QED BY <1>1, <1>2, <1>5, <1>6 DEF Call_

\* A call.
LEMMA InvCall ==
  ASSUME Sound, NEW t \in Thread, Call_(t)
  PROVE  Sound' /\ UNCHANGED <<mp, heap>> /\ Alone(t)
<1>0. Types /\ Counted BY DEF Sound
<1>1. PICK to \in PCs, k \in Key \cup {NULL}, v \in Value \cup {NULL} :
           /\ Call(t, to, k, v)
           /\ \/ to = "insert_check" /\ k \in Key /\ v \in Value /\ len' = len
              \/ to \in {"remove_check", "lookup_check", "has_key_lock"} /\ k \in Key /\ len' = len
              \/ to = "clear_lock" /\ len' = len
              \/ to = "keys_lock" /\ len' = [len EXCEPT ![t] = ma_used]
  BY Called
<1>2. /\ Goto(t, "idle", to) /\ key' = [key EXCEPT ![t] = k] /\ value' = [value EXCEPT ![t] = v]
      /\ UNCHANGED <<mp, heap, holder, oldtable, oldsize>>
  BY <1>1 DEF Call
<1>3. cramped' = cramped BY <1>1, Zenon DEF Call, history
<1>4. LocalTypes /\ ma_used \in Nat BY <1>0, CountersNat DEF Types
<1>5. len' \in [Thread -> Nat] /\ \A u \in Thread : u # t => len'[u] = len[u] BY <1>1, <1>4 DEF LocalTypes
<1>6. Alone(t) /\ LocalTypes' /\ key'[t] = k /\ value'[t] = v BY <1>2, <1>4, <1>5 DEF Alone, LocalTypes
<1>7. to \in {"insert_check", "remove_check", "lookup_check", "has_key_lock", "clear_lock", "keys_lock"}
  BY <1>1
<1>8. /\ "idle" \in PCs /\ "idle" \notin LockedPCs /\ to \notin LockedPCs \cup TablePCs \cup FlightPCs
      /\ to \notin {"resize_table", "resize_lock", "resize", "resize_free"}
  BY <1>7 DEF PCs, LockedPCs, TablePCs, FlightPCs
<1>9. /\ to \in InsertPCs => key'[t] \in Key /\ value'[t] \in Value
      /\ to \in SearchPCs => key'[t] \in Key
  BY <1>1, <1>6 DEF InsertPCs, SearchPCs
<1>10. Locks(t, "idle", to) BY <1>2, <1>8 DEF Locks
<1>11. cramped => cramped' BY <1>3, Zenon
<1>12. Sound' BY <1>2, <1>6, <1>8, <1>9, <1>10, <1>11, InvQuiet
<1> QED BY <1>2, <1>6, <1>12

\* The places where a thread waits for the lock, and where it then is.
LockSteps ==
  {<<"resize_lock", "resize">>, <<"insert_lock", "insert">>, <<"remove_lock", "remove">>,
   <<"clear_lock", "clear">>, <<"lookup_lock", "lookup">>,
   <<"has_key_lock", "has_key">>, <<"keys_lock", "keys">>}

\* A lock taken.
LEMMA InvLock ==
  ASSUME Sound, NEW t \in Thread, NEW from, NEW to, <<from, to>> \in LockSteps, Lock(t, from, to)
  PROVE  Sound'
<1>0. Types /\ Args /\ HasTable /\ NotStale BY DEF Sound
<1>1. /\ Goto(t, from, to) /\ pc[t] = from /\ holder = NULL /\ holder' = t
      /\ UNCHANGED <<mp, heap, key, value, oldtable, oldsize, len>>
  BY DEF Lock, Goto, locals
<1>2. cramped' = cramped BY Zenon DEF Lock, history
<1>3. /\ from \in PCs /\ to \in PCs /\ from \notin LockedPCs /\ to \in LockedPCs
      /\ from # "resize_free" /\ to # "resize_free" /\ (to \in FlightPCs => from \in FlightPCs)
  BY DEF LockSteps, PCs, LockedPCs, FlightPCs
<1>4. /\ to \in TablePCs => from \in TablePCs
      /\ to \in InsertPCs => from \in InsertPCs
      /\ to \in SearchPCs => from \in SearchPCs
      /\ to \in {"resize_table", "resize_lock", "resize"} => from = "resize_lock"
  BY DEF LockSteps, TablePCs, InsertPCs, SearchPCs
<1>5. /\ to \in TablePCs => ma_table # NULL
      /\ to \in {"resize_table", "resize_lock", "resize"} => oldsize'[t] = ma_size
      /\ to \in {"resize_lock", "resize"} => oldtable'[t] = ma_table
      /\ to \in InsertPCs => key'[t] \in Key /\ value'[t] \in Value
      /\ to \in SearchPCs => key'[t] \in Key
  BY <1>0, <1>1, <1>4 DEF HasTable, NotStale, Args
<1>6. Alone(t) /\ LocalTypes' BY <1>0, <1>1 DEF Alone, Types, LocalTypes
<1>7. Locks(t, from, to) BY <1>1, <1>3 DEF Locks
<1>8. cramped => cramped' BY <1>2, Zenon
<1> QED BY <1>1, <1>3, <1>5, <1>6, <1>7, <1>8, InvQuiet

\* A test or a read without the lock, or a resize given up.
Tests(t) ==
  \/ InsertCheck(t) \/ ResizeSize(t) \/ ResizeTable(t) \/ ResizeFails(t) \/ InsertAnyway(t)
  \/ RemoveCheck(t) \/ LookupCheck(t)

\* Where such a step leads.
LEMMA Tested ==
  ASSUME NEW t \in Thread, Tests(t)
  PROVE  /\ \E from, to \in PCs :
              /\ Goto(t, from, to) /\ UNCHANGED <<mp, heap, key, value, len, result>>
              /\ \/ /\ from = "insert_check" /\ to = "resize_size"
                    /\ UNCHANGED <<holder, oldtable, oldsize>>
                 \/ /\ from = "insert_check" /\ to = "insert_lock" /\ ~ResizeNeeded
                    /\ UNCHANGED <<holder, oldtable, oldsize>>
                 \/ /\ from = "resize_size" /\ to = "resize_table"
                    /\ oldsize' = [oldsize EXCEPT ![t] = ma_size]
                    /\ UNCHANGED <<holder, oldtable>>
                 \/ /\ from = "resize_table" /\ to = "resize_lock"
                    /\ oldtable' = [oldtable EXCEPT ![t] = ma_table]
                    /\ UNCHANGED <<holder, oldsize>>
                 \/ /\ from \in {"resize_lock", "resize"} /\ to = "resize_failed"
                    /\ from = "resize_lock" => holder = NULL
                    /\ holder' = NULL
                    /\ oldtable' = [oldtable EXCEPT ![t] = NULL] /\ oldsize' = [oldsize EXCEPT ![t] = 0]
                 \/ /\ from = "resize_failed" /\ to = "insert_lock" /\ ~NoRoom
                    /\ (cramped' \/ ~ResizeNeeded)
                    /\ UNCHANGED <<holder, oldtable, oldsize>>
                 \/ /\ <<from, to>> \in {<<"remove_check", "remove_lock">>, <<"lookup_check", "lookup_lock">>}
                    /\ ma_table # NULL
                    /\ UNCHANGED <<holder, oldtable, oldsize>>
         /\ cramped => cramped'
<1>0. {"insert_check", "resize_size", "resize_table", "resize_lock", "resize", "resize_failed",
       "insert_lock", "remove_check", "remove_lock", "lookup_check", "lookup_lock"} \in SUBSET PCs
  BY DEF PCs
<1>1. cramped => cramped'
  BY Zenon DEF Tests, InsertCheck, ResizeSize, ResizeTable, ResizeFails, InsertAnyway, RemoveCheck,
               LookupCheck, history
<1>2. CASE InsertCheck(t)
  <2>1. UNCHANGED <<mp, heap, key, value, len, result, holder, oldtable, oldsize>>
    BY <1>2 DEF InsertCheck, locals
  <2>2. CASE ResizeNeeded
    <3>1. Goto(t, "insert_check", "resize_size") BY <1>2, <2>2 DEF InsertCheck
    <3> QED BY <1>0, <1>1, <2>1, <3>1
  <2>3. CASE ~ResizeNeeded
    <3>1. Goto(t, "insert_check", "insert_lock") BY <1>2, <2>3 DEF InsertCheck
    <3> QED BY <1>0, <1>1, <2>1, <2>3, <3>1
  <2> QED BY <2>2, <2>3
<1>3. CASE ResizeSize(t) BY <1>0, <1>1, <1>3 DEF ResizeSize
<1>4. CASE ResizeTable(t) BY <1>0, <1>1, <1>4 DEF ResizeTable
<1>5. CASE ResizeFails(t) BY <1>0, <1>1, <1>5 DEF ResizeFails
<1>6. CASE InsertAnyway(t)
  <2>1. /\ Goto(t, "resize_failed", "insert_lock") /\ ~NoRoom
        /\ UNCHANGED <<mp, heap, key, value, len, result, holder, oldtable, oldsize>>
    BY <1>6 DEF InsertAnyway, locals
  <2>2. cramped' \/ ~ResizeNeeded BY <1>6, Zenon DEF InsertAnyway
  <2> QED BY <1>0, <1>1, <2>1, <2>2
<1>7. CASE RemoveCheck(t) \/ LookupCheck(t)
  <2>1. PICK from, to \in PCs : /\ Goto(t, from, to) /\ ma_table # NULL
          /\ <<from, to>> \in {<<"remove_check", "remove_lock">>, <<"lookup_check", "lookup_lock">>}
          /\ UNCHANGED <<mp, heap, key, value, len, result, holder, oldtable, oldsize>>
    BY <1>0, <1>7 DEF RemoveCheck, LookupCheck, locals
  <2> QED BY <1>1, <2>1
<1> QED BY <1>2, <1>3, <1>4, <1>5, <1>6, <1>7 DEF Tests

\* It is true of the table later what the test found, or the read.
LEMMA InvTest ==
  ASSUME Sound, NEW t \in Thread, Tests(t)
  PROVE  Sound'
<1>0. Types /\ Args /\ Counted /\ NotStale BY DEF Sound
<1>1. cramped => cramped' BY Tested
<1>2. PICK from, to \in PCs :
        /\ Goto(t, from, to) /\ UNCHANGED <<mp, heap, key, value, len, result>>
        /\ \/ /\ from = "insert_check" /\ to = "resize_size"
              /\ UNCHANGED <<holder, oldtable, oldsize>>
           \/ /\ from = "insert_check" /\ to = "insert_lock" /\ ~ResizeNeeded
              /\ UNCHANGED <<holder, oldtable, oldsize>>
           \/ /\ from = "resize_size" /\ to = "resize_table"
              /\ oldsize' = [oldsize EXCEPT ![t] = ma_size]
              /\ UNCHANGED <<holder, oldtable>>
           \/ /\ from = "resize_table" /\ to = "resize_lock"
              /\ oldtable' = [oldtable EXCEPT ![t] = ma_table]
              /\ UNCHANGED <<holder, oldsize>>
           \/ /\ from \in {"resize_lock", "resize"} /\ to = "resize_failed"
              /\ from = "resize_lock" => holder = NULL
              /\ holder' = NULL
              /\ oldtable' = [oldtable EXCEPT ![t] = NULL] /\ oldsize' = [oldsize EXCEPT ![t] = 0]
           \/ /\ from = "resize_failed" /\ to = "insert_lock" /\ ~NoRoom
              /\ (cramped' \/ ~ResizeNeeded)
              /\ UNCHANGED <<holder, oldtable, oldsize>>
           \/ /\ <<from, to>> \in {<<"remove_check", "remove_lock">>, <<"lookup_check", "lookup_lock">>}
              /\ ma_table # NULL
              /\ UNCHANGED <<holder, oldtable, oldsize>>
  BY Tested
<1>3. pc[t] = from BY <1>2 DEF Goto
<1>4. /\ ma_size \in Nat /\ ma_fill \in Nat /\ ma_table \in Addr \cup {NULL} /\ LocalTypes
      /\ ma_table = NULL => ma_size = 0 /\ ma_fill = 0
  BY <1>0, CountersNat DEF Types, Counted
<1>5. /\ oldtable' \in [Thread -> Addr \cup {NULL}] /\ oldsize' \in [Thread -> Nat]
      /\ \A u \in Thread : u # t => oldtable'[u] = oldtable[u] /\ oldsize'[u] = oldsize[u]
  BY <1>2, <1>4 DEF LocalTypes
<1>6. Alone(t) /\ LocalTypes' BY <1>2, <1>4, <1>5 DEF Alone, LocalTypes
<1>7. Locks(t, from, to) BY <1>2 DEF Locks, LockedPCs
<1>8. from # "resize_free" /\ to # "resize_free" BY <1>2
<1>9. ma_table = NULL => NoRoom /\ ResizeNeeded BY <1>4 DEF NoRoom, ResizeNeeded
<1>10. to \in TablePCs => ma_table # NULL BY <1>2, <1>9 DEF TablePCs
<1>11. /\ to \in {"resize_table", "resize_lock", "resize"} => oldsize'[t] = ma_size
       /\ to \in {"resize_lock", "resize"} => oldtable'[t] = ma_table
  BY <1>0, <1>2, <1>3, <1>4 DEF NotStale, LocalTypes
<1>12. /\ to \in InsertPCs => key'[t] \in Key /\ value'[t] \in Value
       /\ to \in SearchPCs => key'[t] \in Key
  BY <1>0, <1>2, <1>3 DEF Args, InsertPCs, SearchPCs
<1>13. ~ResizeNeeded => 3 * ma_fill < 2 * ma_size BY <1>4 DEF ResizeNeeded
<1>14. to \in FlightPCs => from \in FlightPCs \/ cramped' \/ 3 * ma_fill < 2 * ma_size
  BY <1>2, <1>13 DEF FlightPCs
<1> QED BY <1>1, <1>2, <1>6, <1>7, <1>8, <1>10, <1>11, <1>12, <1>14, InvQuiet

\* A call that ends and leaves the dictionary as it is.
Reads(t) ==
  \/ LockFails(t) \/ InsertGivesUp(t) \/ RemoveEmpty(t) \/ LookupEmpty(t)
  \/ LookupDo(t) \/ HasKeyDo(t) \/ KeysDo(t)

\* Such calls return.
LEMMA ReadsReturn ==
  ASSUME NEW t \in Thread, Reads(t)
  PROVE  /\ \E from \in PCs : \E r :
              /\ Return(t, from, r) /\ from # "resize_free" /\ UNCHANGED <<mp, heap>>
              /\ from \in LockedPCs => holder' = NULL
              /\ from \notin LockedPCs => holder' = holder
         /\ cramped' = cramped
<1>0. /\ {"insert_lock", "remove_lock", "clear_lock", "lookup_lock", "has_key_lock", "keys_lock",
          "resize_failed", "remove_check", "lookup_check"} \in SUBSET (PCs \ LockedPCs)
      /\ {"lookup", "has_key", "keys"} \in SUBSET (PCs \cap LockedPCs)
  BY DEF PCs, LockedPCs
<1>1. cramped' = cramped
  BY Zenon DEF Reads, LockFails, InsertGivesUp, RemoveEmpty, LookupEmpty, LookupDo, HasKeyDo, KeysDo, history
<1>2. CASE LockFails(t)
  <2>1. PICK from \in {"insert_lock", "remove_lock", "clear_lock", "lookup_lock", "has_key_lock", "keys_lock"} :
          Return(t, from, Failed) /\ UNCHANGED <<mp, heap, holder>>
    BY <1>2 DEF LockFails
  <2> QED BY <1>0, <1>1, <2>1
<1>3. CASE InsertGivesUp(t) BY <1>0, <1>1, <1>3 DEF InsertGivesUp
<1>4. CASE RemoveEmpty(t) BY <1>0, <1>1, <1>4 DEF RemoveEmpty
<1>5. CASE LookupEmpty(t) BY <1>0, <1>1, <1>5 DEF LookupEmpty
<1>6. CASE LookupDo(t) BY <1>0, <1>1, <1>6 DEF LookupDo
<1>7. CASE HasKeyDo(t) BY <1>0, <1>1, <1>7 DEF HasKeyDo
<1>8. CASE KeysDo(t) BY <1>0, <1>1, <1>8 DEF KeysDo
<1> QED BY <1>2, <1>3, <1>4, <1>5, <1>6, <1>7, <1>8 DEF Reads

\* The kinds of steps.
LEMMA StepKinds ==
  ASSUME NEW t \in Thread, Step(t)
  PROVE  \/ Tests(t) \/ Reads(t) \/ InsertDo(t) \/ RemoveDo(t) \/ ClearDo(t) \/ ResizeFree(t)
         \/ \E a \in Addr : Resize(t, a)
         \/ \E from, to \in PCs : <<from, to>> \in LockSteps /\ Lock(t, from, to)
         \/ UNCHANGED vars
<1>1. ASSUME NEW from, NEW to, <<from, to>> \in LockSteps, Lock(t, from, to)
      PROVE  \E p, q \in PCs : <<p, q>> \in LockSteps /\ Lock(t, p, q)
  <2>1. from \in PCs /\ to \in PCs BY <1>1 DEF LockSteps, PCs
  <2> QED BY <1>1, <2>1
<1>2. CASE ResizeLock(t) BY <1>1, <1>2 DEF ResizeLock, LockSteps
<1>3. CASE InsertLock(t) BY <1>1, <1>3 DEF InsertLock, LockSteps
<1>4. CASE RemoveLock(t) BY <1>1, <1>4 DEF RemoveLock, LockSteps
<1>5. CASE ClearLock(t) BY <1>1, <1>5 DEF ClearLock, LockSteps
<1>6. CASE LookupLock(t) BY <1>1, <1>6 DEF LookupLock, LockSteps
<1>7. CASE HasKeyLock(t) BY <1>1, <1>7 DEF HasKeyLock, LockSteps
<1>8. CASE KeysLock(t) BY <1>1, <1>8 DEF KeysLock, LockSteps
<1>9. CASE Spin(t) BY <1>9 DEF Spin
<1> QED BY <1>2, <1>3, <1>4, <1>5, <1>6, <1>7, <1>8, <1>9, Zenon
        DEF Step, Resize_, Write_, Read_, Tests, Reads

\* Nothing happens.
LEMMA InvStutter ==
  ASSUME Sound, UNCHANGED vars
  PROVE  Sound'
<1>1. UNCHANGED <<ma_table, ma_size, ma_fill, ma_used, heap, holder, pc, key, value, oldtable, oldsize, len>>
  BY DEF vars, mp, locals
<1>2. cramped' = cramped BY Zenon DEF vars, history
<1>3. InFlight' = InFlight BY <1>1 DEF InFlight
<1>4. Room'
  <2>1. CASE cramped
    <3>1. cramped' BY <1>2, <2>1, Zenon
    <3> QED BY <3>1 DEF Room
  <2>2. CASE ~cramped BY <1>1, <1>3, <2>2 DEF Sound, Room
  <2> QED BY <2>1, <2>2
<1>5. Types' /\ Locked' /\ Counted' BY <1>1 DEF Sound, Types, LocalTypes, Locked, Counted
<1>6. NotStale' /\ HasTable' /\ Args' BY <1>1 DEF Sound, NotStale, HasTable, Args
<1>7. Owned' /\ Sized' BY <1>1 DEF Sound, Owned, Frees, Sized
<1> QED BY <1>4, <1>5, <1>6, <1>7 DEF Sound

\* No step breaks the invariant but one that outdates what a thread has read.
LEMMA InvNext ==
  ASSUME Sound, [Next]_vars, ~outdated'
  PROVE  Sound'
<1>1. ASSUME NEW t \in Thread, Reads(t) PROVE Sound'
  <2>1. /\ \E from \in PCs : \E r :
              /\ Return(t, from, r) /\ from # "resize_free" /\ UNCHANGED <<mp, heap>>
              /\ from \in LockedPCs => holder' = NULL
              /\ from \notin LockedPCs => holder' = holder
        /\ cramped' = cramped
    BY <1>1, ReadsReturn
  <2> QED BY <2>1, InvReturn
<1>2. ASSUME NEW t \in Thread, Step(t) PROVE Sound'
  <2>1. CASE \E a \in Addr : Resize(t, a) BY <2>1, ResizeStep
  <2>2. CASE \E from, to \in PCs : <<from, to>> \in LockSteps /\ Lock(t, from, to) BY <2>2, InvLock
  <2>3. CASE Tests(t) BY <2>3, InvTest
  <2>4. CASE InsertDo(t) BY <2>4, InsertStep
  <2>5. CASE RemoveDo(t) BY <2>5, RemoveStep
  <2>6. CASE ClearDo(t) BY <2>6, ClearStep
  <2>7. CASE ResizeFree(t) BY <2>7, ResizeFreeStep
  <2>8. CASE UNCHANGED vars BY <2>8, InvStutter
  <2> QED BY <1>1, <1>2, <2>1, <2>2, <2>3, <2>4, <2>5, <2>6, <2>7, <2>8, StepKinds
<1>3. ASSUME NEW t \in Thread, Call_(t) PROVE Sound' BY <1>3, InvCall
<1> QED BY <1>2, <1>3, InvStutter DEF Next

\* What was outdated once stays so.
LEMMA OutdatedStays ==
  ASSUME outdated, [Next]_vars
  PROVE  outdated'
<1>1. ASSUME NEW t \in Thread, Step(t) PROVE outdated'
  <2>1. CASE Resize_(t)
    BY <2>1, Zenon DEF Resize_, ResizeSize, ResizeTable, ResizeLock, Lock, Resize, ResizeFree, ResizeFails,
                       InsertGivesUp, InsertAnyway, Observe, history
  <2>2. CASE Write_(t)
    BY <2>2, Zenon DEF Write_, InsertCheck, Observe, InsertLock, InsertDo, RemoveCheck, RemoveEmpty, RemoveLock,
                       RemoveDo, ClearLock, ClearDo, Lock, history
  <2>3. CASE Read_(t)
    BY <2>3, Zenon DEF Read_, LookupCheck, LookupEmpty, LookupLock, LookupDo, HasKeyLock, HasKeyDo,
                       KeysLock, KeysDo, Lock, history
  <2>4. CASE LockFails(t) \/ Spin(t) BY <2>4, Zenon DEF LockFails, Spin, vars, history
  <2> QED BY <1>1, <2>1, <2>2, <2>3, <2>4 DEF Step
<1>2. ASSUME NEW t \in Thread, Call_(t) PROVE outdated'
  BY <1>2, Zenon DEF Call_, ClearCall, KeysCall, RemoveCall, LookupCall, HasKeyCall, InsertCall, Call, Observe
<1>3. CASE UNCHANGED vars BY <1>3, Zenon DEF vars, history
<1> QED BY <1>1, <1>2, <1>3 DEF Next

-----------------------------------------------------------------------------
\* What mappinginsert, mappingresize, mappingremove and mappinglookup found out
\* before they locked the dictionary still holds when they use it, until a table
\* is replaced or cleared under a thread that was reading its fields, or had
\* read them and waited for the lock.
THEOREM InvHolds == Spec => []IInv
<1>1. Init => IInv BY InvInit DEF IInv
<1>2. IInv /\ [Next]_vars => IInv' BY InvNext, OutdatedStays DEF IInv
<1> QED BY <1>1, <1>2, PTL DEF Spec

\* lookmapping is never called without a table ("sum % size"), until a table is
\* cleared under a thread that had seen it: TableThere.
THEOREM TableStays == Spec => []TableThere
<1>1. IInv => TableThere BY DEF IInv, Sound, HasTable, TableThere, TablePCs
<1> QED BY <1>1, InvHolds, PTL

\* Every table mappingresize allocates is used or freed once, until two threads
\* replace the same one: NoTableLost.
THEOREM TablesAccountedFor == Spec => []NoTableLost
<1>1. IInv => NoTableLost BY DEF IInv, Sound, Owned, Frees, NoTableLost
<1> QED BY <1>1, InvHolds, PTL

\* A NULL key is left in the table: more than a third of the slots, but for one
\* slot for each thread that may have inserted on a test that was out of date.
THEOREM NullKeyStays == Spec => []NullKeyLeft
<1>1. IInv => NullKeyLeft
  <2> SUFFICES ASSUME Sound, ~cramped, ma_table # NULL
               PROVE  3 * (Cardinality({i \in DOMAIN Table : Table[i].key = NULL})
                           + Cardinality(Thread \ InFlight)) > ma_size
    BY DEF IInv, NullKeyLeft
  <2> DEFINE N == {i \in DOMAIN Table : Table[i].key = NULL}
             F == Thread \ InFlight
  <2>1. /\ Table = heap[ma_table] /\ ma_size \in Sizes /\ Table \in Hashed(ma_size)
        /\ ma_fill = Cardinality(NonNull(Table))
    BY DEF Sound, Counted, Counts, Table
  <2>2. ma_size \in Nat /\ ma_fill \in Nat BY CountersNat DEF Sound
  <2>3. DOMAIN Table = 0 .. ma_size - 1 BY <2>1, HashedUnique
  <2>4. IsFiniteSet(DOMAIN Table) /\ Cardinality(DOMAIN Table) = ma_size
    BY <2>2, <2>3, FiniteAt, SizeOfTable DEF SizeOf
  <2>5. N = DOMAIN Table \ NonNull(Table) /\ NonNull(Table) \in SUBSET DOMAIN Table BY DEF NonNull
  <2>6. Cardinality(N) = ma_size - ma_fill
    <3> HIDE DEF N
    <3>1. DOMAIN Table \cap NonNull(Table) = NonNull(Table) BY <2>5
    <3>2. Cardinality(DOMAIN Table \ NonNull(Table)) = Cardinality(DOMAIN Table)
            - Cardinality(DOMAIN Table \cap NonNull(Table))
      BY <2>4, FS_Difference
    <3> QED BY <2>1, <2>4, <2>5, <3>1, <3>2
  <2>7. Cardinality(InFlight) \in Nat /\ Cardinality(Thread) \in Nat BY FlightNat
  <2>8. Cardinality(F) = Cardinality(Thread) - Cardinality(InFlight)
    <3>1. Thread \cap InFlight = InFlight BY DEF InFlight
    <3>2. Cardinality(Thread \ InFlight) = Cardinality(Thread) - Cardinality(Thread \cap InFlight)
      BY ThreadsAssumption, FS_Difference
    <3> QED BY <3>1, <3>2
  <2>9. 3 * (ma_fill + Cardinality(InFlight)) < 2 * ma_size + 3 * Cardinality(Thread) BY DEF Sound, Room
  <2> HIDE DEF N, F
  <2>10. 3 * (Cardinality(N) + Cardinality(F)) > ma_size BY <2>2, <2>6, <2>7, <2>8, <2>9
  <2> QED BY <2>10 DEF N, F
<1> QED BY <1>1, InvHolds, PTL

\* "there must be at least one NULL key in the table" (mappingobject.c:80), so
\* that lookmapping stops: there is one in every table with three slots for each
\* thread.
THEOREM LargeTablesSearched ==
  Spec => [](\/ outdated \/ cramped \/ ma_table = NULL
             \/ ma_size < 3 * Cardinality(Thread)
             \/ \E i \in DOMAIN Table : Table[i].key = NULL)
<1>1. IInv /\ NullKeyLeft =>
        outdated \/ cramped \/ ma_table = NULL \/ ma_size < 3 * Cardinality(Thread)
        \/ \E i \in DOMAIN Table : Table[i].key = NULL
  <2> SUFFICES ASSUME Sound, NullKeyLeft, ~outdated, ~cramped, ma_table # NULL,
                      \A i \in DOMAIN Table : Table[i].key # NULL
               PROVE  ma_size < 3 * Cardinality(Thread)
    BY DEF IInv
  <2>1. {i \in DOMAIN Table : Table[i].key = NULL} = {} OBVIOUS
  <2>2. 3 * (Cardinality({i \in DOMAIN Table : Table[i].key = NULL}) + Cardinality(Thread \ InFlight)) > ma_size
    BY DEF NullKeyLeft
  <2>3. 3 * (Cardinality({}) + Cardinality(Thread \ InFlight)) > ma_size BY <2>1, <2>2
  <2>4. Cardinality({}) = 0 BY FS_EmptySet
  <2>5. Thread \ InFlight \in SUBSET Thread OBVIOUS
  <2>6. /\ IsFiniteSet(Thread \ InFlight) /\ Cardinality(Thread \ InFlight) <= Cardinality(Thread)
    BY <2>5, ThreadsAssumption, FS_Subset
  <2>7. Cardinality(Thread \ InFlight) \in Nat /\ Cardinality(Thread) \in Nat
    BY <2>6, ThreadsAssumption, FS_CardinalityType
  <2>8. ma_size \in Nat BY CountersNat DEF Sound
  <2> QED BY <2>3, <2>4, <2>6, <2>7, <2>8
<1> QED BY <1>1, InvHolds, NullKeyStays, PTL

-----------------------------------------------------------------------------
(* MappingThreads: to the program, a dictionary shared by the threads.     *)

\* The calls in progress.
Calls == [t \in Thread |-> CallOf(t)]

\* The keys that have a value.
Present == {k \in Key : Now[k] # NULL}

\* A dictionary has as many keys as its table has items, and they are theirs.
LEMMA PresentKeys ==
  ASSUME Sound
  PROVE  /\ Present = {Table[i].key : i \in Items(Table)}
         /\ Cardinality(Present) = ma_used /\ Cardinality(Items(Table)) = ma_used
         /\ IsFiniteSet(Items(Table)) /\ ma_used \in Nat /\ Items(Table) \in SUBSET Nat
<1>1. /\ Table \in Tables(ma_size) /\ Unique(Table) /\ Cardinality(Items(Table)) = ma_used
      /\ ma_size \in Nat /\ ma_used \in Nat
  BY TableShape
<1>2. DOMAIN Table = 0 .. ma_size - 1 /\ \A i \in 0 .. ma_size - 1 : Table[i] \in ValidEntry
  BY <1>1 DEF Tables
<1>3. Items(Table) \in SUBSET (0 .. ma_size - 1) BY <1>2 DEF Items
<1>4. IsFiniteSet(Items(Table)) BY <1>1, <1>3, FiniteAt
<1>5. \A i \in Items(Table) : Table[i].key \in Key /\ Table[i].value # NULL BY <1>2 DEF Items, ValidEntry
<1>6. \A i \in Items(Table) : Now[Table[i].key] = Table[i].value BY <1>1, <1>5, ContentsAt DEF Now
<1>7. \A k \in Key : (\A i \in Items(Table) : Table[i].key # k) => Now[k] = NULL BY <1>1, ContentsAt DEF Now
<1>8. Present = {Table[i].key : i \in Items(Table)} BY <1>5, <1>6, <1>7 DEF Present
<1> DEFINE f == [i \in Items(Table) |-> Table[i].key]
<1>9. f \in Bijection(Items(Table), Present)
  <2>1. f \in [Items(Table) -> Present] BY <1>8
  <2>2. \A i, j \in Items(Table) : f[i] = f[j] => i = j BY <1>1 DEF Unique
  <2>3. \A k \in Present : \E i \in Items(Table) : f[i] = k BY <1>8
  <2> HIDE DEF f
  <2> QED BY <2>1, <2>2, <2>3 DEF Bijection, Injection, Surjection, IsInjective
<1>10. Cardinality(Present) = Cardinality(Items(Table))
  <2>1. ExistsBijection(Items(Table), Present) BY <1>9 DEF ExistsBijection
  <2> QED BY <1>4, <2>1, FS_Bijection
<1> QED BY <1>1, <1>3, <1>4, <1>8, <1>10

\* The list of n keys: all keys when there is room for as many as there are.
LEMMA KeysListed ==
  ASSUME Sound, NEW n \in Nat
  PROVE  /\ FirstKeys(Table, n) \in SUBSET Present
         /\ n >= Cardinality(Present) => FirstKeys(Table, n) = Present
<1> DEFINE I == Items(Table)
           Rank(i) == {j \in I : j < i}
<1>1. /\ Present = {Table[i].key : i \in I} /\ Cardinality(Present) = Cardinality(I)
      /\ IsFiniteSet(I) /\ I \in SUBSET Nat /\ Cardinality(I) \in Nat
  BY PresentKeys
<1>2. FirstKeys(Table, n) = {Table[i].key : i \in {i \in I : Cardinality(Rank(i)) < n}} BY DEF FirstKeys
<1> HIDE DEF I
<1>3. \A i \in I : Cardinality(Rank(i)) < Cardinality(I)
  <2> SUFFICES ASSUME NEW i \in I PROVE Cardinality(Rank(i)) < Cardinality(I) OBVIOUS
  <2>1. Rank(i) \in SUBSET I /\ i \notin Rank(i) BY <1>1
  <2> HIDE DEF Rank
  <2>2. /\ IsFiniteSet(Rank(i)) /\ Cardinality(Rank(i)) <= Cardinality(I)
        /\ Cardinality(Rank(i)) # Cardinality(I)
    BY <1>1, <2>1, FS_Subset
  <2>3. Cardinality(Rank(i)) \in Nat BY <2>2, FS_CardinalityType
  <2> QED BY <1>1, <2>2, <2>3
<1>4. \A i \in I : Cardinality(Rank(i)) \in Nat
  <2> SUFFICES ASSUME NEW i \in I PROVE Cardinality(Rank(i)) \in Nat OBVIOUS
  <2>1. Rank(i) \in SUBSET I OBVIOUS
  <2> HIDE DEF Rank
  <2> QED BY <1>1, <2>1, FS_Subset, FS_CardinalityType
<1> HIDE DEF Rank
<1>5. ASSUME n >= Cardinality(Present) PROVE \A i \in I : Cardinality(Rank(i)) < n
  BY <1>1, <1>3, <1>4, <1>5
<1>6. n >= Cardinality(Present) => FirstKeys(Table, n) = Present BY <1>1, <1>2, <1>5
<1>7. FirstKeys(Table, n) \in SUBSET Present BY <1>1, <1>2
<1> QED BY <1>6, <1>7

\* The call that a thread at p makes.
CallAt(p, k, v, n) ==
  CASE p \in InsertPCs -> [op |-> "insert", key |-> k, value |-> v]
    [] p \in {"remove_check", "remove_lock", "remove"} -> [op |-> "remove", key |-> k]
    [] p \in {"lookup_check", "lookup_lock", "lookup"} -> [op |-> "lookup", key |-> k]
    [] p \in {"has_key_lock", "has_key"} -> [op |-> "has_key", key |-> k]
    [] p \in {"clear_lock", "clear"} -> [op |-> "clear"]
    [] p \in {"keys_lock", "keys"} -> [op |-> "keys", len |-> n]
    [] p = "idle" -> [op |-> "none"]

\* It is what CallOf says, before a step and after it.
LEMMA CallOfAt ==
  ASSUME NEW t \in Thread
  PROVE  /\ CallOf(t) = CallAt(pc[t], key[t], value[t], len[t])
         /\ CallOf(t)' = CallAt(pc'[t], key'[t], value'[t], len'[t])
BY DEF CallOf, CallAt, InsertPCs

\* Which call it is.
LEMMA CallKinds ==
  ASSUME NEW k, NEW v, NEW n
  PROVE  /\ \A p \in InsertPCs : CallAt(p, k, v, n) = [op |-> "insert", key |-> k, value |-> v]
         /\ \A p \in {"remove_check", "remove_lock", "remove"} :
              CallAt(p, k, v, n) = [op |-> "remove", key |-> k]
         /\ \A p \in {"lookup_check", "lookup_lock", "lookup"} :
              CallAt(p, k, v, n) = [op |-> "lookup", key |-> k]
         /\ \A p \in {"has_key_lock", "has_key"} : CallAt(p, k, v, n) = [op |-> "has_key", key |-> k]
         /\ \A p \in {"clear_lock", "clear"} : CallAt(p, k, v, n) = [op |-> "clear"]
         /\ \A p \in {"keys_lock", "keys"} : CallAt(p, k, v, n) = [op |-> "keys", len |-> n]
         /\ CallAt("idle", k, v, n) = [op |-> "none"]
<1>1. \A p \in InsertPCs : CallAt(p, k, v, n) = [op |-> "insert", key |-> k, value |-> v]
  BY DEF CallAt, InsertPCs
<1>2. \A p \in {"remove_check", "remove_lock", "remove"} : CallAt(p, k, v, n) = [op |-> "remove", key |-> k]
  BY DEF CallAt, InsertPCs
<1>3. \A p \in {"lookup_check", "lookup_lock", "lookup"} : CallAt(p, k, v, n) = [op |-> "lookup", key |-> k]
  BY DEF CallAt, InsertPCs
<1>4. \A p \in {"has_key_lock", "has_key"} : CallAt(p, k, v, n) = [op |-> "has_key", key |-> k]
  BY DEF CallAt, InsertPCs
<1>5. \A p \in {"clear_lock", "clear"} : CallAt(p, k, v, n) = [op |-> "clear"] BY DEF CallAt, InsertPCs
<1>6. \A p \in {"keys_lock", "keys"} : CallAt(p, k, v, n) = [op |-> "keys", len |-> n]
  BY DEF CallAt, InsertPCs
<1>7. CallAt("idle", k, v, n) = [op |-> "none"] BY DEF CallAt, InsertPCs
<1> QED BY <1>1, <1>2, <1>3, <1>4, <1>5, <1>6, <1>7

\* A step of one thread changes its call only.
LEMMA CallMoves ==
  ASSUME Sound, NEW t \in Thread, NEW from, NEW to, Goto(t, from, to), Alone(t)
  PROVE  /\ Calls[t] = CallAt(from, key[t], value[t], len[t])
         /\ Calls' = [Calls EXCEPT ![t] = CallAt(to, key'[t], value'[t], len'[t])]
         /\ DOMAIN Calls = Thread
<1>1. pc \in [Thread -> PCs] /\ pc[t] = from /\ pc' = [pc EXCEPT ![t] = to] BY DEF Sound, Types, Goto
<1>2. pc'[t] = to /\ \A u \in Thread : u # t => pc'[u] = pc[u] BY <1>1
<1>3. Calls = [u \in Thread |-> CallAt(pc[u], key[u], value[u], len[u])] BY CallOfAt DEF Calls
<1>4. Calls' = [u \in Thread |-> CallAt(pc'[u], key'[u], value'[u], len'[u])] BY CallOfAt DEF Calls
<1>5. Calls[t] = CallAt(from, key[t], value[t], len[t]) BY <1>1, <1>3
<1>6. \A u \in Thread : u # t =>
        CallAt(pc'[u], key'[u], value'[u], len'[u]) = CallAt(pc[u], key[u], value[u], len[u])
  BY <1>2 DEF Alone
<1>7. DOMAIN Calls = Thread BY DEF Calls
<1> QED BY <1>2, <1>3, <1>4, <1>5, <1>6, <1>7

\* What a step is to the program.
Promised == [Abstract!SharedNext]_<<Now, Calls, result>>

\* A call.
LEMMA Asks ==
  ASSUME Sound, NEW t \in Thread, NEW to, Goto(t, "idle", to), Alone(t),
         CallAt(to, key'[t], value'[t], len'[t]) \in Abstract!Request,
         Now' = Now, result' = [result EXCEPT ![t] = None]
  PROVE  Promised
<1>1. /\ Calls[t] = [op |-> "none"] /\ DOMAIN Calls = Thread
      /\ Calls' = [Calls EXCEPT ![t] = CallAt(to, key'[t], value'[t], len'[t])]
  BY CallMoves, CallKinds
<1>2. Calls'[t] = CallAt(to, key'[t], value'[t], len'[t]) BY <1>1
<1>3. Abstract!Ask(t) BY <1>1, <1>2 DEF Abstract!Ask, Abstract!NoCall, Calls, Now, None
<1> QED BY <1>3 DEF Promised, Abstract!SharedNext

\* A call that returns.
LEMMA CallReturns ==
  ASSUME Sound, NEW t \in Thread, NEW from, Goto(t, from, "idle"), Alone(t),
         NEW c, CallAt(from, key[t], value[t], len[t]) = c, c.op # "none",
         Abstract!Effect(t, c) \/ (Abstract!Says(t, Failed) /\ Now' = Now)
  PROVE  Promised
<1>1. Calls[t] = c /\ Calls' = [Calls EXCEPT ![t] = [op |-> "none"]] BY CallMoves, CallKinds
<1>2. Abstract!Returns(t)
  <2>1. c # [op |-> "none"] OBVIOUS
  <2> QED BY <1>1, <2>1 DEF Abstract!Returns, Abstract!NoCall, Calls
<1>3. CASE Abstract!Effect(t, c)
  <2>1. Abstract!Answer(t) BY <1>1, <1>2, <1>3 DEF Abstract!Answer, Calls
  <2> QED BY <2>1 DEF Promised, Abstract!SharedNext
<1>4. CASE Abstract!Says(t, Failed) /\ Now' = Now
  <2>1. Abstract!Fail(t) BY <1>2, <1>4 DEF Abstract!Fail, Failed, Now
  <2> QED BY <2>1 DEF Promised, Abstract!SharedNext
<1> QED BY <1>3, <1>4

\* A call that may fail.
LEMMA CallFails ==
  ASSUME Sound, NEW t \in Thread, NEW from \in PCs, from # "idle", Return(t, from, Failed), Now' = Now
  PROVE  Promised
<1>1. Types BY DEF Sound
<1>2. Goto(t, from, "idle") /\ Alone(t) /\ result' = [result EXCEPT ![t] = Failed] BY <1>1, Returned
<1>3. Abstract!Says(t, Failed) BY <1>2 DEF Abstract!Says
<1> DEFINE c == CallAt(from, key[t], value[t], len[t])
<1>4. c.op # "none"
  <2>1. CASE from \in InsertPCs
    <3>1. c = [op |-> "insert", key |-> key[t], value |-> value[t]] BY <2>1 DEF CallAt, InsertPCs
    <3> QED BY <3>1
  <2>2. CASE from \in {"remove_check", "remove_lock", "remove"}
    <3>1. c = [op |-> "remove", key |-> key[t]] BY <2>2, CallKinds
    <3> QED BY <3>1
  <2>3. CASE from \in {"lookup_check", "lookup_lock", "lookup"}
    <3>1. c = [op |-> "lookup", key |-> key[t]] BY <2>3, CallKinds
    <3> QED BY <3>1
  <2>4. CASE from \in {"has_key_lock", "has_key"}
    <3>1. c = [op |-> "has_key", key |-> key[t]] BY <2>4, CallKinds
    <3> QED BY <3>1
  <2>5. CASE from \in {"clear_lock", "clear"}
    <3>1. c = [op |-> "clear"] BY <2>5, CallKinds
    <3> QED BY <3>1
  <2>6. CASE from \in {"keys_lock", "keys"}
    <3>1. c = [op |-> "keys", len |-> len[t]] BY <2>6, CallKinds
    <3> QED BY <3>1
  <2> QED BY <2>1, <2>2, <2>3, <2>4, <2>5, <2>6 DEF PCs, InsertPCs
<1> HIDE DEF c
<1> QED BY <1>2, <1>3, <1>4, CallReturns DEF c

\* What the calls should do.
LEMMA Effects ==
  ASSUME NEW t \in Thread, NEW k, NEW v, NEW n
  PROVE  /\ Now' = [Now EXCEPT ![k] = v] /\ Abstract!Says(t, Done)
              => Abstract!Effect(t, [op |-> "insert", key |-> k, value |-> v])
         /\ (\/ Now[k] # NULL /\ Now' = [Now EXCEPT ![k] = NULL] /\ Abstract!Says(t, Done)
             \/ Now[k] = NULL /\ Now' = Now /\ Abstract!Says(t, KeyError))
              => Abstract!Effect(t, [op |-> "remove", key |-> k])
         /\ Now' = [x \in Key |-> NULL] /\ Abstract!Says(t, Done) => Abstract!Effect(t, [op |-> "clear"])
         /\ Now' = Now /\ Abstract!Says(t, Found(Now[k]))
              => Abstract!Effect(t, [op |-> "lookup", key |-> k])
         /\ Now' = Now /\ Abstract!Says(t, Has(Now[k] # NULL))
              => Abstract!Effect(t, [op |-> "has_key", key |-> k])
         /\ Now' = Now /\ Abstract!Lists(t, n) => Abstract!Effect(t, [op |-> "keys", len |-> n])
<1>1. Now' = [Now EXCEPT ![k] = v] /\ Abstract!Says(t, Done)
        => Abstract!Effect(t, [op |-> "insert", key |-> k, value |-> v])
  BY DEF Abstract!Effect, Abstract!Store, Now, Done
<1>2. (\/ Now[k] # NULL /\ Now' = [Now EXCEPT ![k] = NULL] /\ Abstract!Says(t, Done)
       \/ Now[k] = NULL /\ Now' = Now /\ Abstract!Says(t, KeyError))
        => Abstract!Effect(t, [op |-> "remove", key |-> k])
  BY DEF Abstract!Effect, Abstract!Delete, Now, Done, KeyError
<1>3. Now' = [x \in Key |-> NULL] /\ Abstract!Says(t, Done) => Abstract!Effect(t, [op |-> "clear"])
  BY DEF Abstract!Effect, Abstract!Clear, Abstract!EmptyDict, Now, Done
<1>4. Now' = Now /\ Abstract!Says(t, Found(Now[k])) => Abstract!Effect(t, [op |-> "lookup", key |-> k])
  BY DEF Abstract!Effect, Now, Found
<1>5. Now' = Now /\ Abstract!Says(t, Has(Now[k] # NULL)) => Abstract!Effect(t, [op |-> "has_key", key |-> k])
  BY DEF Abstract!Effect, Now, Has
<1>6. Now' = Now /\ Abstract!Lists(t, n) => Abstract!Effect(t, [op |-> "keys", len |-> n])
  BY DEF Abstract!Effect, Now
<1> QED BY <1>1, <1>2, <1>3, <1>4, <1>5, <1>6

\* Counting is the same in SharedDictionary.
LEMMA SameCardinality ==
  ASSUME NEW S
  PROVE  Abstract!Cardinality(S) = Cardinality(S)
BY Zenon DEF Abstract!Cardinality, Cardinality, Abstract!IsFiniteSet, IsFiniteSet

\* What a call asks for.
LEMMA CallAsks ==
  ASSUME Sound, NEW t \in Thread, Call_(t)
  PROVE  Promised
<1>0. Alone(t) /\ UNCHANGED <<mp, heap>> /\ Types BY InvCall DEF Sound
<1>1. Now' = Now BY <1>0, SameNow
<1>2. PICK to \in PCs, k \in Key \cup {NULL}, v \in Value \cup {NULL} :
           /\ Call(t, to, k, v)
           /\ \/ to = "insert_check" /\ k \in Key /\ v \in Value /\ len' = len
              \/ to \in {"remove_check", "lookup_check", "has_key_lock"} /\ k \in Key /\ len' = len
              \/ to = "clear_lock" /\ len' = len
              \/ to = "keys_lock" /\ len' = [len EXCEPT ![t] = ma_used]
  BY Called
<1>3. /\ Goto(t, "idle", to) /\ key' = [key EXCEPT ![t] = k] /\ value' = [value EXCEPT ![t] = v]
      /\ result' = [result EXCEPT ![t] = None]
  BY <1>2 DEF Call
<1>4. key'[t] = k /\ value'[t] = v BY <1>0, <1>3 DEF Types, LocalTypes
<1> DEFINE c == CallAt(to, k, v, len'[t])
<1>5. CASE to = "insert_check" /\ k \in Key /\ v \in Value
  <2>1. "insert_check" \in InsertPCs BY DEF InsertPCs
  <2>2. c = [op |-> "insert", key |-> k, value |-> v] BY <1>5, <2>1 DEF CallAt
  <2>3. c \in Abstract!Request BY <1>5, <2>2 DEF Abstract!Request
  <2> QED BY <1>0, <1>1, <1>3, <1>4, <2>3, Asks
<1>6. CASE to \in {"remove_check", "lookup_check", "has_key_lock"} /\ k \in Key
  <2>1. \E op \in {"remove", "lookup", "has_key"} : c = [op |-> op, key |-> k]
    <3>1. CASE to = "remove_check" BY <3>1 DEF CallAt, InsertPCs
    <3>2. CASE to = "lookup_check" BY <3>2 DEF CallAt, InsertPCs
    <3>3. CASE to = "has_key_lock" BY <3>3 DEF CallAt, InsertPCs
    <3> QED BY <1>6, <3>1, <3>2, <3>3
  <2>2. c \in Abstract!Request BY <1>6, <2>1 DEF Abstract!Request
  <2> QED BY <1>0, <1>1, <1>3, <1>4, <2>2, Asks
<1>7. CASE to = "clear_lock"
  <2>1. c = [op |-> "clear"] BY <1>7 DEF CallAt, InsertPCs
  <2>2. c \in Abstract!Request BY <2>1 DEF Abstract!Request
  <2> QED BY <1>0, <1>1, <1>3, <1>4, <2>2, Asks
<1>8. CASE to = "keys_lock" /\ len' = [len EXCEPT ![t] = ma_used]
  <2>1. len'[t] = ma_used BY <1>0, <1>8 DEF Types, LocalTypes
  <2>2. c = [op |-> "keys", len |-> ma_used] BY <1>8, <2>1 DEF CallAt, InsertPCs
  <2>3. Abstract!Present = Present BY DEF Abstract!Present, Present, Now
  <2>4. ma_used = Abstract!Cardinality(Abstract!Present) BY <2>3, PresentKeys, SameCardinality
  <2>5. c \in Abstract!Request BY <2>2, <2>4 DEF Abstract!Request
  <2> QED BY <1>0, <1>1, <1>3, <1>4, <2>5, Asks
<1> QED BY <1>2, <1>5, <1>6, <1>7, <1>8

\* A step before a call takes effect does nothing that the program sees.
LEMMA StepsSilent ==
  ASSUME Sound, NEW t \in Thread,
         \/ Tests(t) \/ ResizeFree(t) \/ \E a \in Addr : Resize(t, a)
         \/ \E from, to \in PCs : <<from, to>> \in LockSteps /\ Lock(t, from, to),
         Now' = Now
  PROVE  Promised
<1> DEFINE c(p) == CallAt(p, key[t], value[t], len[t])
<1>1. PICK from, to \in PCs :
        /\ Goto(t, from, to) /\ UNCHANGED <<key, value, len, result>>
        /\ \/ from \in InsertPCs /\ to \in InsertPCs
           \/ <<from, to>> \in LockSteps \cup {<<"remove_check", "remove_lock">>, <<"lookup_check", "lookup_lock">>}
  <2>1. CASE Tests(t)
    <3>1. \E from, to \in PCs :
            /\ Goto(t, from, to) /\ UNCHANGED <<mp, heap, key, value, len, result>>
            /\ \/ <<from, to>> \in {<<"insert_check", "resize_size">>, <<"insert_check", "insert_lock">>,
                                    <<"resize_size", "resize_table">>, <<"resize_table", "resize_lock">>,
                                    <<"resize_failed", "insert_lock">>}
               \/ from \in {"resize_lock", "resize"} /\ to = "resize_failed"
               \/ <<from, to>> \in {<<"remove_check", "remove_lock">>, <<"lookup_check", "lookup_lock">>}
      BY <2>1, Tested
    <3> QED BY <3>1 DEF InsertPCs
  <2>2. CASE ResizeFree(t) BY <2>2 DEF ResizeFree, InsertPCs, PCs
  <2>3. CASE \E a \in Addr : Resize(t, a) BY <2>3 DEF Resize, locals, InsertPCs, PCs
  <2>4. CASE \E from, to \in PCs : <<from, to>> \in LockSteps /\ Lock(t, from, to)
    BY <2>4 DEF Lock, locals
  <2> QED BY <2>1, <2>2, <2>3, <2>4
<1>2. c(to) = c(from)
  <2>1. CASE from \in InsertPCs /\ to \in InsertPCs BY <2>1 DEF CallAt, InsertPCs
  <2>2. CASE <<from, to>> \in LockSteps BY <2>2 DEF CallAt, InsertPCs, LockSteps
  <2>3. CASE <<from, to>> \in {<<"remove_check", "remove_lock">>, <<"lookup_check", "lookup_lock">>}
    BY <2>3 DEF CallAt, InsertPCs
  <2> QED BY <1>1, <2>1, <2>2, <2>3
<1>3. pc[t] = from /\ pc' = [pc EXCEPT ![t] = to] /\ pc \in [Thread -> PCs] BY <1>1 DEF Sound, Types, Goto
<1>4. pc'[t] = to /\ \A u \in Thread : u # t => pc'[u] = pc[u] BY <1>3
<1>5. Calls = [u \in Thread |-> CallAt(pc[u], key[u], value[u], len[u])] BY CallOfAt DEF Calls
<1>6. Calls' = [u \in Thread |-> CallAt(pc'[u], key[u], value[u], len[u])]
  <2>1. Calls' = [u \in Thread |-> CallAt(pc'[u], key'[u], value'[u], len'[u])] BY CallOfAt DEF Calls
  <2> QED BY <1>1, <2>1
<1>7. \A u \in Thread : CallAt(pc'[u], key[u], value[u], len[u]) = CallAt(pc[u], key[u], value[u], len[u])
  BY <1>2, <1>3, <1>4
<1>8. Calls' = Calls BY <1>5, <1>6, <1>7
<1> QED BY <1>1, <1>8 DEF Promised

\* What lookmapping finds is what the program sees under the key.
LEMMA LookSees ==
  ASSUME Sound, NEW t \in Thread, NEW from \in {"insert", "remove", "lookup", "has_key"}, Finds(t, from)
  PROVE  Table[Look(Table, key[t])].value = Now[key[t]]
<1>1. key[t] \in Key /\ Counts(Table, ma_size, ma_fill, ma_used) /\ Stops(Table, key[t]) # {} BY TableFound
<1>2. ma_size \in Sizes /\ Table \in Hashed(ma_size) BY <1>1 DEF Counts
<1> QED BY <1>1, <1>2, ContentsLook DEF Now

\* Where there is no table, there is nothing to see.
LEMMA NothingSeen ==
  ASSUME ma_table = NULL
  PROVE  Now = [k \in Key |-> NULL]
BY EmptyExact DEF Now, Table

\* A call that returns says what it returns.
LEMMA ReturnSays ==
  ASSUME Sound, NEW t \in Thread, NEW from, NEW r, Return(t, from, r)
  PROVE  Goto(t, from, "idle") /\ Alone(t) /\ Abstract!Says(t, r)
<1>1. Types BY DEF Sound
<1> QED BY <1>1, Returned DEF Abstract!Says

\* insertmapping, mappingremove and mappingclear.
LEMMA WritesPromised ==
  ASSUME Sound, ~outdated', NEW t \in Thread, InsertDo(t) \/ RemoveDo(t) \/ ClearDo(t)
  PROVE  Promised
<1> DEFINE k == key[t]
           v == value[t]
<1>1. CASE InsertDo(t)
  <2> DEFINE c == [op |-> "insert", key |-> k, value |-> v]
  <2>1. Return(t, "insert", Done) BY <1>1 DEF InsertDo
  <2>2. Goto(t, "insert", "idle") /\ Alone(t) /\ Abstract!Says(t, Done) BY <2>1, ReturnSays
  <2>3. Now' = [Now EXCEPT ![k] = v] BY <1>1, InsertStep
  <2>4. Abstract!Effect(t, c) BY <2>2, <2>3, Effects
  <2>5. CallAt("insert", k, v, len[t]) = c BY DEF CallAt, InsertPCs
  <2>6. c.op # "none" OBVIOUS
  <2> HIDE DEF c
  <2> QED BY <2>2, <2>4, <2>5, <2>6, CallReturns
<1>2. CASE RemoveDo(t)
  <2> DEFINE c == [op |-> "remove", key |-> k]
  <2>1. PICK r \in {KeyError, Done} : Return(t, "remove", r) BY <1>2 DEF RemoveDo
  <2>2. Goto(t, "remove", "idle") /\ Alone(t) BY <2>1, ReturnSays
  <2>3. \/ Now[k] # NULL /\ Now' = [Now EXCEPT ![k] = NULL] /\ Abstract!Says(t, Done)
        \/ Now[k] = NULL /\ Now' = Now /\ Abstract!Says(t, KeyError)
    BY <1>2, RemoveStep DEF Abstract!Says
  <2>4. Abstract!Effect(t, c) BY <2>3, Effects
  <2>5. CallAt("remove", k, v, len[t]) = c BY DEF CallAt, InsertPCs
  <2>6. c.op # "none" OBVIOUS
  <2> HIDE DEF c
  <2> QED BY <2>2, <2>4, <2>5, <2>6, CallReturns
<1>3. CASE ClearDo(t)
  <2> DEFINE c == [op |-> "clear"]
  <2>1. Return(t, "clear", Done) BY <1>3 DEF ClearDo
  <2>2. Goto(t, "clear", "idle") /\ Alone(t) /\ Abstract!Says(t, Done) BY <2>1, ReturnSays
  <2>3. Now' = [x \in Key |-> NULL] BY <1>3, ClearStep
  <2>4. Abstract!Effect(t, c) BY <2>2, <2>3, Effects
  <2>5. CallAt("clear", k, v, len[t]) = c BY DEF CallAt, InsertPCs
  <2>6. c.op # "none" OBVIOUS
  <2> HIDE DEF c
  <2> QED BY <2>2, <2>4, <2>5, <2>6, CallReturns
<1> QED BY <1>1, <1>2, <1>3

\* mappinglookup, mapping_has_key, mapping_keys, and what finds no table.
LEMMA ReadsPromised ==
  ASSUME Sound, NEW t \in Thread, Reads(t)
  PROVE  Promised
<1> DEFINE k == key[t]
           v == value[t]
           n == len[t]
<1>1. Now' = Now
  <2>1. UNCHANGED <<mp, heap>> BY ReadsReturn
  <2> QED BY <2>1, SameNow
<1>2. CASE LockFails(t)
  <2>1. \E from \in {"insert_lock", "remove_lock", "clear_lock", "lookup_lock", "has_key_lock",
                     "keys_lock"} : Return(t, from, Failed)
    BY <1>2 DEF LockFails
  <2>2. PICK from \in PCs : from # "idle" /\ Return(t, from, Failed) BY <2>1 DEF PCs
  <2> QED BY <1>1, <2>2, CallFails
<1>3. CASE InsertGivesUp(t)
  <2>1. Return(t, "resize_failed", Failed) /\ "resize_failed" \in PCs BY <1>3 DEF InsertGivesUp, PCs
  <2> QED BY <1>1, <2>1, CallFails
<1>4. CASE RemoveEmpty(t)
  <2> DEFINE c == [op |-> "remove", key |-> k]
  <2>1. Return(t, "remove_check", KeyError) /\ ma_table = NULL BY <1>4 DEF RemoveEmpty
  <2>2. Goto(t, "remove_check", "idle") /\ Alone(t) /\ Abstract!Says(t, KeyError) BY <2>1, ReturnSays
  <2>3. k \in Key BY <2>2 DEF Sound, Args, SearchPCs, Goto
  <2>4. Now[k] = NULL BY <2>1, <2>3, NothingSeen
  <2>5. Abstract!Effect(t, c) BY <1>1, <2>2, <2>4, Effects
  <2>6. CallAt("remove_check", k, v, n) = c BY DEF CallAt, InsertPCs
  <2>7. c.op # "none" OBVIOUS
  <2> HIDE DEF c
  <2> QED BY <2>2, <2>5, <2>6, <2>7, CallReturns
<1>5. CASE LookupEmpty(t) \/ LookupDo(t)
  <2> DEFINE c == [op |-> "lookup", key |-> k]
  <2>1. PICK from \in {"lookup_check", "lookup"} : Return(t, from, Found(Now[k]))
    <3>1. CASE LookupEmpty(t)
      <4>1. Return(t, "lookup_check", Found(NULL)) /\ ma_table = NULL BY <3>1 DEF LookupEmpty
      <4>2. Goto(t, "lookup_check", "idle") BY <4>1, ReturnSays
      <4>3. k \in Key BY <4>2 DEF Sound, Args, SearchPCs, Goto
      <4>4. Now[k] = NULL BY <4>1, <4>3, NothingSeen
      <4> QED BY <4>1, <4>4
    <3>2. CASE LookupDo(t)
      <4>1. Finds(t, "lookup") /\ Return(t, "lookup", Found(Table[Look(Table, k)].value))
        BY <3>2 DEF LookupDo
      <4>2. Table[Look(Table, k)].value = Now[k] BY <4>1, LookSees
      <4> QED BY <4>1, <4>2
    <3> QED BY <1>5, <3>1, <3>2
  <2>2. Goto(t, from, "idle") /\ Alone(t) /\ Abstract!Says(t, Found(Now[k])) BY <2>1, ReturnSays
  <2>3. Abstract!Effect(t, c) BY <1>1, <2>2, Effects
  <2>4. CallAt(from, k, v, n) = c BY <2>1 DEF CallAt, InsertPCs
  <2>5. c.op # "none" OBVIOUS
  <2> HIDE DEF c
  <2> QED BY <2>2, <2>3, <2>4, <2>5, CallReturns
<1>6. CASE HasKeyDo(t)
  <2> DEFINE c == [op |-> "has_key", key |-> k]
             r == ma_size # 0 /\ Table[Look(Table, k)].value # NULL
  <2>1. Return(t, "has_key", Has(r)) /\ (ma_size # 0 => Finds(t, "has_key")) BY <1>6 DEF HasKeyDo
  <2>2. Goto(t, "has_key", "idle") /\ Alone(t) /\ Abstract!Says(t, Has(r)) BY <2>1, ReturnSays
  <2>3. k \in Key BY <2>2 DEF Sound, Args, SearchPCs, Goto
  <2>4. r <=> Now[k] # NULL
    <3>1. CASE ma_size # 0
      <4>1. Table[Look(Table, k)].value = Now[k] BY <2>1, <3>1, LookSees
      <4> QED BY <3>1, <4>1
    <3>2. CASE ma_size = 0
      <4>1. ma_table = NULL BY <3>2, CountersNat DEF Sound
      <4>2. Now[k] = NULL BY <2>3, <4>1, NothingSeen
      <4> QED BY <3>2, <4>2
    <3> QED BY <3>1, <3>2
  <2>5. Abstract!Says(t, Has(Now[k] # NULL))
    <3>1. Has(r) = Has(Now[k] # NULL)
      <4> HIDE DEF r
      <4> QED BY <2>4 DEF Has
    <3> QED BY <2>2, <3>1
  <2>6. Abstract!Effect(t, c) BY <1>1, <2>5, Effects
  <2>7. CallAt("has_key", k, v, n) = c BY DEF CallAt, InsertPCs
  <2>8. c.op # "none" OBVIOUS
  <2> HIDE DEF c
  <2> QED BY <2>2, <2>6, <2>7, <2>8, CallReturns
<1>7. CASE KeysDo(t)
  <2> DEFINE c == [op |-> "keys", len |-> n]
             S == FirstKeys(Table, n)
  <2>1. Return(t, "keys", List(S)) BY <1>7 DEF KeysDo
  <2>2. Goto(t, "keys", "idle") /\ Alone(t) /\ Abstract!Says(t, List(S)) BY <2>1, ReturnSays
  <2>3. n \in Nat BY DEF Sound, Types, LocalTypes
  <2>4. S \in SUBSET Present /\ (n >= Cardinality(Present) => S = Present) BY <2>3, KeysListed
  <2>5. Abstract!Present = Present BY DEF Abstract!Present, Present, Now
  <2>6. Abstract!Cardinality(Present) = Cardinality(Present) BY SameCardinality
  <2>7. Abstract!Lists(t, n)
    <3> HIDE DEF S, n
    <3> QED BY <2>2, <2>4, <2>5, <2>6 DEF Abstract!Lists, List
  <2>8. Abstract!Effect(t, c) BY <1>1, <2>7, Effects
  <2>9. CallAt("keys", k, v, n) = c BY DEF CallAt, InsertPCs
  <2>10. c.op # "none" OBVIOUS
  <2> HIDE DEF c
  <2> QED BY <2>2, <2>8, <2>9, <2>10, CallReturns
<1> QED BY <1>2, <1>3, <1>4, <1>5, <1>6, <1>7 DEF Reads

\* A step until the table is outdated is what the program was promised.
LEMMA StepPromised ==
  ASSUME Sound, [Next]_vars, ~outdated'
  PROVE  Promised
<1>1. ASSUME NEW t \in Thread, Step(t) PROVE Promised
  <2>1. CASE Tests(t)
    <3>1. UNCHANGED <<mp, heap>> BY <2>1, Tested
    <3>2. Now' = Now BY <3>1, SameNow
    <3> QED BY <2>1, <3>2, StepsSilent
  <2>2. CASE \E from, to \in PCs : <<from, to>> \in LockSteps /\ Lock(t, from, to)
    <3>1. UNCHANGED <<mp, heap>> BY <2>2 DEF Lock
    <3>2. Now' = Now BY <3>1, SameNow
    <3> QED BY <2>2, <3>2, StepsSilent
  <2>3. CASE \E a \in Addr : Resize(t, a)
    <3>1. Now' = Now BY <2>3, ResizeStep
    <3> QED BY <2>3, <3>1, StepsSilent
  <2>4. CASE ResizeFree(t)
    <3>1. Now' = Now BY <2>4, ResizeFreeStep
    <3> QED BY <2>4, <3>1, StepsSilent
  <2>5. CASE InsertDo(t) \/ RemoveDo(t) \/ ClearDo(t) BY <2>5, WritesPromised
  <2>6. CASE Reads(t) BY <2>6, ReadsPromised
  <2>7. CASE UNCHANGED vars
    <3>1. UNCHANGED <<mp, heap, pc, key, value, len, result>> BY <2>7 DEF vars, locals
    <3>2. Now' = Now BY <3>1, SameNow
    <3>3. Calls' = Calls BY <3>1 DEF Calls, CallOf
    <3> QED BY <3>1, <3>2, <3>3 DEF Promised
  <2> QED BY <1>1, <2>1, <2>2, <2>3, <2>4, <2>5, <2>6, <2>7, StepKinds
<1>2. ASSUME NEW t \in Thread, Call_(t) PROVE Promised BY <1>2, CallAsks
<1>3. CASE UNCHANGED vars
  <2>1. UNCHANGED <<mp, heap, pc, key, value, len, result>> BY <1>3 DEF vars, locals
  <2>2. Now' = Now BY <2>1, SameNow
  <2>3. Calls' = Calls BY <2>1 DEF Calls, CallOf
  <2> QED BY <2>1, <2>2, <2>3 DEF Promised
<1> QED BY <1>1, <1>2, <1>3 DEF Next

\* To the program the dictionary is one that its threads share: every operation
\* takes effect at one instant and returns what was so then, or fails.  This is
\* ImplementsDictionary: until the table is replaced or cleared under a thread
\* that was reading its fields, or had read them and waited for the lock.
THEOREM ThreadsShareDictionary == Spec => ImplementsDictionary
<1>1. Init => Abstract!SharedInit
  <2> SUFFICES ASSUME Init PROVE Abstract!SharedInit OBVIOUS
  <2>1. Now = [k \in Key |-> NULL] BY NothingSeen DEF Init
  <2>2. Calls = [t \in Thread |-> [op |-> "none"]] BY DEF Init, Calls, CallOf
  <2>3. result = [t \in Thread |-> [is |-> "none"]] BY DEF Init, None
  <2> QED BY <2>1, <2>2, <2>3
        DEF Abstract!SharedInit, Abstract!Init, Abstract!EmptyDict, Abstract!NoCall, Now, Calls
<1>2. IInv /\ [Next]_vars => [Abstract!SharedNext \/ outdated']_(Abstract!sharedVars)
  <2> SUFFICES ASSUME IInv, [Next]_vars, ~outdated'
               PROVE  [Abstract!SharedNext]_(Abstract!sharedVars)
    BY Zenon
  <2>1. Sound BY OutdatedStays DEF IInv
  <2>2. Promised BY <2>1, StepPromised
  <2> QED BY <2>2 DEF Promised, Abstract!sharedVars, Now, Calls
<1> QED BY <1>1, <1>2, InvHolds, PTL DEF Spec, ImplementsDictionary

\* The history variables are Boolean.
History == outdated \in BOOLEAN /\ cramped \in BOOLEAN

LEMMA HistoryNext ==
  ASSUME History, [Next]_vars
  PROVE  History'
<1>1. ASSUME NEW t \in Thread, Step(t) PROVE History'
  <2>1. CASE Resize_(t)
    BY <2>1, Zenon DEF Resize_, ResizeSize, ResizeTable, ResizeLock, Lock, Resize, ResizeFree, ResizeFails,
                       InsertGivesUp, InsertAnyway, Observe, history, History
  <2>2. CASE Write_(t)
    BY <2>2, Zenon DEF Write_, InsertCheck, Observe, InsertLock, InsertDo, RemoveCheck, RemoveEmpty, RemoveLock,
                       RemoveDo, ClearLock, ClearDo, Lock, history, History
  <2>3. CASE Read_(t)
    BY <2>3, Zenon DEF Read_, LookupCheck, LookupEmpty, LookupLock, LookupDo, HasKeyLock, HasKeyDo,
                       KeysLock, KeysDo, Lock, history, History
  <2>4. CASE LockFails(t) \/ Spin(t) BY <2>4, Zenon DEF LockFails, Spin, vars, history, History
  <2> QED BY <1>1, <2>1, <2>2, <2>3, <2>4 DEF Step
<1>2. ASSUME NEW t \in Thread, Call_(t) PROVE History'
  BY <1>2, Zenon DEF Call_, ClearCall, KeysCall, RemoveCall, LookupCall, HasKeyCall, InsertCall, Call,
                     Observe, History
<1>3. CASE UNCHANGED vars BY <1>3, Zenon DEF vars, history, History
<1> QED BY <1>1, <1>2, <1>3 DEF Next

\* The fields of the dictionary, the tables and the threads' variables have their
\* types until the table is outdated: a size is one of the primes, and what is
\* read from a table is an entry.
THEOREM ThreadTypes == Spec => [](outdated \/ TypeOK)
<1>1. Init => History BY Zenon DEF Init, History
<1>2. History /\ [Next]_vars => History' BY HistoryNext
<1>3. IInv /\ History => outdated \/ TypeOK
  <2> SUFFICES ASSUME Sound, History PROVE TypeOK BY Zenon DEF IInv
  <2>1. ASSUME NEW a \in Addr, heap[a] # NULL
        PROVE  \E j \in DOMAIN primes : heap[a] \in [0 .. primes[j] - 1 -> Entry]
    <3>1. PICK n \in Sizes : heap[a] \in Tables(n) BY <2>1 DEF Sound, Sized
    <3>2. PICK j \in DOMAIN primes : n = primes[j] BY DEF Sizes
    <3>3. heap[a] \in [0 .. primes[j] - 1 -> Entry] BY <3>1, <3>2 DEF Tables, ValidEntry
    <3> QED BY <3>3
  <2>2. ma_size \in Nat /\ ma_fill \in Nat /\ ma_used \in Nat BY CountersNat DEF Sound
  <2>3. Types /\ LocalTypes BY DEF Sound, Types
  <2>4. outdated \in BOOLEAN /\ cramped \in BOOLEAN BY Zenon DEF History
  <2> QED BY <2>1, <2>2, <2>3, <2>4, Zenon DEF TypeOK, Types, LocalTypes
<1> QED BY <1>1, <1>2, <1>3, InvHolds, PTL DEF Spec
=============================================================================
