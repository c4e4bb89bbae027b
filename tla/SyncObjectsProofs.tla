-------------------------- MODULE SyncObjectsProofs --------------------------
(* Proofs about SyncObjects, for any finite set of threads, any size N and   *)
(* any number of calls, misuse included: the barrier holds, no unit of the   *)
(* semaphore lies idle, and readers and writers exclude each other.          *)
EXTENDS SyncObjects, FiniteSetTheorems, TLAPS

(* The state but for the counters.                                           *)
Types ==
  /\ kind \in Kinds
  /\ cond \in [Conditions -> WaitSets(Thread)]
  /\ jammed \in BOOLEAN /\ writing \in BOOLEAN /\ state \in BOOLEAN
  /\ pc \in [Thread -> {"out", "enter", "wait", "p", "read_in", "write_in"}]
  /\ role \in [Thread -> {"none", "reader", "writer"}]
  /\ calls \in [Thread -> 0 .. MaxCalls]
  /\ seen \subseteq Thread

(* A thread waits on the condition of the method it is in, once.             *)
At == [full |-> "enter", posted |-> "wait", nonzero |-> "p",
       readOK |-> "read_in", writeOK |-> "write_in"]

Waits == \A c \in Conditions :
  /\ cond[c].later \cap cond[c].eligible = {}
  /\ \A t \in Present(cond[c]) : pc[t] = At[c]

Base == Types /\ Waits

(* barrier: whoever entered since the last full group waits for a later      *)
(* broadcast.                                                                *)
BarrierCounts ==
  /\ togo \in 1 .. N /\ entered \in Nat
  /\ Cardinality(cond["full"].later) = N - togo
  /\ \E q \in Nat : entered = N * q + (N - togo)

(* semaphore: NoIdleUnit without kind.                                       *)
Coming == {t \in Thread : pc[t] = "p" /\ t \notin Present(cond["nonzero"])}

Units ==
  /\ count \in 0 .. N
  /\ Cardinality(Present(cond["nonzero"])) > cond["nonzero"].permits
       => count <= cond["nonzero"].permits + Cardinality(Coming)

(* mrsw: whoever is blocked has no role yet.                                 *)
Roles ==
  /\ ReadersOrWriter
  /\ \A t \in Thread : pc[t] \in {"read_in", "write_in"} => role[t] = "none"

IInv == Base /\ BarrierCounts /\ Units /\ Roles

------------------------------------------------------------------------------
(* Min of two numbers is the smaller one.                                    *)
LEMMA MinOfTwo ==
  ASSUME NEW a \in Int, NEW b \in Int
  PROVE  Min({a, b}) = IF a <= b THEN a ELSE b
  <1>1. \E x \in {a, b} : \A y \in {a, b} : x <= y OBVIOUS
  <1>2. Min({a, b}) \in {a, b} /\ \A y \in {a, b} : Min({a, b}) <= y BY <1>1 DEF Min
  <1> QED BY <1>2

(* Sets of threads are finite.                                               *)
LEMMA FiniteThreads ==
  ASSUME NEW S \in SUBSET Thread
  PROVE  /\ IsFiniteSet(S) /\ Cardinality(S) \in Nat
         /\ Cardinality(Thread) \in Nat /\ Cardinality(S) <= Cardinality(Thread)
  <1>1. IsFiniteSet(Thread) BY ThreadAssumption
  <1>2. IsFiniteSet(S) /\ Cardinality(S) <= Cardinality(Thread) BY <1>1, FS_Subset
  <1> QED BY <1>1, <1>2, FS_CardinalityType

(* Adding and removing a thread.                                             *)
LEMMA CountThreads ==
  ASSUME NEW S \in SUBSET Thread, NEW t \in Thread
  PROVE  /\ t \notin S => Cardinality(S \cup {t}) = Cardinality(S) + 1
         /\ t \in S => Cardinality(S \ {t}) = Cardinality(S) - 1
  BY FiniteThreads, FS_AddElement, FS_RemoveElement

(* What the operators on wait sets do.                                       *)
LEMMA WaitSetFacts ==
  ASSUME NEW w \in WaitSets(Thread)
  PROVE  /\ w.later \in SUBSET Thread /\ w.eligible \in SUBSET Thread
         /\ Present(w) \in SUBSET Thread /\ w.permits \in Nat
         /\ w.permits \in 0 .. Cardinality(Thread)
         /\ Cardinality(Present(w)) \in Nat /\ IsFiniteSet(Present(w))
  <1>1. w.later \in SUBSET Thread /\ w.eligible \in SUBSET Thread /\ w.permits \in 0 .. Cardinality(Thread)
    BY DEF WaitSets
  <1>2. Present(w) \in SUBSET Thread BY <1>1 DEF Present
  <1> QED BY <1>1, <1>2, FiniteThreads

(* Waiting() adds a thread to later.                                         *)
LEMMA WaitingFacts ==
  ASSUME NEW w \in WaitSets(Thread), NEW t \in Thread
  PROVE  /\ Waiting(w, t) \in WaitSets(Thread)
         /\ Waiting(w, t).later = w.later \cup {t}
         /\ Waiting(w, t).eligible = w.eligible
         /\ Waiting(w, t).permits = w.permits
         /\ Present(Waiting(w, t)) = Present(w) \cup {t}
  <1>1. /\ Waiting(w, t) \in WaitSets(Thread)
        /\ Waiting(w, t).later = w.later \cup {t}
        /\ Waiting(w, t).eligible = w.eligible
        /\ Waiting(w, t).permits = w.permits
    BY DEF Waiting, WaitSets
  <1> QED BY <1>1 DEF Present

(* Notified() makes everybody eligible; n = 1 adds a permit if it has a use. *)
LEMMA NotifiedFacts ==
  ASSUME NEW w \in WaitSets(Thread), NEW n \in {-1, 1}
  PROVE  /\ Notified(w, n) \in WaitSets(Thread)
         /\ Notified(w, n).later = {}
         /\ Notified(w, n).eligible = Present(w)
         /\ Present(Notified(w, n)) = Present(w)
         /\ n = 1 => Notified(w, n).permits =
                       IF Cardinality(Present(w)) <= w.permits + 1
                         THEN Cardinality(Present(w)) ELSE w.permits + 1
  <1> DEFINE c == Cardinality(Present(w))
             r == IF n = -1 THEN c ELSE Min({c, w.permits + n})
  <1>1. /\ c \in Nat /\ c <= Cardinality(Thread) /\ Cardinality(Thread) \in Nat
        /\ w.permits \in Nat /\ Present(w) \in SUBSET Thread
    BY WaitSetFacts, FiniteThreads
  <1>2. Notified(w, n) = [later |-> {}, eligible |-> Present(w), permits |-> r]
    BY DEF Notified
  <1>3. n = 1 => r = IF c <= w.permits + 1 THEN c ELSE w.permits + 1
    BY <1>1, MinOfTwo
  <1>4. r \in 0 .. Cardinality(Thread)
    <2>1. CASE n = -1 BY <1>1, <2>1
    <2>2. CASE n = 1
      <3> HIDE DEF c, r
      <3> QED BY <1>1, <1>3, <2>2
    <2> QED BY <2>1, <2>2
  <1> HIDE DEF r
  <1>5. /\ Notified(w, n) \in WaitSets(Thread)
        /\ Notified(w, n).later = {}
        /\ Notified(w, n).eligible = Present(w)
        /\ Notified(w, n).permits = r
    BY <1>1, <1>2, <1>4 DEF WaitSets
  <1>6. Present(Notified(w, n)) = Present(w) BY <1>5 DEF Present
  <1> QED BY <1>3, <1>5, <1>6

(* Woken() takes a thread and a permit away.                                 *)
LEMMA WokenFacts ==
  ASSUME NEW w \in WaitSets(Thread), NEW t \in Thread, MayWake(w, t),
         w.later \cap w.eligible = {}
  PROVE  /\ Woken(w, t) \in WaitSets(Thread)
         /\ Woken(w, t).later = w.later
         /\ Woken(w, t).eligible = w.eligible \ {t}
         /\ Woken(w, t).permits = w.permits - 1
         /\ Present(Woken(w, t)) = Present(w) \ {t}
         /\ t \in Present(w)
  <1>1. w.permits \in 1 .. Cardinality(Thread) /\ Cardinality(Thread) \in Nat
    BY WaitSetFacts, FiniteThreads DEF MayWake
  <1>2. w.permits - 1 \in 0 .. Cardinality(Thread) BY <1>1
  <1>3. w.later \in SUBSET Thread /\ w.eligible \ {t} \in SUBSET Thread BY WaitSetFacts
  <1>4. /\ Woken(w, t) \in WaitSets(Thread)
        /\ Woken(w, t).later = w.later
        /\ Woken(w, t).eligible = w.eligible \ {t}
        /\ Woken(w, t).permits = w.permits - 1
    BY <1>2, <1>3 DEF Woken, WaitSets
  <1>5. t \in w.eligible /\ t \notin w.later BY DEF MayWake
  <1> QED BY <1>4, <1>5 DEF Present

(* A thread outside every method waits on no condition.                      *)
LEMMA OutIsOut ==
  ASSUME Base, NEW t \in Thread, pc[t] = "out"
  PROVE  ~InWait(t)
  BY DEF Base, Waits, InWait, At, Conditions

------------------------------------------------------------------------------
(* What the steps do to the conditions.  Blocking adds the thread to one.    *)
LEMMA BlockCond ==
  ASSUME Base, NEW t \in Thread, NEW c \in Conditions, Block(t, c, At[c]), ~InWait(t)
  PROVE  /\ cond' \in [Conditions -> WaitSets(Thread)]
         /\ pc' \in [Thread -> {"out", "enter", "wait", "p", "read_in", "write_in"}]
         /\ pc'[t] = At[c] /\ \A u \in Thread : u # t => pc'[u] = pc[u]
         /\ Waits'
         /\ \A d \in Conditions : d # c => cond'[d] = cond[d]
         /\ cond'[c].later = cond[c].later \cup {t}
         /\ cond'[c].permits = cond[c].permits
         /\ Present(cond'[c]) = Present(cond[c]) \cup {t}
  <1>1. cond[c] \in WaitSets(Thread) BY DEF Base, Types
  <1>2. cond' = [cond EXCEPT ![c] = Waiting(cond[c], t)] /\ pc' = [pc EXCEPT ![t] = At[c]]
    BY DEF Block
  <1>3. cond'[c] = Waiting(cond[c], t) /\ \A d \in Conditions : d # c => cond'[d] = cond[d]
    BY <1>2 DEF Base, Types
  <1>4. cond' \in [Conditions -> WaitSets(Thread)]
    BY <1>1, <1>2, WaitingFacts DEF Base, Types
  <1>5. At[c] \in {"enter", "wait", "p", "read_in", "write_in"} BY DEF At, Conditions
  <1>6. /\ pc' \in [Thread -> {"out", "enter", "wait", "p", "read_in", "write_in"}]
        /\ pc'[t] = At[c] /\ \A u \in Thread : u # t => pc'[u] = pc[u]
    BY <1>2, <1>5 DEF Base, Types
  <1>7. /\ cond'[c].later = cond[c].later \cup {t}
        /\ cond'[c].eligible = cond[c].eligible
        /\ cond'[c].permits = cond[c].permits
        /\ Present(cond'[c]) = Present(cond[c]) \cup {t}
    BY <1>1, <1>3, WaitingFacts
  <1>8. \A d \in Conditions : t \notin Present(cond[d]) BY DEF InWait
  <1>9. \A d \in Conditions : Present(cond[d]) \subseteq Thread
    BY WaitSetFacts DEF Base, Types
  <1>10. Waits'
    <2> SUFFICES ASSUME NEW d \in Conditions
                 PROVE  /\ cond'[d].later \cap cond'[d].eligible = {}
                        /\ \A u \in Present(cond'[d]) : pc'[u] = At[d]
      BY DEF Waits, Present
    <2>1. CASE d = c
      <3>1. t \notin cond[c].eligible BY <1>8 DEF Present
      <3> QED BY <1>6, <1>7, <1>9, <2>1, <3>1 DEF Base, Waits
    <2>2. CASE d # c BY <1>3, <1>6, <1>8, <1>9, <2>2 DEF Base, Waits
    <2> QED BY <2>1, <2>2
  <1> QED BY <1>3, <1>4, <1>6, <1>7, <1>10

(* A notification keeps everybody present.                                   *)
LEMMA NotifyCond ==
  ASSUME Base, NEW c \in Conditions, NEW n \in {-1, 1},
         cond' = [cond EXCEPT ![c] = Notified(@, n)],
         \A u \in Thread : InWait(u) => pc'[u] = pc[u]
  PROVE  /\ cond' \in [Conditions -> WaitSets(Thread)]
         /\ Waits'
         /\ \A d \in Conditions : d # c => cond'[d] = cond[d]
         /\ cond'[c].later = {}
         /\ Present(cond'[c]) = Present(cond[c])
         /\ n = 1 => cond'[c].permits =
                       IF Cardinality(Present(cond[c])) <= cond[c].permits + 1
                         THEN Cardinality(Present(cond[c])) ELSE cond[c].permits + 1
  <1>1. cond[c] \in WaitSets(Thread) BY DEF Base, Types
  <1>2. cond'[c] = Notified(cond[c], n) /\ \A d \in Conditions : d # c => cond'[d] = cond[d]
    BY DEF Base, Types
  <1>3. cond' \in [Conditions -> WaitSets(Thread)]
    BY <1>1, NotifiedFacts DEF Base, Types
  <1>4. cond'[c].later = {} /\ Present(cond'[c]) = Present(cond[c])
    <2>1. Notified(cond[c], n).later = {} /\ Present(Notified(cond[c], n)) = Present(cond[c])
      BY <1>1, NotifiedFacts
    <2> QED BY <1>2, <2>1
  <1>5. n = 1 => cond'[c].permits =
                   IF Cardinality(Present(cond[c])) <= cond[c].permits + 1
                     THEN Cardinality(Present(cond[c])) ELSE cond[c].permits + 1
    BY <1>1, <1>2, NotifiedFacts
  <1>6. \A d \in Conditions : \A u \in Present(cond[d]) : u \in Thread /\ InWait(u)
    BY WaitSetFacts DEF Base, Types, InWait
  <1>7. Waits'
    <2> SUFFICES ASSUME NEW d \in Conditions
                 PROVE  /\ cond'[d].later \cap cond'[d].eligible = {}
                        /\ \A u \in Present(cond'[d]) : pc'[u] = At[d]
      BY DEF Waits, Present
    <2>1. CASE d = c BY <1>4, <1>6, <2>1 DEF Base, Waits
    <2>2. CASE d # c BY <1>2, <1>6, <2>2 DEF Base, Waits
    <2> QED BY <2>1, <2>2
  <1> QED BY <1>2, <1>3, <1>4, <1>5, <1>7

(* Other steps leave the conditions alone.                                   *)
LEMMA SameCond ==
  ASSUME Base, cond' = cond, \A u \in Thread : InWait(u) => pc'[u] = pc[u]
  PROVE  Waits'
  <1>1. \A d \in Conditions : \A u \in Present(cond[d]) : u \in Thread /\ InWait(u)
    BY WaitSetFacts DEF Base, Types, InWait
  <1> SUFFICES ASSUME NEW d \in Conditions
               PROVE  /\ cond'[d].later \cap cond'[d].eligible = {}
                      /\ \A u \in Present(cond'[d]) : pc'[u] = At[d]
    BY DEF Waits, Present
  <1> QED BY <1>1 DEF Base, Waits

(* Return(t) by a thread that waits on no condition leaves the waiters alone.*)
LEMMA ReturnPc ==
  ASSUME Base, NEW t \in Thread, ~InWait(t), Return(t)
  PROVE  /\ \A u \in Thread : InWait(u) => pc'[u] = pc[u]
         /\ pc' \in [Thread -> {"out", "enter", "wait", "p", "read_in", "write_in"}]
         /\ pc'[t] = "out" /\ \A u \in Thread : u # t => pc'[u] = pc[u]
  BY DEF Return, Base, Types

------------------------------------------------------------------------------
(* The parts of the invariant that a step does not touch.                    *)
LEMMA BarrierKept ==
  ASSUME BarrierCounts, UNCHANGED <<togo, entered>>,
         cond'["full"].later = cond["full"].later
  PROVE  BarrierCounts'
  BY DEF BarrierCounts

(* The semaphore's part.                                                     *)
LEMMA UnitsKept ==
  ASSUME Units, count' = count, cond'["nonzero"] = cond["nonzero"],
         \A u \in Thread : pc'[u] = "p" <=> pc[u] = "p"
  PROVE  Units'
  <1>1. Present(cond'["nonzero"]) = Present(cond["nonzero"]) BY DEF Present
  <1>2. Coming' = Coming BY <1>1 DEF Coming, Present
  <1> QED BY <1>1, <1>2 DEF Units, Present

(* The readers' and writers' part.                                           *)
LEMMA RolesKept ==
  ASSUME Roles, UNCHANGED <<role, nr, nw, writing>>,
         \A u \in Thread : /\ pc'[u] = "read_in" <=> pc[u] = "read_in"
                           /\ pc'[u] = "write_in" <=> pc[u] = "write_in"
  PROVE  Roles'
  <1>1. BlockedIn("write_in")' = BlockedIn("write_in") BY DEF BlockedIn
  <1>2. Role("writer")' = Role("writer") /\ Role("reader")' = Role("reader") BY DEF Role
  <1>3. ReadersOrWriter' BY <1>1, <1>2 DEF Roles, ReadersOrWriter
  <1> QED BY <1>3 DEF Roles

(* The invariant holds initially.                                            *)
LEMMA InitInv == ASSUME Init PROVE IInv
  <1> USE DEF Init
  <1>1. \A c \in Conditions : cond[c].later = {} /\ cond[c].eligible = {} /\ cond[c].permits = 0
    BY DEF NoWaiters
  <1>2. Types
    <2>1. NoWaiters \in WaitSets(Thread)
      <3>1. Cardinality(Thread) \in Nat BY FiniteThreads
      <3> QED BY <3>1 DEF NoWaiters, WaitSets
    <2>2. cond \in [Conditions -> WaitSets(Thread)] BY <2>1
    <2>3. calls \in [Thread -> 0 .. MaxCalls] BY MaxCallsAssumption
    <2> QED BY <2>2, <2>3 DEF Types, MrswInit, EventInit
  <1>3. Waits BY <1>1 DEF Waits, Present
  <1>4. Cardinality({}) = 0 BY FS_EmptySet
  <1>5. {"full", "nonzero"} \subseteq Conditions BY DEF Conditions
  <1>6. BarrierCounts
    <2>1. entered = N * 0 + (N - togo) BY NAssumption DEF BarrierInit
    <2>2. cond["full"].later = {} BY <1>1, <1>5
    <2> QED BY <1>4, <2>1, <2>2, NAssumption DEF BarrierCounts, BarrierInit
  <1>7. Units
    <2>1. Present(cond["nonzero"]) = {} /\ cond["nonzero"].permits = 0 BY <1>1, <1>5 DEF Present
    <2> QED BY <1>4, <2>1, NAssumption DEF Units, SemaphoreInit
  <1>8. Roles
    <2>1. Role("writer") = {} /\ Role("reader") = {} /\ BlockedIn("write_in") = {}
      BY DEF Role, BlockedIn
    <2>2. Role("writer") \cup BlockedIn("write_in") = {} BY <2>1
    <2> QED BY <1>4, <2>1, <2>2 DEF Roles, ReadersOrWriter, MrswInit
  <1> QED BY <1>2, <1>3, <1>6, <1>7, <1>8 DEF IInv, Base

(* A step that only lets a thread out of enter() or wait(), or raises.       *)
LEMMA Quiet ==
  ASSUME IInv, NEW t \in Thread, Return(t), ~InWait(t), pc[t] \in {"out", "enter", "wait"},
         cond' = cond, UNCHANGED <<togo, entered, count, role, nr, nw, writing>>
  PROVE  Waits' /\ BarrierCounts' /\ Units' /\ Roles'
         /\ pc' \in [Thread -> {"out", "enter", "wait", "p", "read_in", "write_in"}]
  <1>1. /\ \A u \in Thread : InWait(u) => pc'[u] = pc[u]
        /\ pc' \in [Thread -> {"out", "enter", "wait", "p", "read_in", "write_in"}]
        /\ pc'[t] = "out" /\ \A u \in Thread : u # t => pc'[u] = pc[u]
    BY ReturnPc DEF IInv
  <1>2. Waits' BY <1>1, SameCond DEF IInv
  <1>3. \A u \in Thread : /\ pc'[u] = "p" <=> pc[u] = "p"
                          /\ pc'[u] = "read_in" <=> pc[u] = "read_in"
                          /\ pc'[u] = "write_in" <=> pc[u] = "write_in"
    BY <1>1
  <1>4. BarrierCounts' BY BarrierKept DEF IInv
  <1>5. Units' BY <1>3, UnitsKept DEF IInv
  <1>6. Roles' BY <1>3, RolesKept DEF IInv
  <1> QED BY <1>1, <1>2, <1>4, <1>5, <1>6

(* A woken thread leaves enter() or wait().                                  *)
LEMMA LeaveInv == ASSUME IInv, NEW t \in Thread, EnterResume(t) \/ WaitResume(t) PROVE IInv'
  <1> USE DEF EnterResume, WaitResume, Resume, object
  <1>1. Waits' /\ BarrierCounts' /\ Units' /\ Roles'
        /\ pc' \in [Thread -> {"out", "enter", "wait", "p", "read_in", "write_in"}]
    BY Quiet
  <1>2. Types' BY <1>1 DEF IInv, Base, Types
  <1> QED BY <1>1, <1>2 DEF IInv, Base

(* The calls that change none of the counters.                               *)
LEMMA RaiseInv ==
  ASSUME IInv, NEW t \in Thread,
         VRaise(t) \/ ReadOutRaise(t) \/ WriteRaise(t) \/ Clear(t)
  PROVE  IInv'
  <1> USE DEF VRaise, ReadOutRaise, WriteRaise, Clear, Raise, Call, object
  <1>1. pc[t] = "out" /\ ~InWait(t) BY OutIsOut DEF IInv
  <1>2. Waits' /\ BarrierCounts' /\ Units' /\ Roles'
        /\ pc' \in [Thread -> {"out", "enter", "wait", "p", "read_in", "write_in"}]
    BY <1>1, Quiet
  <1>3. calls' \in [Thread -> 0 .. MaxCalls] BY MaxCallsAssumption DEF IInv, Base, Types
  <1>4. Types' BY <1>2, <1>3 DEF IInv, Base, Types
  <1> QED BY <1>2, <1>4 DEF IInv, Base

(* A thread is woken: a permit less, a thread on its way more.               *)
LEMMA WakeInv == ASSUME IInv, NEW t \in Thread, Wake(t) PROVE IInv'
  <1>1. PICK c \in Conditions :
          MayWake(cond[c], t) /\ cond' = [cond EXCEPT ![c] = Woken(cond[c], t)]
    BY DEF Wake
  <1>2. UNCHANGED <<kind, jammed, object, pc, role, calls, seen, entered>> BY DEF Wake
  <1>3. \A d \in Conditions : /\ cond[d] \in WaitSets(Thread)
                              /\ cond[d].later \cap cond[d].eligible = {}
    BY DEF IInv, Base, Types, Waits
  <1>4. cond'[c] = Woken(cond[c], t) /\ \A d \in Conditions : d # c => cond'[d] = cond[d]
    BY <1>1 DEF IInv, Base, Types
  <1>5. /\ Woken(cond[c], t) \in WaitSets(Thread)
        /\ cond'[c].later = cond[c].later
        /\ cond'[c].eligible = cond[c].eligible \ {t}
        /\ cond'[c].permits = cond[c].permits - 1
        /\ Present(cond'[c]) = Present(cond[c]) \ {t}
        /\ t \in Present(cond[c])
    BY <1>1, <1>3, <1>4, WokenFacts
  <1>6. Types'
    <2>1. cond' \in [Conditions -> WaitSets(Thread)] BY <1>1, <1>5 DEF IInv, Base, Types
    <2> QED BY <1>2, <2>1 DEF IInv, Base, Types, object
  <1>7. Waits'
    <2> SUFFICES ASSUME NEW d \in Conditions
                 PROVE  /\ cond'[d].later \cap cond'[d].eligible = {}
                        /\ \A u \in Present(cond'[d]) : pc'[u] = At[d]
      BY DEF Waits, Present
    <2>1. CASE d = c BY <1>2, <1>3, <1>5, <2>1 DEF IInv, Base, Waits
    <2>2. CASE d # c BY <1>2, <1>4, <2>2 DEF IInv, Base, Waits
    <2> QED BY <2>1, <2>2
  <1>8. BarrierCounts'
    <2>1. "full" \in Conditions BY DEF Conditions
    <2>2. cond'["full"].later = cond["full"].later BY <1>4, <1>5, <2>1
    <2> QED BY <1>2, <2>2, BarrierKept DEF IInv, object
  <1>9. Roles' BY <1>2, RolesKept DEF IInv, object
  <1>10. Units'
    <2>1. "nonzero" \in Conditions BY DEF Conditions
    <2>2. CASE c # "nonzero"
      <3>1. cond'["nonzero"] = cond["nonzero"] BY <1>4, <2>1, <2>2
      <3> QED BY <1>2, <3>1, UnitsKept DEF IInv, object
    <2>3. CASE c = "nonzero"
      <3> DEFINE asleep == Present(cond["nonzero"])
      <3>1. asleep \in SUBSET Thread /\ cond["nonzero"].permits \in Nat BY <1>3, <2>1, WaitSetFacts
      <3>2. t \in asleep /\ Present(cond["nonzero"])' = asleep \ {t} BY <1>5, <2>3 DEF Present
      <3>3. pc[t] = "p" BY <2>1, <3>2 DEF IInv, Base, Waits, At
      <3>4. Coming' = Coming \cup {t} /\ t \notin Coming BY <1>2, <3>2, <3>3 DEF Coming
      <3>5. Coming \in SUBSET Thread BY DEF Coming
      <3>6. Cardinality(asleep \ {t}) = Cardinality(asleep) - 1 /\ Cardinality(asleep) \in Nat
        BY <3>1, <3>2, CountThreads, FiniteThreads
      <3>7. Cardinality(Coming') = Cardinality(Coming) + 1 /\ Cardinality(Coming) \in Nat
        BY <3>4, <3>5, CountThreads, FiniteThreads
      <3>8. cond["nonzero"]'.permits = cond["nonzero"].permits - 1 BY <1>5, <2>3
      <3>9. Cardinality(asleep) > cond["nonzero"].permits => count <= cond["nonzero"].permits + Cardinality(Coming)
        BY DEF IInv, Units
      <3>10. count' = count /\ count \in 0 .. N BY <1>2 DEF object, IInv, Units
      <3> HIDE DEF asleep
      <3>11. Cardinality(asleep \ {t}) > cond["nonzero"]'.permits
               => count' <= cond["nonzero"]'.permits + Cardinality(Coming')
        <4>1. N \in Nat BY NAssumption
        <4> QED BY <3>1, <3>6, <3>7, <3>8, <3>9, <3>10, <4>1
      <3> QED BY <3>2, <3>10, <3>11 DEF Units
    <2> QED BY <2>2, <2>3
  <1> QED BY <1>6, <1>7, <1>8, <1>9, <1>10 DEF IInv, Base

------------------------------------------------------------------------------
(* barrier.enter(): one more waits for the group, or the group is full.      *)
LEMMA EnterInv == ASSUME IInv, NEW t \in Thread, Enter(t) PROVE IInv'
  <1>1. pc[t] = "out" /\ ~InWait(t) BY OutIsOut DEF IInv, Enter, Call
  <1>2. "full" \in Conditions /\ "nonzero" \in Conditions /\ At["full"] = "enter"
    BY DEF Conditions, At
  <1>3. /\ entered' = entered + 1 /\ calls' \in [Thread -> 0 .. MaxCalls]
        /\ UNCHANGED <<kind, jammed, state, count, nr, nw, writing, role, seen>>
    BY MaxCallsAssumption DEF Enter, Call, IInv, Base, Types
  <1>4. /\ togo \in 1 .. N /\ entered \in Nat /\ N \in Nat \ {0}
        /\ Cardinality(cond["full"].later) = N - togo
    BY NAssumption DEF IInv, BarrierCounts
  <1>5. PICK q \in Nat : entered = N * q + (N - togo) BY DEF IInv, BarrierCounts
  <1>6. N * q \in Int BY <1>4
  <1>7. cond["full"].later \in SUBSET Thread BY <1>2, WaitSetFacts DEF IInv, Base, Types
  <1>8. CASE togo > 1
    <2>1. togo' = togo - 1 /\ Block(t, "full", At["full"]) BY <1>2, <1>8 DEF Enter
    <2>2. /\ cond' \in [Conditions -> WaitSets(Thread)]
          /\ pc' \in [Thread -> {"out", "enter", "wait", "p", "read_in", "write_in"}]
          /\ pc'[t] = "enter" /\ \A u \in Thread : u # t => pc'[u] = pc[u]
          /\ Waits'
          /\ \A d \in Conditions : d # "full" => cond'[d] = cond[d]
          /\ cond'["full"].later = cond["full"].later \cup {t}
      BY <1>1, <1>2, <2>1, BlockCond DEF IInv
    <2>3. Types' BY <1>3, <2>2 DEF IInv, Base, Types
    <2>4. t \notin cond["full"].later BY <1>1, <1>2 DEF InWait, Present
    <2>5. Cardinality(cond'["full"].later) = N - togo'
      <3>1. Cardinality(cond'["full"].later) = Cardinality(cond["full"].later) + 1
        BY <1>7, <2>2, <2>4, CountThreads
      <3> QED BY <1>4, <2>1, <3>1
    <2>6. togo' \in 1 .. N /\ entered' \in Nat /\ entered' = N * q + (N - togo')
      BY <1>3, <1>4, <1>5, <1>6, <1>8, <2>1
    <2>7. BarrierCounts' BY <2>5, <2>6 DEF BarrierCounts
    <2>8. Units' BY <1>1, <1>2, <1>3, <2>2, UnitsKept DEF IInv
    <2>9. Roles' BY <1>1, <1>3, <2>2, RolesKept DEF IInv
    <2> QED BY <2>2, <2>3, <2>7, <2>8, <2>9 DEF IInv, Base
  <1>9. CASE ~(togo > 1)
    <2>1. togo' = N /\ cond' = [cond EXCEPT !["full"] = Notified(@, -1)] /\ Return(t)
      BY <1>9 DEF Enter, broadcast
    <2>2. /\ \A u \in Thread : InWait(u) => pc'[u] = pc[u]
          /\ pc' \in [Thread -> {"out", "enter", "wait", "p", "read_in", "write_in"}]
          /\ pc'[t] = "out" /\ \A u \in Thread : u # t => pc'[u] = pc[u]
      BY <1>1, <2>1, ReturnPc DEF IInv
    <2>3. /\ cond' \in [Conditions -> WaitSets(Thread)]
          /\ Waits'
          /\ \A d \in Conditions : d # "full" => cond'[d] = cond[d]
          /\ cond'["full"].later = {}
      BY <1>2, <2>1, <2>2, NotifyCond DEF IInv
    <2>4. Types' BY <1>3, <2>2, <2>3 DEF IInv, Base, Types
    <2>5. Cardinality(cond'["full"].later) = N - togo'
      <3>1. Cardinality({}) = 0 BY FS_EmptySet
      <3> QED BY <1>4, <2>1, <2>3, <3>1
    <2>6. entered' = N * (q + 1) + (N - togo')
      <3>1. N * (q + 1) = N * q + N BY <1>4
      <3>2. togo = 1 BY <1>4, <1>9
      <3> QED BY <1>3, <1>4, <1>5, <1>6, <2>1, <3>1, <3>2
    <2>7. BarrierCounts'
      <3>1. togo' \in 1 .. N /\ entered' \in Nat /\ q + 1 \in Nat BY <1>3, <1>4, <2>1
      <3> QED BY <2>5, <2>6, <3>1 DEF BarrierCounts
    <2>8. Units' BY <1>1, <1>2, <1>3, <2>2, <2>3, UnitsKept DEF IInv
    <2>9. Roles' BY <1>1, <1>3, <2>2, RolesKept DEF IInv
    <2> QED BY <2>3, <2>4, <2>7, <2>8, <2>9 DEF IInv, Base
  <1> QED BY <1>8, <1>9

------------------------------------------------------------------------------
(* event.post() notifies, ...                                                *)
LEMMA PostInv == ASSUME IInv, NEW t \in Thread, Post(t) PROVE IInv'
  <1>1. pc[t] = "out" /\ ~InWait(t) BY OutIsOut DEF IInv, Post, Call
  <1>2. {"posted", "full", "nonzero"} \subseteq Conditions BY DEF Conditions
  <1>3. /\ calls' \in [Thread -> 0 .. MaxCalls] /\ state' = TRUE /\ seen' \subseteq Thread
        /\ UNCHANGED <<kind, jammed, togo, count, nr, nw, writing, role, entered>>
    BY MaxCallsAssumption DEF Post, Call, IInv, Base, Types
  <1>4. cond' = [cond EXCEPT !["posted"] = Notified(@, -1)] /\ Return(t) BY DEF Post, broadcast
  <1>5. /\ \A u \in Thread : InWait(u) => pc'[u] = pc[u]
        /\ pc' \in [Thread -> {"out", "enter", "wait", "p", "read_in", "write_in"}]
        /\ pc'[t] = "out" /\ \A u \in Thread : u # t => pc'[u] = pc[u]
    BY <1>1, <1>4, ReturnPc DEF IInv
  <1>6. /\ cond' \in [Conditions -> WaitSets(Thread)]
        /\ Waits'
        /\ \A d \in Conditions : d # "posted" => cond'[d] = cond[d]
    BY <1>2, <1>4, <1>5, NotifyCond DEF IInv
  <1>7. Types' BY <1>3, <1>5, <1>6 DEF IInv, Base, Types
  <1>8. BarrierCounts' BY <1>2, <1>3, <1>6, BarrierKept DEF IInv
  <1>9. Units' BY <1>1, <1>2, <1>3, <1>5, <1>6, UnitsKept DEF IInv
  <1>10. Roles' BY <1>1, <1>3, <1>5, RolesKept DEF IInv
  <1> QED BY <1>6, <1>7, <1>8, <1>9, <1>10 DEF IInv, Base

(* ... and event.wait() blocks or returns.                                   *)
LEMMA WaitInv == ASSUME IInv, NEW t \in Thread, Wait(t) PROVE IInv'
  <1>1. pc[t] = "out" /\ ~InWait(t) BY OutIsOut DEF IInv, Wait, Call
  <1>2. {"posted", "full", "nonzero"} \subseteq Conditions /\ At["posted"] = "wait"
    BY DEF Conditions, At
  <1>3. /\ calls' \in [Thread -> 0 .. MaxCalls] /\ seen' \subseteq Thread
        /\ UNCHANGED <<kind, jammed, togo, state, count, nr, nw, writing, role, entered>>
    BY MaxCallsAssumption DEF Wait, Call, IInv, Base, Types, object
  <1>4. CASE state
    <2>1. Return(t) /\ cond' = cond BY <1>4 DEF Wait
    <2>2. Waits' /\ BarrierCounts' /\ Units' /\ Roles'
          /\ pc' \in [Thread -> {"out", "enter", "wait", "p", "read_in", "write_in"}]
      BY <1>1, <1>3, <2>1, Quiet
    <2>3. Types' BY <1>3, <2>1, <2>2 DEF IInv, Base, Types
    <2> QED BY <2>2, <2>3 DEF IInv, Base
  <1>5. CASE ~state
    <2>1. Block(t, "posted", At["posted"]) BY <1>2, <1>5 DEF Wait
    <2>2. /\ cond' \in [Conditions -> WaitSets(Thread)]
          /\ pc' \in [Thread -> {"out", "enter", "wait", "p", "read_in", "write_in"}]
          /\ pc'[t] = "wait" /\ \A u \in Thread : u # t => pc'[u] = pc[u]
          /\ Waits'
          /\ \A d \in Conditions : d # "posted" => cond'[d] = cond[d]
      BY <1>1, <1>2, <2>1, BlockCond DEF IInv
    <2>3. Types' BY <1>3, <2>2 DEF IInv, Base, Types
    <2>4. BarrierCounts' BY <1>2, <1>3, <2>2, BarrierKept DEF IInv
    <2>5. Units' BY <1>1, <1>2, <1>3, <2>2, UnitsKept DEF IInv
    <2>6. Roles' BY <1>1, <1>3, <2>2, RolesKept DEF IInv
    <2> QED BY <2>2, <2>3, <2>4, <2>5, <2>6 DEF IInv, Base
  <1> QED BY <1>4, <1>5

------------------------------------------------------------------------------
(* The loop of semaphore.p(): a unit less, or none was there and one sleeps. *)
LEMMA PInv ==
  ASSUME IInv, NEW t \in Thread, pc[t] \in {"out", "p"}, ~InWait(t), P(t),
         calls' \in [Thread -> 0 .. MaxCalls],
         UNCHANGED <<kind, jammed, togo, state, nr, nw, writing, role, seen, entered>>
  PROVE  IInv'
  <1>1. {"full", "nonzero"} \subseteq Conditions /\ At["nonzero"] = "p" BY DEF Conditions, At
  <1> DEFINE w == cond["nonzero"]
  <1>2. /\ count \in 0 .. N /\ N \in Nat
        /\ Cardinality(Present(w)) > w.permits => count <= w.permits + Cardinality(Coming)
    BY NAssumption DEF IInv, Units
  <1>3. w.permits \in Nat /\ Coming \in SUBSET Thread
    BY <1>1, WaitSetFacts DEF IInv, Base, Types, Coming
  <1>4. Cardinality(Coming) \in Nat BY <1>3, FiniteThreads
  <1>5. CASE count = 0
    <2>1. Block(t, "nonzero", At["nonzero"]) /\ count' = count BY <1>1, <1>5 DEF P
    <2>2. /\ cond' \in [Conditions -> WaitSets(Thread)]
          /\ pc' \in [Thread -> {"out", "enter", "wait", "p", "read_in", "write_in"}]
          /\ pc'[t] = "p" /\ \A u \in Thread : u # t => pc'[u] = pc[u]
          /\ Waits'
          /\ \A d \in Conditions : d # "nonzero" => cond'[d] = cond[d]
          /\ cond'["nonzero"].permits = w.permits
      BY <1>1, <2>1, BlockCond DEF IInv
    <2>3. Types' BY <2>2 DEF IInv, Base, Types
    <2>4. Coming' \in SUBSET Thread BY DEF Coming
    <2>5. Cardinality(Coming') \in Nat BY <2>4, FiniteThreads
    <2>6. count' <= cond'["nonzero"].permits + Cardinality(Coming')
      BY <1>3, <1>5, <2>1, <2>2, <2>5
    <2>7. Units' BY <1>2, <2>1, <2>6 DEF Units
    <2>8. BarrierCounts' BY <1>1, <2>2, BarrierKept DEF IInv
    <2>9. Roles' BY <2>2, RolesKept DEF IInv
    <2> QED BY <2>2, <2>3, <2>7, <2>8, <2>9 DEF IInv, Base
  <1>6. CASE count # 0
    <2>1. count' = count - 1 /\ Return(t) /\ cond' = cond BY <1>6 DEF P
    <2>2. /\ \A u \in Thread : InWait(u) => pc'[u] = pc[u]
          /\ pc' \in [Thread -> {"out", "enter", "wait", "p", "read_in", "write_in"}]
          /\ pc'[t] = "out" /\ \A u \in Thread : u # t => pc'[u] = pc[u]
      BY <2>1, ReturnPc DEF IInv
    <2>3. Waits' BY <2>1, <2>2, SameCond DEF IInv
    <2>4. Types' BY <2>1, <2>2 DEF IInv, Base, Types
    <2>5. Coming' = Coming \ {t} BY <2>1, <2>2 DEF Coming
    <2>6. Cardinality(Coming') >= Cardinality(Coming) - 1 /\ Cardinality(Coming') \in Nat
      <3>1. CASE t \in Coming BY <1>3, <1>4, <2>5, <3>1, CountThreads, FiniteThreads
      <3>2. CASE t \notin Coming
        <4>1. Coming' = Coming BY <2>5, <3>2
        <4> QED BY <1>4, <4>1
      <3> QED BY <3>1, <3>2
    <2>7. count' \in 0 .. N BY <1>2, <1>6, <2>1
    <2>8. Cardinality(Present(w)) > w.permits => count' <= w.permits + Cardinality(Coming')
      <3> HIDE DEF w
      <3> QED BY <1>2, <1>3, <1>4, <2>1, <2>6
    <2>9. Units' BY <2>1, <2>7, <2>8 DEF Units
    <2>10. BarrierCounts' BY <2>1, BarrierKept DEF IInv
    <2>11. Roles' BY <2>2, RolesKept DEF IInv
    <2> QED BY <2>3, <2>4, <2>9, <2>10, <2>11 DEF IInv, Base
  <1> QED BY <1>5, <1>6

(* semaphore.v(): a unit and, if it has a use, a permit more.                *)
LEMMA VInv == ASSUME IInv, NEW t \in Thread, V(t) PROVE IInv'
  <1>1. pc[t] = "out" /\ ~InWait(t) BY OutIsOut DEF IInv, V, Call
  <1>2. {"full", "nonzero"} \subseteq Conditions BY DEF Conditions
  <1>3. /\ calls' \in [Thread -> 0 .. MaxCalls] /\ count < N /\ count' = count + 1
        /\ UNCHANGED <<kind, jammed, togo, state, nr, nw, writing, role, seen, entered>>
    BY MaxCallsAssumption DEF V, Call, IInv, Base, Types
  <1>4. cond' = [cond EXCEPT !["nonzero"] = Notified(@, 1)] /\ Return(t) BY DEF V, signal
  <1>5. /\ \A u \in Thread : InWait(u) => pc'[u] = pc[u]
        /\ pc' \in [Thread -> {"out", "enter", "wait", "p", "read_in", "write_in"}]
        /\ pc'[t] = "out" /\ \A u \in Thread : u # t => pc'[u] = pc[u]
    BY <1>1, <1>4, ReturnPc DEF IInv
  <1> DEFINE w == cond["nonzero"]
             S == Cardinality(Present(w))
  <1>6. /\ cond' \in [Conditions -> WaitSets(Thread)]
        /\ Waits'
        /\ \A d \in Conditions : d # "nonzero" => cond'[d] = cond[d]
        /\ Present(cond'["nonzero"]) = Present(w)
        /\ cond'["nonzero"].permits = IF S <= w.permits + 1 THEN S ELSE w.permits + 1
    BY <1>2, <1>4, <1>5, NotifyCond DEF IInv
  <1>7. Types' BY <1>3, <1>5, <1>6 DEF IInv, Base, Types
  <1>8. Coming' = Coming BY <1>1, <1>5, <1>6 DEF Coming, Present
  <1>9. /\ count \in 0 .. N /\ N \in Nat
        /\ S > w.permits => count <= w.permits + Cardinality(Coming)
    BY NAssumption DEF IInv, Units
  <1>10. w.permits \in Nat /\ S \in Nat /\ Coming \in SUBSET Thread
    BY <1>2, WaitSetFacts DEF IInv, Base, Types, Coming
  <1>11. Cardinality(Coming) \in Nat BY <1>10, FiniteThreads
  <1>12. S > cond'["nonzero"].permits
           => count' <= cond'["nonzero"].permits + Cardinality(Coming)
    <2> HIDE DEF w, S
    <2> QED BY <1>3, <1>6, <1>9, <1>10, <1>11
  <1>13. count' \in 0 .. N BY <1>3, <1>9
  <1>14. Units' BY <1>6, <1>8, <1>12, <1>13 DEF Units, Present
  <1>15. BarrierCounts' BY <1>2, <1>3, <1>6, BarrierKept DEF IInv
  <1>16. Roles' BY <1>1, <1>3, <1>5, RolesKept DEF IInv
  <1> QED BY <1>6, <1>7, <1>14, <1>15, <1>16 DEF IInv, Base

------------------------------------------------------------------------------
(* What the methods of mrsw have in common: they leave the other classes'    *)
(* state alone.                                                              *)
LEMMA MrswRest ==
  ASSUME IInv, NEW t \in Thread, pc[t] \in {"out", "read_in", "write_in"},
         pc' \in [Thread -> {"out", "enter", "wait", "p", "read_in", "write_in"}],
         pc'[t] \in {"out", "read_in", "write_in"},
         \A u \in Thread : u # t => pc'[u] = pc[u],
         cond' \in [Conditions -> WaitSets(Thread)], Waits',
         cond'["full"] = cond["full"], cond'["nonzero"] = cond["nonzero"],
         role' \in [Thread -> {"none", "reader", "writer"}], writing' \in BOOLEAN,
         calls' \in [Thread -> 0 .. MaxCalls],
         UNCHANGED <<kind, jammed, togo, state, count, seen, entered>>
  PROVE  Base' /\ BarrierCounts' /\ Units'
  <1>1. Types' BY DEF IInv, Base, Types
  <1>2. BarrierCounts' BY BarrierKept DEF IInv
  <1>3. \A u \in Thread : pc'[u] = "p" <=> pc[u] = "p" BY DEF IInv, Base, Types
  <1>4. Units' BY <1>3, UnitsKept DEF IInv
  <1> QED BY <1>1, <1>2, <1>4 DEF Base

(* The counters of mrsw and the sets they count.                             *)
LEMMA RoleSets ==
  ASSUME IInv
  PROVE  /\ Role("reader") \in SUBSET Thread /\ Role("writer") \in SUBSET Thread
         /\ BlockedIn("write_in") \in SUBSET Thread
         /\ nr \in Nat /\ nw \in Nat
         /\ nr = 0 <=> Role("reader") = {}
         /\ nw = 0 <=> Role("writer") \cup BlockedIn("write_in") = {}
         /\ \A t \in Role("writer") : Role("writer") = {t}
  <1>1. /\ Role("reader") \in SUBSET Thread /\ Role("writer") \in SUBSET Thread
        /\ BlockedIn("write_in") \in SUBSET Thread
        /\ Role("writer") \cup BlockedIn("write_in") \in SUBSET Thread
    BY DEF Role, BlockedIn
  <1>2. /\ nr = Cardinality(Role("reader")) /\ Cardinality(Role("writer")) <= 1
        /\ nw = Cardinality(Role("writer") \cup BlockedIn("write_in"))
    BY DEF IInv, Roles, ReadersOrWriter
  <1>3. \A S \in SUBSET Thread : Cardinality(S) \in Nat /\ (Cardinality(S) = 0 <=> S = {})
    BY FiniteThreads, FS_EmptySet
  <1>4. ASSUME NEW t \in Role("writer") PROVE Role("writer") = {t}
    <2>1. Cardinality(Role("writer") \ {t}) = Cardinality(Role("writer")) - 1
      BY <1>1, CountThreads
    <2>2. Role("writer") \ {t} \in SUBSET Thread BY <1>1
    <2>3. Cardinality(Role("writer") \ {t}) = 0 BY <1>1, <1>2, <1>3, <2>1, <2>2
    <2>4. Role("writer") \ {t} = {} BY <1>3, <2>2, <2>3
    <2> QED BY <2>4
  <1> QED BY <1>1, <1>2, <1>3, <1>4

(* The loop of read_in(): blocked while there are writers, a reader          *)
(* otherwise.                                                                *)
LEMMA ReadInInv ==
  ASSUME IInv, NEW t \in Thread, pc[t] \in {"out", "read_in"}, role[t] = "none",
         ~InWait(t), ReadIn(t), calls' \in [Thread -> 0 .. MaxCalls],
         UNCHANGED <<kind, jammed, togo, state, count, nw, writing, seen, entered>>
  PROVE  IInv'
  <1>1. {"full", "nonzero", "readOK"} \subseteq Conditions /\ At["readOK"] = "read_in"
    BY DEF Conditions, At
  <1>2. role \in [Thread -> {"none", "reader", "writer"}] /\ writing \in BOOLEAN
    BY DEF IInv, Base, Types
  <1>3. CASE nw > 0
    <2>1. Block(t, "readOK", At["readOK"]) /\ UNCHANGED <<nr, role>> BY <1>1, <1>3 DEF ReadIn
    <2>2. /\ cond' \in [Conditions -> WaitSets(Thread)]
          /\ pc' \in [Thread -> {"out", "enter", "wait", "p", "read_in", "write_in"}]
          /\ pc'[t] = "read_in" /\ \A u \in Thread : u # t => pc'[u] = pc[u]
          /\ Waits'
          /\ \A d \in Conditions : d # "readOK" => cond'[d] = cond[d]
      BY <1>1, <2>1, BlockCond DEF IInv
    <2>3. cond'["full"] = cond["full"] /\ cond'["nonzero"] = cond["nonzero"] BY <1>1, <2>2
    <2>4. Base' /\ BarrierCounts' /\ Units' BY <1>2, <2>1, <2>2, <2>3, MrswRest
    <2>5. Role("writer")' = Role("writer") /\ Role("reader")' = Role("reader")
      BY <2>1 DEF Role
    <2>6. BlockedIn("write_in")' = BlockedIn("write_in") BY <2>2 DEF BlockedIn
    <2>7. ReadersOrWriter' BY <2>1, <2>5, <2>6 DEF ReadersOrWriter, IInv, Roles
    <2>8. Roles' BY <2>1, <2>2, <2>7 DEF Roles, IInv
    <2> QED BY <2>4, <2>8 DEF IInv
  <1>4. CASE ~(nw > 0)
    <2>1. /\ nr' = nr + 1 /\ role' = [role EXCEPT ![t] = "reader"] /\ Return(t) /\ cond' = cond
      BY <1>4 DEF ReadIn, is
    <2>2. /\ \A u \in Thread : InWait(u) => pc'[u] = pc[u]
          /\ pc' \in [Thread -> {"out", "enter", "wait", "p", "read_in", "write_in"}]
          /\ pc'[t] = "out" /\ \A u \in Thread : u # t => pc'[u] = pc[u]
      BY <2>1, ReturnPc DEF IInv
    <2>3. Waits' BY <2>1, <2>2, SameCond DEF IInv
    <2>4. cond' \in [Conditions -> WaitSets(Thread)] BY <2>1 DEF IInv, Base, Types
    <2>5. Base' /\ BarrierCounts' /\ Units' BY <1>2, <2>1, <2>2, <2>3, <2>4, MrswRest
    <2>6. Role("writer") = {} /\ BlockedIn("write_in") = {} BY <1>4, RoleSets
    <2>7. /\ Role("writer")' = {} /\ Role("reader")' = Role("reader") \cup {t}
          /\ BlockedIn("write_in")' = {} /\ t \notin Role("reader")
      BY <1>2, <2>1, <2>2, <2>6 DEF Role, BlockedIn
    <2>8. nr' = Cardinality(Role("reader")')
      BY <2>1, <2>7, RoleSets, CountThreads DEF IInv, Roles, ReadersOrWriter
    <2>9. ReadersOrWriter'
      BY <2>1, <2>6, <2>7, <2>8, FS_EmptySet DEF ReadersOrWriter, IInv, Roles
    <2>10. Roles' BY <1>2, <2>1, <2>2, <2>9 DEF Roles, IInv
    <2> QED BY <2>5, <2>10 DEF IInv
  <1> QED BY <1>3, <1>4

(* read_out(): a reader less.                                                *)
LEMMA ReadOutInv == ASSUME IInv, NEW t \in Thread, ReadOut(t) PROVE IInv'
  <1>1. /\ pc[t] = "out" /\ role[t] = "reader" /\ nr' = nr - 1
        /\ role' = [role EXCEPT ![t] = "none"]
        /\ UNCHANGED <<kind, jammed, togo, state, count, nw, writing, pc, calls, seen, entered>>
    BY DEF ReadOut, Inside, is
  <1>2. {"full", "nonzero", "writeOK"} \subseteq Conditions BY DEF Conditions
  <1>3. /\ role \in [Thread -> {"none", "reader", "writer"}] /\ writing \in BOOLEAN
        /\ pc \in [Thread -> {"out", "enter", "wait", "p", "read_in", "write_in"}]
        /\ cond \in [Conditions -> WaitSets(Thread)] /\ calls \in [Thread -> 0 .. MaxCalls]
    BY DEF IInv, Base, Types
  <1>4. /\ cond' \in [Conditions -> WaitSets(Thread)] /\ Waits'
        /\ \A d \in Conditions : d # "writeOK" => cond'[d] = cond[d]
    <2>1. CASE nr = 1
      <3>1. cond' = [cond EXCEPT !["writeOK"] = Notified(@, 1)] BY <2>1 DEF ReadOut, signal
      <3> QED BY <1>1, <1>2, <3>1, NotifyCond DEF IInv
    <2>2. CASE nr # 1
      <3>1. cond' = cond BY <2>2 DEF ReadOut
      <3> QED BY <1>1, <1>3, <3>1, SameCond DEF IInv
    <2> QED BY <2>1, <2>2
  <1>5. Base' /\ BarrierCounts' /\ Units' BY <1>1, <1>2, <1>3, <1>4, MrswRest
  <1>6. /\ Role("writer")' = Role("writer") /\ Role("reader")' = Role("reader") \ {t}
        /\ BlockedIn("write_in")' = BlockedIn("write_in") /\ t \in Role("reader")
    BY <1>1, <1>3 DEF Role, BlockedIn
  <1>7. nr' = Cardinality(Role("reader")')
    BY <1>1, <1>6, RoleSets, CountThreads DEF IInv, Roles, ReadersOrWriter
  <1>8. ReadersOrWriter' BY <1>1, <1>6, <1>7 DEF ReadersOrWriter, IInv, Roles
  <1>9. Roles' BY <1>1, <1>3, <1>8 DEF Roles, IInv
  <1> QED BY <1>5, <1>9 DEF IInv

(* The loop of write_in(): whoever is new counts in nw at once, blocks       *)
(* behind a writer or readers, and is the writer otherwise.                  *)
LEMMA WriteInInv ==
  ASSUME IInv, NEW t \in Thread, pc[t] \in {"out", "write_in"}, role[t] = "none",
         ~InWait(t), WriteIn(t), calls' \in [Thread -> 0 .. MaxCalls],
         nw' = IF pc[t] = "out" THEN nw + 1 ELSE nw,
         UNCHANGED <<kind, jammed, togo, state, count, nr, seen, entered>>
  PROVE  IInv'
  <1>1. {"full", "nonzero", "writeOK"} \subseteq Conditions /\ At["writeOK"] = "write_in"
    BY DEF Conditions, At
  <1>2. /\ role \in [Thread -> {"none", "reader", "writer"}] /\ writing \in BOOLEAN
        /\ pc \in [Thread -> {"out", "enter", "wait", "p", "read_in", "write_in"}]
    BY DEF IInv, Base, Types
  <1> DEFINE In == Role("writer") \cup BlockedIn("write_in")
  <1>3. t \notin Role("reader") /\ t \notin Role("writer") /\ (t \in In <=> pc[t] = "write_in")
    BY DEF Role, BlockedIn
  <1>4. In \in SUBSET Thread /\ nw = Cardinality(In)
    BY DEF Role, BlockedIn, IInv, Roles, ReadersOrWriter
  <1>5. nw' = Cardinality(In \cup {t})
    <2>1. CASE pc[t] = "out"
      <3>1. t \notin In BY <1>3, <2>1
      <3> HIDE DEF In
      <3>2. Cardinality(In \cup {t}) = Cardinality(In) + 1 BY <1>4, <3>1, CountThreads
      <3> QED BY <1>4, <2>1, <3>2
    <2>2. CASE pc[t] = "write_in"
      <3>1. In \cup {t} = In BY <1>3, <2>2
      <3> QED BY <1>4, <2>2, <3>1
    <2> QED BY <2>1, <2>2
  <1>6. CASE writing \/ nr > 0
    <2>1. Block(t, "writeOK", At["writeOK"]) /\ UNCHANGED <<writing, role>>
      BY <1>1, <1>6 DEF WriteIn
    <2>2. /\ cond' \in [Conditions -> WaitSets(Thread)]
          /\ pc' \in [Thread -> {"out", "enter", "wait", "p", "read_in", "write_in"}]
          /\ pc'[t] = "write_in" /\ \A u \in Thread : u # t => pc'[u] = pc[u]
          /\ Waits'
          /\ \A d \in Conditions : d # "writeOK" => cond'[d] = cond[d]
      BY <1>1, <2>1, BlockCond DEF IInv
    <2>3. cond'["full"] = cond["full"] /\ cond'["nonzero"] = cond["nonzero"] BY <1>1, <2>2
    <2>4. Base' /\ BarrierCounts' /\ Units' BY <1>2, <2>1, <2>2, <2>3, MrswRest
    <2>5. Role("writer")' = Role("writer") /\ Role("reader")' = Role("reader")
      BY <2>1 DEF Role
    <2>6. BlockedIn("write_in")' = BlockedIn("write_in") \cup {t} BY <2>2 DEF BlockedIn
    <2>7. In' = In \cup {t} BY <2>5, <2>6
    <2>8. ReadersOrWriter' BY <1>5, <2>1, <2>5, <2>7 DEF ReadersOrWriter, IInv, Roles
    <2>9. Roles' BY <2>1, <2>2, <2>8 DEF Roles, IInv
    <2> QED BY <2>4, <2>9 DEF IInv
  <1>7. CASE ~(writing \/ nr > 0)
    <2>1. /\ writing' = TRUE /\ role' = [role EXCEPT ![t] = "writer"]
          /\ Return(t) /\ cond' = cond
      BY <1>7 DEF WriteIn, is
    <2>2. /\ \A u \in Thread : InWait(u) => pc'[u] = pc[u]
          /\ pc' \in [Thread -> {"out", "enter", "wait", "p", "read_in", "write_in"}]
          /\ pc'[t] = "out" /\ \A u \in Thread : u # t => pc'[u] = pc[u]
      BY <2>1, ReturnPc DEF IInv
    <2>3. Waits' BY <2>1, <2>2, SameCond DEF IInv
    <2>4. cond' \in [Conditions -> WaitSets(Thread)] BY <2>1 DEF IInv, Base, Types
    <2>5. Base' /\ BarrierCounts' /\ Units' BY <1>2, <2>1, <2>2, <2>3, <2>4, MrswRest
    <2>6. Role("writer") = {} /\ Role("reader") = {}
      <3>1. nr = 0 BY <1>7, RoleSets
      <3> QED BY <1>7, <3>1, RoleSets DEF IInv, Roles, ReadersOrWriter
    <2>7. Role("writer")' = {t} /\ Role("reader")' = {} BY <1>2, <2>1, <2>6 DEF Role
    <2>8. BlockedIn("write_in")' = BlockedIn("write_in") \ {t} BY <2>2 DEF BlockedIn
    <2>9. In' = In \cup {t} BY <2>6, <2>7, <2>8
    <2>10. Cardinality({t}) = 1 /\ Cardinality({}) = 0 BY FS_Singleton, FS_EmptySet
    <2>11. nr' = 0 BY <1>7, RoleSets
    <2>12. nw' = Cardinality(Role("writer")' \cup BlockedIn("write_in")') BY <1>5, <2>9
    <2>13. ReadersOrWriter'
      <3>1. Cardinality(Role("writer")') = 1 BY <2>7, <2>10
      <3>2. nr' = Cardinality(Role("reader")') BY <2>7, <2>10, <2>11
      <3>3. (writing' <=> Role("writer")' # {}) /\ Role("reader")' = {} BY <2>1, <2>7
      <3> QED BY <2>12, <3>1, <3>2, <3>3 DEF ReadersOrWriter
    <2>14. Roles' BY <1>2, <2>1, <2>2, <2>13 DEF Roles, IInv
    <2> QED BY <2>5, <2>14 DEF IInv
  <1> QED BY <1>6, <1>7

(* A writer leaves by write_out(), or stays as a reader by write_to_read().  *)
LEMMA WriterLeaves ==
  ASSUME IInv, NEW t \in Thread, NEW r \in {"none", "reader"}, Inside(t, "writer"),
         writing' = FALSE, nw' = nw - 1, nr' = IF r = "reader" THEN nr + 1 ELSE nr,
         role' = [role EXCEPT ![t] = r],
         cond' \in [Conditions -> WaitSets(Thread)], Waits',
         cond'["full"] = cond["full"], cond'["nonzero"] = cond["nonzero"],
         UNCHANGED <<kind, jammed, togo, state, count, pc, calls, seen, entered>>
  PROVE  IInv'
  <1>1. pc[t] = "out" /\ role[t] = "writer" BY DEF Inside
  <1>2. /\ role \in [Thread -> {"none", "reader", "writer"}]
        /\ pc \in [Thread -> {"out", "enter", "wait", "p", "read_in", "write_in"}]
        /\ calls \in [Thread -> 0 .. MaxCalls]
    BY DEF IInv, Base, Types
  <1>3. Base' /\ BarrierCounts' /\ Units' BY <1>1, <1>2, MrswRest
  <1> DEFINE In == Role("writer") \cup BlockedIn("write_in")
  <1>4. t \in Role("writer") /\ t \notin BlockedIn("write_in") BY <1>1 DEF Role, BlockedIn
  <1>5. Role("writer") = {t} /\ Role("reader") = {} /\ nr = 0
    BY <1>4, RoleSets DEF IInv, Roles, ReadersOrWriter
  <1>6. Role("writer")' = {} /\ Role("reader")' = IF r = "reader" THEN {t} ELSE {}
    BY <1>2, <1>5 DEF Role
  <1>7. BlockedIn("write_in")' = BlockedIn("write_in") BY DEF BlockedIn
  <1>8. In' = In \ {t} BY <1>4, <1>5, <1>6, <1>7
  <1>9. In \in SUBSET Thread /\ nw = Cardinality(In)
    BY DEF Role, BlockedIn, IInv, Roles, ReadersOrWriter
  <1>10. nw' = Cardinality(In')
    <2>1. t \in In BY <1>4
    <2> HIDE DEF In
    <2>2. Cardinality(In \ {t}) = Cardinality(In) - 1 BY <1>9, <2>1, CountThreads
    <2> QED BY <1>8, <1>9, <2>2
  <1>11. nr' = Cardinality(Role("reader")')
    <2>1. Cardinality({t}) = 1 /\ Cardinality({}) = 0 BY FS_Singleton, FS_EmptySet
    <2>2. CASE r = "reader" BY <1>5, <1>6, <2>1, <2>2
    <2>3. CASE r = "none" BY <1>5, <1>6, <2>1, <2>3
    <2> QED BY <2>2, <2>3
  <1>12. Cardinality(Role("writer")') <= 1 BY <1>6, FS_EmptySet
  <1>13. ReadersOrWriter' BY <1>6, <1>10, <1>11, <1>12 DEF ReadersOrWriter
  <1>14. Roles' BY <1>1, <1>2, <1>13 DEF Roles, IInv
  <1> QED BY <1>3, <1>14 DEF IInv

(* write_out()                                                               *)
LEMMA WriteOutInv == ASSUME IInv, NEW t \in Thread, WriteOut(t) PROVE IInv'
  <1>1. {"full", "nonzero", "readOK", "writeOK"} \subseteq Conditions BY DEF Conditions
  <1>2. \E c \in {"readOK", "writeOK"}, n \in {-1, 1} : cond' = [cond EXCEPT ![c] = Notified(@, n)]
    BY DEF WriteOut, signal, broadcast
  <1>3. PICK c \in {"readOK", "writeOK"}, n \in {-1, 1} : cond' = [cond EXCEPT ![c] = Notified(@, n)]
    BY <1>2
  <1>4. pc' = pc BY DEF WriteOut
  <1>5. /\ cond' \in [Conditions -> WaitSets(Thread)] /\ Waits'
        /\ \A d \in Conditions : d # c => cond'[d] = cond[d]
    BY <1>1, <1>3, <1>4, NotifyCond DEF IInv
  <1>6. cond'["full"] = cond["full"] /\ cond'["nonzero"] = cond["nonzero"] BY <1>1, <1>5
  <1>7. /\ Inside(t, "writer") /\ writing' = FALSE /\ nw' = nw - 1 /\ nr' = nr
        /\ role' = [role EXCEPT ![t] = "none"]
        /\ UNCHANGED <<kind, jammed, togo, state, count, pc, calls, seen, entered>>
    BY DEF WriteOut, is
  <1> QED BY <1>5, <1>6, <1>7, WriterLeaves

(* write_to_read()                                                           *)
LEMMA WriteToReadInv == ASSUME IInv, NEW t \in Thread, WriteToRead(t) PROVE IInv'
  <1>1. {"full", "nonzero", "readOK"} \subseteq Conditions BY DEF Conditions
  <1>2. pc' = pc BY DEF WriteToRead
  <1>3. /\ cond' \in [Conditions -> WaitSets(Thread)] /\ Waits'
        /\ cond'["full"] = cond["full"] /\ cond'["nonzero"] = cond["nonzero"]
    <2>1. CASE nw = 1
      <3>1. cond' = [cond EXCEPT !["readOK"] = Notified(@, -1)] BY <2>1 DEF WriteToRead, broadcast
      <3> QED BY <1>1, <1>2, <3>1, NotifyCond DEF IInv
    <2>2. CASE nw # 1
      <3>1. cond' = cond BY <2>2 DEF WriteToRead
      <3> QED BY <1>2, <3>1, SameCond DEF IInv, Base, Types
    <2> QED BY <2>1, <2>2
  <1>4. /\ Inside(t, "writer") /\ writing' = FALSE /\ nw' = nw - 1 /\ nr' = nr + 1
        /\ role' = [role EXCEPT ![t] = "reader"]
        /\ UNCHANGED <<kind, jammed, togo, state, count, pc, calls, seen, entered>>
    BY DEF WriteToRead, is
  <1> QED BY <1>3, <1>4, WriterLeaves

------------------------------------------------------------------------------
(* Every step preserves the invariant.                                       *)
LEMMA NextInv == ASSUME IInv, [Next]_vars PROVE IInv'
  <1>1. CASE UNCHANGED vars
    <2>1. UNCHANGED <<kind, cond, jammed, togo, state, count, nr, nw, writing, pc, role, calls, entered, seen>>
      BY <1>1 DEF vars, object
    <2>2. Types' BY <2>1 DEF IInv, Base, Types
    <2>3. Waits' BY <2>1, SameCond DEF IInv
    <2>4. BarrierCounts' BY <2>1, BarrierKept DEF IInv
    <2>5. Units' BY <2>1, UnitsKept DEF IInv
    <2>6. Roles' BY <2>1, RolesKept DEF IInv
    <2> QED BY <2>2, <2>3, <2>4, <2>5, <2>6 DEF IInv, Base
  <1>2. ASSUME NEW t \in Thread, PCall(t) \/ PResume(t) PROVE IInv'
    <2>1. pc[t] \in {"out", "p"} /\ ~InWait(t)
      BY <1>2, OutIsOut DEF PCall, PResume, Call, Resume, IInv
    <2>2. calls' \in [Thread -> 0 .. MaxCalls]
      BY <1>2, MaxCallsAssumption DEF PCall, PResume, Call, IInv, Base, Types
    <2>3. /\ P(t)
          /\ UNCHANGED <<kind, jammed, togo, state, nr, nw, writing, role, seen, entered>>
      BY <1>2 DEF PCall, PResume
    <2> QED BY <2>1, <2>2, <2>3, PInv
  <1>3. ASSUME NEW t \in Thread, ReadInCall(t) \/ ReadInResume(t) PROVE IInv'
    <2>1. pc[t] \in {"out", "read_in"} /\ ~InWait(t) /\ role[t] = "none"
      BY <1>3, OutIsOut DEF ReadInCall, ReadInResume, Call, Resume, IInv, Roles
    <2>2. calls' \in [Thread -> 0 .. MaxCalls]
      BY <1>3, MaxCallsAssumption DEF ReadInCall, ReadInResume, Call, IInv, Base, Types
    <2>3. /\ ReadIn(t)
          /\ UNCHANGED <<kind, jammed, togo, state, count, nw, writing, seen, entered>>
      BY <1>3 DEF ReadInCall, ReadInResume
    <2> QED BY <2>1, <2>2, <2>3, ReadInInv
  <1>4. ASSUME NEW t \in Thread, WriteInCall(t) \/ WriteInResume(t) PROVE IInv'
    <2>1. pc[t] \in {"out", "write_in"} /\ ~InWait(t) /\ role[t] = "none"
      BY <1>4, OutIsOut DEF WriteInCall, WriteInResume, Call, Resume, IInv, Roles
    <2>2. calls' \in [Thread -> 0 .. MaxCalls]
      BY <1>4, MaxCallsAssumption DEF WriteInCall, WriteInResume, Call, IInv, Base, Types
    <2>3. /\ WriteIn(t) /\ nw' = IF pc[t] = "out" THEN nw + 1 ELSE nw
          /\ UNCHANGED <<kind, jammed, togo, state, count, nr, seen, entered>>
      BY <1>4 DEF WriteInCall, WriteInResume, Call, Resume
    <2> QED BY <2>1, <2>2, <2>3, WriteInInv
  <1>5. CASE Next
    <2>1. PICK t \in Thread :
            \/ Wake(t) \/ EnterResume(t) \/ WaitResume(t) \/ Enter(t)
            \/ Post(t) \/ Clear(t) \/ Wait(t)
            \/ PCall(t) \/ PResume(t) \/ V(t) \/ VRaise(t)
            \/ ReadInCall(t) \/ ReadInResume(t) \/ ReadOut(t) \/ ReadOutRaise(t)
            \/ WriteInCall(t) \/ WriteInResume(t) \/ WriteOut(t) \/ WriteToRead(t) \/ WriteRaise(t)
      BY <1>5 DEF Next, Goes
    <2> QED BY <1>2, <1>3, <1>4, <2>1, WakeInv, LeaveInv, EnterInv, PostInv, RaiseInv, WaitInv,
               VInv, ReadOutInv, WriteOutInv, WriteToReadInv
  <1> QED BY <1>1, <1>5

(* The inductive invariant holds in every reachable state.                   *)
THEOREM InvHolds == Spec => []IInv
  <1>1. Init => IInv BY InitInv
  <1>2. IInv /\ [Next]_vars => IInv' BY NextInv
  <1> QED BY <1>1, <1>2, PTL DEF Spec

(* Every variable keeps its type: togo and count stay within N, nr and nw    *)
(* within the number of threads, although nothing in sync.py checks it.      *)
THEOREM TypeHolds == Spec => []TypeOK
  <1>1. IInv => TypeOK
    <2> SUFFICES ASSUME IInv PROVE TypeOK OBVIOUS
    <2>1. Role("reader") \in SUBSET Thread /\ Role("writer") \cup BlockedIn("write_in") \in SUBSET Thread
      BY DEF Role, BlockedIn
    <2>2. nr \in 0 .. Cardinality(Thread) /\ nw \in 0 .. Cardinality(Thread)
      BY <2>1, FiniteThreads DEF IInv, Roles, ReadersOrWriter
    <2> QED BY <2>2 DEF TypeOK, IInv, Base, Types, BarrierCounts, Units
  <1> QED BY <1>1, InvHolds, PTL

(* Division of N * q + r by N.                                               *)
LEMMA Quotient ==
  ASSUME NEW q \in Nat, NEW r \in 0 .. N - 1
  PROVE  (N * q + r) \div N = q
  <1> DEFINE d == (N * q + r) \div N
             m == (N * q + r) % N
  <1>1. N \in Nat \ {0} BY NAssumption
  <1>2. N * q \in Nat BY <1>1
  <1>3. d \in Int /\ m \in 0 .. N - 1 /\ N * q + r = N * d + m BY <1>1, <1>2
  <1> HIDE DEF d, m
  <1>4. N * (q - d) = m - r
    <2>1. N * (q - d) = N * q - N * d BY <1>1, <1>3
    <2>2. N * d \in Int BY <1>1, <1>3
    <2> QED BY <1>1, <1>2, <1>3, <2>1, <2>2
  <1>5. CASE q - d >= 1
    <2>1. N * (q - d) >= N BY <1>1, <1>3, <1>5
    <2> QED BY <1>1, <1>3, <1>4, <2>1
  <1>6. CASE q - d <= -1
    <2>1. N * (q - d) <= -N BY <1>1, <1>3, <1>6
    <2> QED BY <1>1, <1>3, <1>4, <2>1
  <1>7. CASE q = d BY <1>7 DEF d
  <1> QED BY <1>3, <1>5, <1>6, <1>7

(* barrier: no thread gets past enter() before its group of N is complete,   *)
(* however far ahead other threads are.                                      *)
THEOREM BarrierNeverLeaks == Spec => []BarrierHolds
  <1>1. IInv => BarrierHolds
    <2> SUFFICES ASSUME IInv PROVE BarrierHolds OBVIOUS
    <2>1. /\ togo \in 1 .. N /\ entered \in Nat /\ N \in Nat \ {0}
          /\ Cardinality(cond["full"].later) = N - togo
      BY NAssumption DEF IInv, BarrierCounts
    <2>2. PICK q \in Nat : entered = N * q + (N - togo) BY DEF IInv, BarrierCounts
    <2>3. entered \div N = q BY <2>1, <2>2, Quotient
    <2>4. cond["full"].later \subseteq BlockedIn("enter")
      <3>1. "full" \in Conditions /\ At["full"] = "enter" BY DEF Conditions, At
      <3>2. cond["full"].later \subseteq Thread BY <3>1, WaitSetFacts DEF IInv, Base, Types
      <3> QED BY <3>1, <3>2 DEF IInv, Base, Waits, Present, BlockedIn
    <2>5. BlockedIn("enter") \in SUBSET Thread BY DEF BlockedIn
    <2>6. /\ Cardinality(cond["full"].later) <= Cardinality(BlockedIn("enter"))
          /\ Cardinality(BlockedIn("enter")) \in Nat
      BY <2>4, <2>5, FiniteThreads, FS_Subset
    <2>7. N * q \in Int BY <2>1
    <2>8. entered - Cardinality(BlockedIn("enter")) <= N * q BY <2>1, <2>2, <2>6, <2>7
    <2> QED BY <2>3, <2>8 DEF BarrierHolds
  <1> QED BY <1>1, InvHolds, PTL

(* semaphore: a unit that v() gave back never lies idle beside a sleeping    *)
(* thread without another thread on its way to it.                           *)
THEOREM UnitsNeverIdle == Spec => []NoIdleUnit
  <1>1. IInv => NoIdleUnit
    <2> SUFFICES ASSUME IInv PROVE NoIdleUnit OBVIOUS
    <2>1. "nonzero" \in Conditions BY DEF Conditions
    <2>2. ASSUME NEW t \in Thread, pc[t] = "p", InWait(t)
          PROVE  t \in Present(cond["nonzero"])
      <3>1. PICK c \in Conditions : t \in Present(cond[c]) BY <2>2 DEF InWait
      <3>2. At[c] = "p" BY <2>2, <3>1 DEF IInv, Base, Waits
      <3>3. c = "nonzero" BY <3>2 DEF At, Conditions
      <3> QED BY <3>1, <3>3
    <2>3. {t \in BlockedIn("p") : ~InWait(t)} = Coming
      BY <2>1, <2>2 DEF BlockedIn, Coming, InWait
    <2> QED BY <2>3 DEF NoIdleUnit, IInv, Units
  <1> QED BY <1>1, InvHolds, PTL

(* mrsw: one writer or several readers, and nr, nw and writing say who is    *)
(* inside and who waits to write.                                            *)
THEOREM ReadersExcludeWriters == Spec => []ReadersOrWriter
  <1>1. IInv => ReadersOrWriter BY DEF IInv, Roles
  <1> QED BY <1>1, InvHolds, PTL
=============================================================================
