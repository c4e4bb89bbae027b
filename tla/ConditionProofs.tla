--------------------------- MODULE ConditionProofs ---------------------------
(* Proofs about Condition, for any finite set of threads and any arguments   *)
(* of broadcast(): the counters are exact, there is one baton, and the three *)
(* locks implement AbstractCondition.                                        *)
EXTENDS Condition, FiniteSetTheorems, TLAPS

(* Who has idlock, who has the mutex inside wait(), the id of every waiter   *)
(* and the argument of every broadcast.                                      *)
HasIdlock(t) == pc[t] \in {"wait", "turn", "notify"}

IdlockExact == \A t \in Thread : HasIdlock(t) <=> idlock = t

MutexInWait == \A t \in Thread :
  /\ pc[t] \in {"wait", "pended"} => mutex = t
  /\ pc[t] \in {"blocked", "checkout", "turn", "woken"} => mutex # t

Ids == \A t \in Waiters : myid[t] <= id

Notifying == \A t \in Thread : pc[t] = "notify" => id < MaxId /\ num[t] \in Nums

(* OneBaton without cardinalities.                                           *)
Holders == {t \in Thread : pc[t] \in {"checkout", "turn"}}

Baton ==
  /\ releasing <=> torelease > 0
  /\ checkout <=> (~releasing \/ Holders # {})
  /\ \A t, u \in Holders : t = u
  /\ Holders # {} => releasing

Control == TypeOK /\ IdlockExact /\ MutexInWait /\ Notifying
IInv == Control /\ Ids /\ CountsExact /\ Baton

Later == Waiters \ Earlier

------------------------------------------------------------------------------
(* Min of two numbers is the smaller one.                                    *)
LEMMA MinOfTwo ==
  ASSUME NEW a \in Int, NEW b \in Int
  PROVE  Min({a, b}) = IF a <= b THEN a ELSE b
  <1>1. \E x \in {a, b} : \A y \in {a, b} : x <= y OBVIOUS
  <1>2. Min({a, b}) \in {a, b} /\ \A y \in {a, b} : Min({a, b}) <= y BY <1>1 DEF Min
  <1> QED BY <1>2

(* The sets of waiters are finite, and there are as many of them as the      *)
(* counters say.                                                             *)
LEMMA Finite ==
  /\ IsFiniteSet(Waiters) /\ IsFiniteSet(Earlier) /\ IsFiniteSet(Later)
  /\ Cardinality(Waiters) \in Nat /\ Cardinality(Earlier) \in Nat /\ Cardinality(Later) \in Nat
  /\ Cardinality(Waiters) = Cardinality(Earlier) + Cardinality(Later)
  /\ Cardinality(Waiters) <= Cardinality(Thread)
  /\ Cardinality(Thread) \in Nat
  <1>1. Waiters \in SUBSET Thread /\ Earlier \in SUBSET Waiters /\ Later \in SUBSET Waiters
    BY DEF Waiters, Earlier, Later
  <1>2. IsFiniteSet(Thread) BY ThreadAssumption
  <1>3. IsFiniteSet(Waiters) /\ Cardinality(Waiters) <= Cardinality(Thread)
    BY <1>1, <1>2, FS_Subset
  <1>4. IsFiniteSet(Earlier) /\ IsFiniteSet(Later) BY <1>1, <1>3, FS_Subset
  <1>5. Earlier \cap Later = {} /\ Earlier \cup Later = Waiters BY <1>1 DEF Later
  <1>6. Cardinality(Waiters) = Cardinality(Earlier) + Cardinality(Later) - Cardinality({})
    BY <1>4, <1>5, FS_Union
  <1>7. Cardinality({}) = 0 BY FS_EmptySet
  <1>8. /\ Cardinality(Waiters) \in Nat /\ Cardinality(Earlier) \in Nat
        /\ Cardinality(Later) \in Nat /\ Cardinality(Thread) \in Nat
    BY <1>2, <1>3, <1>4, FS_CardinalityType
  <1> QED BY <1>3, <1>4, <1>6, <1>7, <1>8

(* The baton in terms of cardinalities.                                      *)
LEMMA BatonIsOne == ASSUME TypeOK, Baton PROVE OneBaton
  <1>1. IsFiniteSet(Holders)
    BY ThreadAssumption, FS_Subset DEF Holders
  <1>2. Cardinality(Holders) <= (IF releasing THEN 1 ELSE 0)
    <2>1. CASE Holders = {}
      <3>1. Cardinality(Holders) = 0 BY <2>1, FS_EmptySet
      <3> QED BY <3>1
    <2>2. CASE Holders # {}
      <3>1. PICK t \in Holders : TRUE BY <2>2
      <3>2. Holders = {t} BY <3>1 DEF Baton
      <3>3. Cardinality(Holders) = 1 BY <3>2, FS_Singleton
      <3>4. releasing BY <2>2 DEF Baton
      <3> QED BY <3>3, <3>4
    <2> QED BY <2>1, <2>2
  <1> QED BY <1>2 DEF Baton, OneBaton, Holders

(* The invariant holds initially.                                            *)
LEMMA InitInv == ASSUME Init PROVE IInv
  <1>1. TypeOK
    <2>1. Cardinality(Thread) \in Nat BY Finite
    <2>2. 0 \in 0 .. Cardinality(Thread) /\ 0 \in 0 .. MaxId BY <2>1, BoundAssumption
    <2>3. pc \in [Thread -> pcs] BY DEF Init, pcs
    <2> QED BY <2>2, <2>3 DEF Init, TypeOK
  <1>2. IdlockExact /\ MutexInWait /\ Notifying
    BY ThreadAssumption DEF Init, IdlockExact, HasIdlock, MutexInWait, Notifying, Idle
  <1>3. Waiters = {} BY DEF Init, Waiters, Idle
  <1>4. Earlier = {} /\ Waiters \ Earlier = {} BY <1>3 DEF Earlier
  <1>5. Cardinality({}) = 0 BY FS_EmptySet
  <1>6. CountsExact BY <1>4, <1>5 DEF Init, CountsExact
  <1>7. Holders = {} BY DEF Init, Holders, Idle
  <1>8. Baton BY <1>7 DEF Init, Baton
  <1> QED BY <1>1, <1>2, <1>3, <1>6, <1>8 DEF IInv, Control, Ids

(* Steps that change neither the counters nor who waits.                     *)
LEMMA CountsKept ==
  ASSUME IInv, UNCHANGED counters, Waiters' = Waiters,
         \A t \in Waiters : myid'[t] = myid[t]
  PROVE  Ids' /\ CountsExact'
  <1> USE DEF counters
  <1>1. Earlier' = Earlier BY DEF Earlier
  <1> QED BY <1>1 DEF IInv, Ids, CountsExact

(* Steps that change neither the baton nor who has it.                       *)
LEMMA BatonKept ==
  ASSUME IInv, UNCHANGED <<torelease, releasing, checkout>>, Holders' = Holders
  PROVE  Baton'
  BY DEF IInv, Baton

(* The mutex is acquired and released outside wait().                        *)
LEMMA AcquireInv == ASSUME IInv, NEW t \in Thread, Acquire(t) \/ Release(t) PROVE IInv'
  <1> USE DEF Acquire, Release, counters
  <1>1. Control'
    BY ThreadAssumption DEF IInv, Control, TypeOK, IdlockExact, HasIdlock, MutexInWait, Notifying, Idle
  <1>2. Waiters' = Waiters /\ Holders' = Holders BY DEF Waiters, Holders
  <1>3. Ids' /\ CountsExact' BY <1>2, CountsKept
  <1>4. Baton' BY <1>2, BatonKept
  <1> QED BY <1>1, <1>3, <1>4 DEF IInv

(* wait() has idlock.                                                        *)
LEMMA WaitCallInv == ASSUME IInv, NEW t \in Thread, WaitCall(t) PROVE IInv'
  <1> USE DEF WaitCall, goto, LockId, counters
  <1>1. Control'
    BY ThreadAssumption
    DEF IInv, Control, TypeOK, pcs, IdlockExact, HasIdlock, MutexInWait, Notifying, Idle
  <1>2. Waiters' = Waiters /\ Holders' = Holders
    BY DEF Waiters, Holders, IInv, Control, TypeOK, Idle
  <1>3. Ids' /\ CountsExact' BY <1>2, CountsKept
  <1>4. Baton' BY <1>2, BatonKept
  <1> QED BY <1>1, <1>3, <1>4 DEF IInv

(* wait() counts its caller as pending.                                      *)
LEMMA WaitPendInv == ASSUME IInv, NEW t \in Thread, WaitPend(t) PROVE IInv'
  <1> USE DEF WaitPend, goto, UnlockId
  <1>1. t \notin Waiters /\ Waiters' = Waiters \cup {t} /\ Holders' = Holders
    BY DEF Waiters, Holders, IInv, Control, TypeOK
  <1>2. myid'[t] = id /\ id' = id /\ id \in Int /\ \A u \in Thread : u # t => myid'[u] = myid[u]
    BY DEF IInv, Control, TypeOK
  <1>3. Earlier' = Earlier BY <1>1, <1>2 DEF Earlier, Waiters
  <1>4. Later' = Later \cup {t} /\ t \notin Later BY <1>1, <1>3 DEF Later, Earlier
  <1>5. Cardinality(Later') = Cardinality(Later) + 1 BY <1>4, Finite, FS_AddElement
  <1>6. waiting = Cardinality(Earlier) /\ pending = Cardinality(Later) /\ torelease <= waiting
    BY DEF IInv, CountsExact, Later
  <1>7. CountsExact' BY <1>3, <1>5, <1>6 DEF CountsExact, Later
  <1>8. Ids' BY <1>1, <1>2 DEF IInv, Ids, Waiters
  <1>9. pending' \in 0 .. Cardinality(Thread)
    <2>1. /\ IsFiniteSet(Later') /\ Cardinality(Later') <= Cardinality(Thread)
          /\ Cardinality(Later') \in Nat
      <3>1. Later' \in SUBSET Thread BY DEF Later, Waiters
      <3> QED BY <3>1, ThreadAssumption, FS_Subset, FS_CardinalityType
    <2> QED BY <1>5, <1>6, <2>1, Finite
  <1>10. Control'
    BY <1>9, ThreadAssumption
    DEF IInv, Control, TypeOK, pcs, IdlockExact, HasIdlock, MutexInWait, Notifying
  <1>11. Baton' BY <1>1, BatonKept
  <1> QED BY <1>7, <1>8, <1>10, <1>11 DEF IInv

(* wait() gives up the mutex.                                                *)
LEMMA WaitReleaseInv == ASSUME IInv, NEW t \in Thread, WaitRelease(t) PROVE IInv'
  <1> USE DEF WaitRelease, goto, counters
  <1>1. Control'
    BY ThreadAssumption
    DEF IInv, Control, TypeOK, pcs, IdlockExact, HasIdlock, MutexInWait, Notifying
  <1>2. Waiters' = Waiters /\ Holders' = Holders
    BY DEF Waiters, Holders, IInv, Control, TypeOK
  <1>3. Ids' /\ CountsExact' BY <1>2, CountsKept
  <1>4. Baton' BY <1>2, BatonKept
  <1> QED BY <1>1, <1>3, <1>4 DEF IInv

(* A waiter gets the baton: the only one.                                    *)
LEMMA WaitCheckoutInv == ASSUME IInv, NEW t \in Thread, WaitCheckout(t) PROVE IInv'
  <1> USE DEF WaitCheckout, goto, counters
  <1>1. Control'
    BY ThreadAssumption
    DEF IInv, Control, TypeOK, pcs, IdlockExact, HasIdlock, MutexInWait, Notifying
  <1>2. Waiters' = Waiters BY DEF Waiters, IInv, Control, TypeOK
  <1>3. Ids' /\ CountsExact' BY <1>2, CountsKept
  <1>4. releasing /\ Holders = {} BY DEF IInv, Baton
  <1>5. Holders' = Holders \cup {t} BY DEF Holders, IInv, Control, TypeOK
  <1>6. checkout' /\ releasing' = releasing /\ torelease' = torelease OBVIOUS
  <1>7. Baton' BY <1>4, <1>5, <1>6 DEF IInv, Baton
  <1> QED BY <1>1, <1>3, <1>7 DEF IInv

(* It has idlock too.                                                        *)
LEMMA WaitLockInv == ASSUME IInv, NEW t \in Thread, WaitLock(t) PROVE IInv'
  <1> USE DEF WaitLock, goto, LockId, counters
  <1>1. Control'
    BY ThreadAssumption
    DEF IInv, Control, TypeOK, pcs, IdlockExact, HasIdlock, MutexInWait, Notifying
  <1>2. Waiters' = Waiters /\ Holders' = Holders
    BY DEF Waiters, Holders, IInv, Control, TypeOK
  <1>3. Ids' /\ CountsExact' BY <1>2, CountsKept
  <1>4. Baton' BY <1>2, BatonKept
  <1> QED BY <1>1, <1>3, <1>4 DEF IInv

(* The release is not for this waiter: it hands the baton back.              *)
LEMMA WaitAgainInv == ASSUME IInv, NEW t \in Thread, WaitAgain(t) PROVE IInv'
  <1> USE DEF WaitAgain, goto, UnlockId, counters
  <1>1. Control'
    BY ThreadAssumption
    DEF IInv, Control, TypeOK, pcs, IdlockExact, HasIdlock, MutexInWait, Notifying
  <1>2. Waiters' = Waiters BY DEF Waiters, IInv, Control, TypeOK
  <1>3. Ids' /\ CountsExact' BY <1>2, CountsKept
  <1>4. t \in Holders BY DEF Holders
  <1>5. Holders = {t} /\ releasing BY <1>4 DEF IInv, Baton
  <1>6. Holders' = {} BY <1>5 DEF Holders, IInv, Control, TypeOK
  <1>7. ~checkout' /\ releasing' = releasing /\ torelease' = torelease OBVIOUS
  <1>8. Baton' BY <1>5, <1>6, <1>7 DEF IInv, Baton
  <1> QED BY <1>1, <1>3, <1>8 DEF IInv

(* A waiter whose turn it is leaves alone; id starts again only if nobody is *)
(* left.                                                                     *)
LEMMA LeaveSets ==
  ASSUME IInv, NEW t \in Thread, WaitLeave(t)
  PROVE  /\ t \in Earlier
         /\ Waiters' = Waiters \ {t} /\ Earlier' = Earlier \ {t} /\ Later' = Later
         /\ id' = id \/ (id' = 0 /\ Waiters' = {})
  <1> USE DEF WaitLeave, goto, UnlockId
  <1>1. t \in Waiters BY DEF Waiters
  <1>2. Waiters' = Waiters \ {t} BY DEF Waiters, IInv, Control, TypeOK
  <1>3. t \in Earlier BY <1>1 DEF MyTurn, Earlier
  <1>4. id' = id \/ (id' = 0 /\ waiting = 1 /\ pending = 0) BY DEF PassOn, Reset
  <1>5. ASSUME id' # id PROVE Waiters' = {} /\ Earlier = {t} /\ Later = {}
    <2>1. Cardinality(Earlier) = 1 /\ Cardinality(Later) = 0
      BY <1>4, <1>5 DEF IInv, CountsExact, Later
    <2>2. Later = {} BY <2>1, Finite, FS_EmptySet
    <2>3. PICK u : Earlier = {u} BY <2>1, Finite, FS_Singleton
    <2>4. Waiters = {t} BY <1>3, <2>2, <2>3 DEF Later, Earlier
    <2> QED BY <1>2, <1>3, <2>2, <2>3, <2>4
  <1>6. Earlier' = Earlier \ {t} /\ Later' = Later
    <2>1. CASE id' = id BY <1>2, <1>3, <2>1 DEF Earlier, Later
    <2>2. CASE id' # id BY <1>5, <2>2 DEF Earlier, Later
    <2> QED BY <2>1, <2>2
  <1> QED BY <1>2, <1>3, <1>4, <1>5, <1>6

(* Both counters go down by one, and the baton goes to the next one or back. *)
LEMMA WaitLeaveInv == ASSUME IInv, NEW t \in Thread, WaitLeave(t) PROVE IInv'
  <1>1. /\ t \in Earlier
        /\ Waiters' = Waiters \ {t} /\ Earlier' = Earlier \ {t} /\ Later' = Later
        /\ id' = id \/ (id' = 0 /\ Waiters' = {})
    BY LeaveSets
  <1> USE DEF WaitLeave, goto, UnlockId
  <1>2. t \in Holders BY DEF Holders
  <1>3. Holders = {t} /\ releasing /\ torelease > 0 BY <1>2 DEF IInv, Baton
  <1>4. Holders' = {} BY <1>3 DEF Holders, IInv, Control, TypeOK
  <1>5. /\ waiting = Cardinality(Earlier) /\ pending = Cardinality(Later)
        /\ torelease <= waiting /\ torelease \in Nat /\ waiting \in Nat /\ pending \in Nat
    BY Finite DEF IInv, Control, TypeOK, CountsExact, Later
  <1>6. Cardinality(Earlier') = Cardinality(Earlier) - 1
    BY <1>1, Finite, FS_RemoveElement
  <1>7. CountsExact' BY <1>1, <1>5, <1>6 DEF CountsExact, Later
  <1>8. Ids' BY <1>1 DEF IInv, Ids
  <1>9. /\ checkout' \in BOOLEAN /\ releasing' \in BOOLEAN
        /\ releasing' <=> torelease > 1
        /\ checkout' <=> ~releasing'
    <2>1. checkout = TRUE BY <1>3 DEF IInv, Baton, Control, TypeOK
    <2>2. CASE torelease > 1 BY <1>3, <2>1, <2>2 DEF PassOn, IInv, Control, TypeOK
    <2>3. CASE ~(torelease > 1) BY <2>1, <2>3 DEF PassOn
    <2> QED BY <2>2, <2>3
  <1>10. torelease' > 0 <=> torelease > 1 BY <1>5
  <1>11. Baton' BY <1>4, <1>9, <1>10 DEF Baton
  <1>12. TypeOK'
    <2>1. id' \in 0 .. MaxId BY <1>1, BoundAssumption DEF IInv, Control, TypeOK
    <2>2. waiting' \in 0 .. Cardinality(Thread) /\ torelease' \in 0 .. Cardinality(Thread)
      BY <1>3, <1>5, Finite DEF IInv, Control, TypeOK
    <2> QED BY <1>9, <2>1, <2>2 DEF IInv, Control, TypeOK, pcs
  <1>13. IdlockExact' /\ MutexInWait'
    BY ThreadAssumption DEF IInv, Control, TypeOK, IdlockExact, HasIdlock, MutexInWait
  <1>14. Notifying'
    <2>1. \A u \in Thread : pc'[u] # "notify"
      BY DEF IInv, Control, TypeOK, IdlockExact, HasIdlock
    <2> QED BY <2>1 DEF Notifying
  <1> QED BY <1>7, <1>8, <1>11, <1>12, <1>13, <1>14 DEF IInv, Control

(* wait() returns with the mutex.                                            *)
LEMMA WaitReturnInv == ASSUME IInv, NEW t \in Thread, WaitReturn(t) PROVE IInv'
  <1> USE DEF WaitReturn, goto, counters
  <1>1. Control'
    BY ThreadAssumption
    DEF IInv, Control, TypeOK, pcs, IdlockExact, HasIdlock, MutexInWait, Notifying, Idle
  <1>2. Waiters' = Waiters /\ Holders' = Holders
    BY DEF Waiters, Holders, IInv, Control, TypeOK, Idle
  <1>3. Ids' /\ CountsExact' BY <1>2, CountsKept
  <1>4. Baton' BY <1>2, BatonKept
  <1> QED BY <1>1, <1>3, <1>4 DEF IInv

(* broadcast() has idlock.                                                   *)
LEMMA BroadcastCallInv ==
  ASSUME IInv, NEW t \in Thread, NEW n \in Nums, BroadcastCall(t, n)
  PROVE  IInv'
  <1> USE DEF BroadcastCall, goto, LockId, counters
  <1>1. Control'
    BY ThreadAssumption
    DEF IInv, Control, TypeOK, pcs, IdlockExact, HasIdlock, MutexInWait, Notifying, Idle
  <1>2. Waiters' = Waiters /\ Holders' = Holders
    BY DEF Waiters, Holders, IInv, Control, TypeOK, Idle
  <1>3. Ids' /\ CountsExact' BY <1>2, CountsKept
  <1>4. Baton' BY <1>2, BatonKept
  <1> QED BY <1>1, <1>3, <1>4 DEF IInv

(* After a broadcast() every waiter has an id below the current one.         *)
LEMMA BroadcastEarlier ==
  ASSUME IInv, NEW t \in Thread, Broadcast(t)
  PROVE  /\ Waiters' = Waiters /\ Earlier' = Waiters /\ Later' = {}
         /\ waiting' = Cardinality(Waiters)
         /\ torelease' \in 0 .. Cardinality(Waiters)
         /\ torelease <= torelease'
  <1> USE DEF Broadcast, goto
  <1>1. Waiters' = Waiters BY DEF Waiters, IInv, Control, TypeOK, Idle
  <1>2. /\ waiting = Cardinality(Earlier) /\ pending = Cardinality(Later)
        /\ torelease <= waiting /\ torelease \in Nat /\ waiting \in Nat /\ pending \in Nat
    BY Finite DEF IInv, Control, TypeOK, CountsExact, Later
  <1>3. \A u \in Waiters : myid[u] <= id /\ myid[u] \in Nat /\ id \in Nat
    BY DEF IInv, Ids, Control, TypeOK, Waiters
  <1>4. Earlier' = Waiters
    <2>1. CASE pending # 0
      <3>1. id' = id + 1 BY <2>1
      <3>2. \A u \in Waiters : myid'[u] < id' BY <1>3, <3>1
      <3> QED BY <1>1, <3>2 DEF Earlier
    <2>2. CASE pending = 0
      <3>1. Later = {} BY <1>2, <2>2, Finite, FS_EmptySet
      <3>2. Earlier = Waiters BY <3>1 DEF Later, Earlier
      <3> QED BY <1>1, <2>2, <3>2 DEF Earlier
    <2> QED BY <2>1, <2>2
  <1>5. Later' = {} BY <1>1, <1>4 DEF Later
  <1>6. waiting' = Cardinality(Waiters) BY <1>2, Finite
  <1>7. num[t] = -1 \/ num[t] \in Nat
    BY NumsAssumption DEF IInv, Control, Notifying
  <1>8. torelease' = NewTorelease(num[t]) OBVIOUS
  <1>9. torelease' \in 0 .. waiting' /\ torelease <= torelease'
    <2>1. CASE num[t] = -1 BY <1>2, <1>8, <2>1 DEF NewTorelease
    <2>2. CASE num[t] \in Nat
      <3>1. torelease' = Min({waiting + pending, torelease + num[t]})
        BY <1>8, <2>2 DEF NewTorelease
      <3>2. torelease' = IF waiting + pending <= torelease + num[t]
                           THEN waiting + pending ELSE torelease + num[t]
        BY <1>2, <2>2, <3>1, MinOfTwo
      <3> QED BY <1>2, <2>2, <3>2
    <2> QED BY <1>7, <2>1, <2>2
  <1> QED BY <1>1, <1>4, <1>5, <1>6, <1>9

(* broadcast() turns the pending waiters into waiting ones, and hands out    *)
(* the baton if it is at home.                                               *)
LEMMA BroadcastInv == ASSUME IInv, NEW t \in Thread, Broadcast(t) PROVE IInv'
  <1>1. /\ Waiters' = Waiters /\ Earlier' = Waiters /\ Later' = {}
        /\ waiting' = Cardinality(Waiters)
        /\ torelease' \in 0 .. Cardinality(Waiters)
        /\ torelease <= torelease'
    BY BroadcastEarlier
  <1> USE DEF Broadcast, goto, UnlockId
  <1>2. Cardinality(Waiters) \in Nat /\ Cardinality(Waiters) <= Cardinality(Thread)
        /\ Cardinality(Thread) \in Nat
    BY Finite
  <1>3. CountsExact'
    <2>1. Cardinality({}) = 0 BY FS_EmptySet
    <2> QED BY <1>1, <1>2, <2>1 DEF CountsExact, Later
  <1>4. Ids'
    <2>1. \A u \in Waiters' : myid'[u] < id' BY <1>1 DEF Earlier
    <2>2. \A u \in Waiters' : myid'[u] \in Int /\ id' \in Int
      BY DEF IInv, Control, TypeOK, Waiters
    <2> QED BY <2>1, <2>2 DEF Ids
  <1>5. torelease \in Nat BY DEF IInv, Control, TypeOK
  <1>6. Holders' = Holders BY DEF Holders, IInv, Control, TypeOK, Idle
  <1>7. checkout' \in BOOLEAN /\ releasing' \in BOOLEAN /\ Baton'
    <2>1. CASE torelease' # 0 /\ ~releasing
      <3>1. releasing' = TRUE /\ checkout' = FALSE BY <2>1 DEF StartRelease
      <3>2. Holders = {} BY <2>1 DEF IInv, Baton
      <3>3. torelease' > 0 BY <1>1, <1>2, <2>1
      <3> QED BY <1>6, <3>1, <3>2, <3>3 DEF Baton
    <2>2. CASE ~(torelease' # 0 /\ ~releasing)
      <3>1. releasing' = releasing /\ checkout' = checkout BY <2>2 DEF StartRelease
      <3>2. releasing <=> torelease' > 0
        <4>1. CASE releasing
          <5>1. torelease > 0 BY <4>1 DEF IInv, Baton
          <5> QED BY <1>1, <1>2, <1>5, <4>1, <5>1
        <4>2. CASE ~releasing BY <2>2, <4>2
        <4> QED BY <4>1, <4>2
      <3> QED BY <1>6, <3>1, <3>2 DEF IInv, Baton, Control, TypeOK
    <2> QED BY <2>1, <2>2
  <1>8. TypeOK'
    <2>1. id' \in 0 .. MaxId
      BY BoundAssumption DEF IInv, Control, TypeOK, Notifying
    <2>2. /\ waiting' \in 0 .. Cardinality(Thread) /\ torelease' \in 0 .. Cardinality(Thread)
          /\ pending' \in 0 .. Cardinality(Thread)
      BY <1>1, <1>2
    <2> QED BY <1>7, <2>1, <2>2 DEF IInv, Control, TypeOK, pcs, Idle
  <1>9. IdlockExact' /\ MutexInWait'
    BY ThreadAssumption DEF IInv, Control, TypeOK, IdlockExact, HasIdlock, MutexInWait, Idle
  <1>10. Notifying'
    <2>1. \A u \in Thread : pc'[u] # "notify"
      BY DEF IInv, Control, TypeOK, IdlockExact, HasIdlock, Idle
    <2> QED BY <2>1 DEF Notifying
  <1> QED BY <1>3, <1>4, <1>7, <1>8, <1>9, <1>10 DEF IInv, Control

(* The invariant is inductive.                                               *)
LEMMA NextInv == ASSUME IInv, [Next]_vars PROVE IInv'
  <1>1. CASE UNCHANGED vars
    <2> USE <1>1 DEF vars, counters
    <2>1. Waiters' = Waiters /\ Holders' = Holders BY DEF Waiters, Holders
    <2>2. Ids' /\ CountsExact' /\ Baton' BY <2>1, CountsKept, BatonKept
    <2>3. Control'
      BY DEF IInv, Control, TypeOK, IdlockExact, HasIdlock, MutexInWait, Notifying
    <2> QED BY <2>2, <2>3 DEF IInv
  <1>2. CASE Next
    <2>1. PICK t \in Thread :
            \/ Acquire(t) \/ Release(t) \/ WaitCall(t)
            \/ \E n \in Nums : BroadcastCall(t, n)
            \/ Steps(t)
      BY <1>2 DEF Next
    <2>2. CASE Acquire(t) \/ Release(t) BY <2>2, AcquireInv
    <2>3. CASE WaitCall(t) BY <2>3, WaitCallInv
    <2>4. CASE \E n \in Nums : BroadcastCall(t, n) BY <2>4, BroadcastCallInv
    <2>5. CASE Steps(t)
      BY <2>5, WaitPendInv, WaitReleaseInv, WaitCheckoutInv, WaitLockInv, WaitAgainInv,
         WaitLeaveInv, WaitReturnInv, BroadcastInv DEF Steps
    <2> QED BY <2>1, <2>2, <2>3, <2>4, <2>5
  <1> QED BY <1>1, <1>2

(* Every reachable state satisfies the invariant.                            *)
THEOREM InvHolds == Spec => []IInv
  BY InitInv, NextInv, PTL DEF Spec

(* Every waiter of class condition is counted exactly once, before and after *)
(* id starts again.                                                          *)
THEOREM CountsHold == Spec => []CountsExact
  <1>1. IInv => CountsExact BY DEF IInv
  <1> QED BY <1>1, InvHolds, PTL

(* checkout is passed on as one baton while a release is in progress.        *)
THEOREM BatonHolds == Spec => []OneBaton
  <1>1. IInv => OneBaton BY BatonIsOne DEF IInv, Control
  <1> QED BY <1>1, InvHolds, PTL

------------------------------------------------------------------------------
(* The refinement: the lock counts as released, and the caller as blocked,   *)
(* once it is counted in pending; wake-ups happen as waiters leave.          *)
Lock == IF mutex # NULL /\ pc[mutex] = "pended" THEN NULL ELSE mutex
WaitSetOf == [later |-> Later, eligible |-> Earlier, permits |-> torelease]
WokenSet == {t \in Thread : pc[t] = "woken"}

(* A step that leaves the abstract state alone.                              *)
LEMMA Stutter ==
  ASSUME Lock' = Lock, Later' = Later, Earlier' = Earlier, torelease' = torelease,
         WokenSet' = WokenSet
  PROVE  UNCHANGED Abstract!vars
  BY DEF Abstract!vars, Lock, Later, WokenSet

(* Steps outside wait() and broadcast().                                     *)
LEMMA AcquireRefines ==
  ASSUME IInv, NEW t \in Thread
  PROVE  /\ Acquire(t) => Abstract!Acquire(t)
         /\ Release(t) => Abstract!Release(t)
  <1>1. ASSUME Acquire(t) \/ Release(t)
        PROVE  Waiters' = Waiters /\ Earlier' = Earlier /\ WokenSet' = WokenSet
               /\ torelease' = torelease /\ pc' = pc
    BY <1>1 DEF Acquire, Release, counters, Waiters, Earlier, WokenSet
  <1>2. t \in Thread /\ t # NULL BY ThreadAssumption
  <1>3. ASSUME Acquire(t) PROVE Abstract!Acquire(t)
    <2>1. Lock = NULL /\ Lock' = t BY <1>2, <1>3 DEF Acquire, Lock, Idle
    <2>2. t \notin Waiters /\ t \notin WokenSet BY <1>3 DEF Acquire, Waiters, WokenSet, Idle
    <2> QED BY <1>1, <1>3, <2>1, <2>2
        DEF Abstract!Acquire, Abstract!Busy, Abstract!Present, Lock, WokenSet, Earlier
  <1>4. ASSUME Release(t) PROVE Abstract!Release(t)
    <2>1. Lock = t /\ Lock' = NULL BY <1>2, <1>4 DEF Release, Lock, Idle
    <2> QED BY <1>1, <1>4, <2>1 DEF Abstract!Release, Lock, WokenSet
  <1> QED BY <1>3, <1>4

(* The thread in wait() is counted: it blocks and releases the lock.         *)
LEMMA WaitPendRefines ==
  ASSUME IInv, NEW t \in Thread, WaitPend(t)
  PROVE  Abstract!Wait(t)
  <1> USE DEF WaitPend, goto, UnlockId
  <1>1. mutex = t /\ t # NULL BY ThreadAssumption DEF IInv, Control, MutexInWait
  <1>2. Lock = t /\ Lock' = NULL BY <1>1 DEF Lock, IInv, Control, TypeOK
  <1>3. t \notin Waiters /\ Waiters' = Waiters \cup {t} /\ WokenSet' = WokenSet
    BY DEF Waiters, WokenSet, IInv, Control, TypeOK
  <1>4. myid'[t] = id /\ id' = id /\ id \in Int /\ \A u \in Thread : u # t => myid'[u] = myid[u]
    BY DEF IInv, Control, TypeOK
  <1>5. Earlier' = Earlier BY <1>3, <1>4 DEF Earlier, Waiters
  <1>6. Later' = Later \cup {t} BY <1>3, <1>5 DEF Later, Earlier
  <1>7. WaitSetOf' = [WaitSetOf EXCEPT !.later = @ \cup {t}]
    BY <1>5, <1>6 DEF WaitSetOf
  <1> QED BY <1>2, <1>3, <1>7
      DEF Abstract!Wait, Abstract!Waiting, Lock, WaitSetOf, Later, WokenSet

(* The abstract specification counts as Condition does.                      *)
LEMMA SameCardinality == ASSUME NEW S PROVE Abstract!Cardinality(S) = Cardinality(S)
  BY DEF Cardinality, Abstract!Cardinality, IsFiniteSet, Abstract!IsFiniteSet

(* A waiter that leaves is woken by one of the permits.                      *)
LEMMA WaitLeaveRefines ==
  ASSUME IInv, NEW t \in Thread, WaitLeave(t)
  PROVE  Abstract!Wake(t)
  <1> USE DEF WaitLeave, goto, UnlockId
  <1>1. t \in Holders /\ t \in Waiters BY DEF Holders, Waiters
  <1>2. torelease > 0 BY <1>1 DEF IInv, Baton
  <1>3. t \in Earlier BY <1>1 DEF MyTurn, Earlier
  <1>4. Lock' = Lock
    <2>1. mutex # t /\ mutex' = mutex BY DEF IInv, Control, MutexInWait
    <2>2. mutex # NULL => mutex \in Thread BY DEF IInv, Control, TypeOK
    <2> QED BY <2>1, <2>2 DEF Lock, IInv, Control, TypeOK
  <1>5. WokenSet' = WokenSet \cup {t} BY DEF WokenSet, IInv, Control, TypeOK
  <1>6. Earlier' = Earlier \ {t} /\ Later' = Later BY LeaveSets
  <1>7. torelease' = torelease - 1 OBVIOUS
  <1>8. WaitSetOf' = [later |-> Later, eligible |-> Earlier \ {t}, permits |-> torelease - 1]
    BY <1>6, <1>7 DEF WaitSetOf
  <1> QED BY <1>2, <1>3, <1>4, <1>5, <1>8
      DEF Abstract!Wake, Abstract!MayWake, Abstract!Woken, Lock, WaitSetOf, Later, WokenSet

(* broadcast() notifies all who wait, and adds its permits.                  *)
LEMMA BroadcastRefines ==
  ASSUME IInv, NEW t \in Thread, Broadcast(t)
  PROVE  Abstract!Broadcast(num[t]) /\ num[t] \in Nums
  <1>1. /\ Waiters' = Waiters /\ Earlier' = Waiters /\ Later' = {}
    BY BroadcastEarlier
  <1> USE DEF Broadcast, goto
  <1>2. num[t] \in Nums BY DEF IInv, Control, Notifying
  <1>3. Lock' = Lock
    <2>1. mutex' = mutex /\ (mutex # NULL => mutex \in Thread) BY DEF IInv, Control, TypeOK
    <2> QED BY <2>1 DEF Lock, IInv, Control, TypeOK, Idle
  <1>4. WokenSet' = WokenSet BY DEF WokenSet, IInv, Control, TypeOK, Idle
  <1>5. waiting + pending = Cardinality(Waiters)
    BY Finite DEF IInv, Control, TypeOK, CountsExact, Later
  <1>6. torelease' = IF num[t] = -1 THEN Cardinality(Waiters)
                     ELSE Min({Cardinality(Waiters), torelease + num[t]})
    BY <1>5 DEF NewTorelease
  <1>7. Later \cup Earlier = Waiters BY DEF Later, Earlier
  <1>8. WaitSetOf' =
          [later    |-> {},
           eligible |-> Later \cup Earlier,
           permits  |-> IF num[t] = -1 THEN Cardinality(Later \cup Earlier)
                        ELSE Min({Cardinality(Later \cup Earlier), torelease + num[t]})]
    BY <1>1, <1>6, <1>7 DEF WaitSetOf
  <1> QED BY <1>2, <1>3, <1>4, <1>8, SameCardinality
      DEF Abstract!Broadcast, Abstract!Notified, Abstract!Present, Abstract!Min, Min,
          Lock, WaitSetOf, Later, WokenSet

(* wait() returns with the lock.                                             *)
LEMMA WaitReturnRefines ==
  ASSUME IInv, NEW t \in Thread, WaitReturn(t)
  PROVE  Abstract!Return(t)
  <1> USE DEF WaitReturn, goto, counters
  <1>1. t # NULL BY ThreadAssumption
  <1>2. Lock = NULL /\ Lock' = t BY <1>1 DEF Lock, IInv, Control, TypeOK, Idle
  <1>3. Waiters' = Waiters BY DEF Waiters, IInv, Control, TypeOK, Idle
  <1>4. Earlier' = Earlier BY <1>3 DEF Earlier
  <1>5. t \in WokenSet /\ WokenSet' = WokenSet \ {t}
    BY DEF WokenSet, IInv, Control, TypeOK, Idle
  <1> QED BY <1>2, <1>3, <1>4, <1>5 DEF Abstract!Return, Lock, WokenSet

(* All other steps are invisible.                                            *)
LEMMA InnerStutters ==
  ASSUME IInv, NEW t \in Thread,
         \/ WaitCall(t) \/ (\E n \in Nums : BroadcastCall(t, n))
         \/ WaitRelease(t) \/ WaitCheckout(t) \/ WaitLock(t) \/ WaitAgain(t)
  PROVE  UNCHANGED Abstract!vars
  <1> USE DEF WaitCall, BroadcastCall, WaitRelease, WaitCheckout, WaitLock, WaitAgain, goto, counters
  <1>1. Waiters' = Waiters /\ WokenSet' = WokenSet
    BY DEF Waiters, WokenSet, IInv, Control, TypeOK, Idle
  <1>2. id' = id /\ myid' = myid /\ torelease' = torelease OBVIOUS
  <1>3. Earlier' = Earlier /\ Later' = Later BY <1>1, <1>2 DEF Earlier, Later
  <1>4. Lock' = Lock
    <2>1. mutex # NULL => mutex \in Thread BY DEF IInv, Control, TypeOK
    <2>2. CASE WaitRelease(t)
      <3>1. mutex = t /\ t # NULL BY <2>2, ThreadAssumption DEF IInv, Control, MutexInWait
      <3> QED BY <2>2, <3>1 DEF Lock
    <2>3. CASE ~WaitRelease(t)
      <3>1. mutex' = mutex BY <2>3
      <3>2. \A u \in Thread : pc[u] = "pended" <=> pc'[u] = "pended"
        BY <2>3 DEF IInv, Control, TypeOK, Idle
      <3> QED BY <2>1, <3>1, <3>2 DEF Lock
    <2> QED BY <2>2, <2>3
  <1> QED BY <1>1, <1>2, <1>3, <1>4, Stutter

(* Every step maps to a step of AbstractCondition or to a stutter.           *)
LEMMA StepRefines == ASSUME IInv, [Next]_vars PROVE [Abstract!Next]_(Abstract!vars)
  <1>1. CASE UNCHANGED vars
    BY <1>1, Stutter DEF vars, counters, Lock, Later, Earlier, Waiters, WokenSet
  <1>2. CASE Next
    <2>1. PICK t \in Thread :
            \/ Acquire(t) \/ Release(t) \/ WaitCall(t)
            \/ \E n \in Nums : BroadcastCall(t, n)
            \/ Steps(t)
      BY <1>2 DEF Next
    <2>2. CASE Acquire(t) \/ Release(t) BY <2>2, AcquireRefines DEF Abstract!Next
    <2>3. CASE WaitPend(t) BY <2>3, WaitPendRefines DEF Abstract!Next
    <2>4. CASE WaitLeave(t) BY <2>4, WaitLeaveRefines DEF Abstract!Next
    <2>5. CASE WaitReturn(t) BY <2>5, WaitReturnRefines DEF Abstract!Next
    <2>6. CASE Broadcast(t) BY <2>6, BroadcastRefines DEF Abstract!Next
    <2>7. CASE \/ WaitCall(t) \/ (\E n \in Nums : BroadcastCall(t, n))
               \/ WaitRelease(t) \/ WaitCheckout(t) \/ WaitLock(t) \/ WaitAgain(t)
      BY <2>7, InnerStutters
    <2> QED BY <2>1, <2>2, <2>3, <2>4, <2>5, <2>6, <2>7 DEF Steps
  <1> QED BY <1>1, <1>2

(* Class condition keeps its promise: waiting and releasing the lock are     *)
(* atomic, a signal wakes one thread that waited before it, a broadcast all. *)
THEOREM Refinement == Spec => ImplementsCondition
  <1>1. ASSUME Init PROVE Abstract!Init
    <2>1. Waiters = {} BY <1>1 DEF Init, Waiters, Idle
    <2>2. {t \in Thread : pc[t] = "woken"} = {} BY <1>1 DEF Init, Idle
    <2> QED BY <1>1, <2>1, <2>2 DEF Init, Earlier, Abstract!Init, Abstract!NoWaiters
  <1> QED BY <1>1, StepRefines, InvHolds, PTL DEF Spec, ImplementsCondition, Abstract!Spec
=============================================================================
