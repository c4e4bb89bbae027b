----------------------------- MODULE QueueProofs -----------------------------
(* Proofs about Queue, for any threads, items and sizes, and any number of   *)
(* puts: the semaphores tell the truth, whoever is let in finds what it came *)
(* for, and the queue implements BoundedQueue.                               *)
EXTENDS Queue, TLAPS

(* Who has the mutex, what a thread keeps on its way to it, and the bound.   *)
HasMutex(t) == pc[t] \in {"put_mutex", "get_mutex", "nowait_mutex"}

MutexExact == \A t \in Thread : HasMutex(t) <=> mutex = t

Locals == \A t \in Thread :
  /\ locked[t] => pc[t] \in {"nowait", "nowait_mutex"}
  /\ pc[t] \in {"put", "put_fsema", "put_mutex"} => item[t] \in Item

Bounded == maxsize > 0 => Len(queue) <= maxsize

IInv == TypeOK /\ MutexExact /\ Locals /\ Bounded /\ SemasExact /\ LetInRightly

------------------------------------------------------------------------------
(* put() adds one item.                                                      *)
LEMMA AppendFacts ==
  ASSUME NEW q \in Seq(Item), NEW i \in Item
  PROVE  /\ Append(q, i) \in Seq(Item)
         /\ Len(Append(q, i)) = Len(q) + 1
         /\ Append(q, i) # <<>>
  <1>1. Append(q, i) \in Seq(Item) /\ Len(Append(q, i)) = Len(q) + 1 OBVIOUS
  <1>2. Len(q) \in Nat /\ Len(<<>>) = 0 OBVIOUS
  <1> QED BY <1>1, <1>2

(* Only the empty queue has length 0, and Tail takes one item away.          *)
LEMMA LenFacts ==
  ASSUME NEW q \in Seq(Item)
  PROVE  /\ Len(q) \in Nat
         /\ q = <<>> <=> Len(q) = 0
         /\ q # <<>> => Tail(q) \in Seq(Item) /\ Len(Tail(q)) = Len(q) - 1
  OBVIOUS

(* The invariant holds initially.                                            *)
LEMMA InitInv == ASSUME Init PROVE IInv
  <1>1. TypeOK
    <2>1. queue \in Seq(Item) /\ puts \in 0 .. MaxPuts BY MaxPutsAssumption DEF Init
    <2>2. pc \in [Thread -> pcs] BY DEF Init, pcs
    <2> QED BY <2>1, <2>2 DEF Init, TypeOK
  <1>2. MutexExact BY NULLAssumption DEF Init, MutexExact, HasMutex
  <1>3. Locals BY DEF Init, Locals
  <1>4. GetHolders = {} /\ PutHolders = {} BY DEF Init, GetHolders, PutHolders
  <1>5. queue = <<>> /\ esema = TRUE /\ fsema = FALSE BY DEF Init
  <1>6. maxsize \in Nat /\ Len(queue) = 0 BY <1>5, SizesAssumption DEF Init
  <1>7. ~full(queue) /\ Bounded BY <1>6 DEF full, Bounded
  <1>8. SemasExact /\ LetInRightly BY <1>4, <1>5, <1>7 DEF SemasExact, LetInRightly
  <1> QED BY <1>1, <1>2, <1>3, <1>7, <1>8 DEF IInv

(* Steps that change neither the semaphores, the queue nor who has them.     *)
LEMMA SemasKept ==
  ASSUME IInv, UNCHANGED <<maxsize, queue, esema, fsema>>,
         GetHolders' = GetHolders, PutHolders' = PutHolders
  PROVE  Bounded' /\ SemasExact' /\ LetInRightly'
  <1>1. full(queue)' = full(queue) BY DEF full
  <1> QED BY <1>1 DEF IInv, Bounded, SemasExact, LetInRightly

(* put() is called.                                                          *)
LEMMA PutCallInv == ASSUME IInv, NEW t \in Thread, NEW i \in Item, PutCall(t, i) PROVE IInv'
  <1> USE DEF IInv, TypeOK, pcs, PutCall, goto
  <1>1. TypeOK' BY SizesAssumption, MaxPutsAssumption
  <1>2. MutexExact' BY NULLAssumption DEF MutexExact, HasMutex
  <1>3. Locals' BY DEF Locals
  <1>4. GetHolders' = GetHolders BY DEF GetHolders
  <1>5. PutHolders' = PutHolders BY DEF PutHolders
  <1>6. Bounded' /\ SemasExact' /\ LetInRightly' BY <1>4, <1>5, SemasKept
  <1> QED BY <1>1, <1>2, <1>3, <1>6

(* put() has fsema: the only one, and there is room.                         *)
LEMMA PutFsemaInv == ASSUME IInv, NEW t \in Thread, PutFsema(t) PROVE IInv'
  <1> USE DEF IInv, TypeOK, pcs, PutFsema, goto
  <1>1. TypeOK' OBVIOUS
  <1>2. MutexExact' BY DEF MutexExact, HasMutex
  <1>3. Locals' BY DEF Locals
  <1>4. GetHolders' = GetHolders BY DEF GetHolders
  <1>5. PutHolders = {} /\ ~full(queue) BY DEF SemasExact
  <1>6. PutHolders' = {t} BY <1>5 DEF PutHolders
  <1>7. full(queue)' = full(queue) BY DEF full
  <1>8. Bounded' BY DEF Bounded
  <1>9. SemasExact' /\ LetInRightly' BY <1>4, <1>5, <1>6, <1>7 DEF SemasExact, LetInRightly
  <1> QED BY <1>1, <1>2, <1>3, <1>8, <1>9

(* put() has the mutex.                                                      *)
LEMMA PutMutexInv == ASSUME IInv, NEW t \in Thread, PutMutex(t) PROVE IInv'
  <1> USE DEF IInv, TypeOK, pcs, PutMutex, goto, LockMutex
  <1>1. TypeOK' BY SizesAssumption, MaxPutsAssumption
  <1>2. MutexExact' BY NULLAssumption DEF MutexExact, HasMutex
  <1>3. Locals' BY DEF Locals
  <1>4. GetHolders' = GetHolders BY DEF GetHolders
  <1>5. PutHolders' = PutHolders BY DEF PutHolders
  <1>6. Bounded' /\ SemasExact' /\ LetInRightly' BY <1>4, <1>5, SemasKept
  <1> QED BY <1>1, <1>2, <1>3, <1>6

(* put() adds its item.                                                      *)
LEMMA PutDoInv == ASSUME IInv, NEW t \in Thread, PutDo(t) PROVE IInv'
  <1> USE DEF IInv, TypeOK, pcs, PutDo, PutSemas, goto, empty, UnlockMutex
  <1>1. item[t] \in Item BY DEF Locals
  <1>2. /\ queue' \in Seq(Item) /\ queue' # <<>>
        /\ Len(queue) \in Nat /\ Len(queue') = Len(queue) + 1
    BY <1>1, AppendFacts, LenFacts
  <1>3. TypeOK' BY <1>2
  <1>4. MutexExact' BY NULLAssumption DEF MutexExact, HasMutex
  <1>5. Locals' BY DEF Locals
  <1>6. GetHolders' = GetHolders BY DEF GetHolders
  <1>7. t \in PutHolders BY DEF PutHolders
  <1>8. PutHolders = {t} /\ fsema = TRUE /\ ~full(queue)
    BY <1>7 DEF SemasExact, LetInRightly
  <1>9. PutHolders' = {} BY <1>8 DEF PutHolders
  <1>10. full(queue') = full(queue)' BY DEF full
  <1>11. maxsize \in Nat BY SizesAssumption
  <1>12. Bounded' BY <1>2, <1>8, <1>11 DEF full, Bounded
  <1>13. (~esema' <=> (queue' # <<>> /\ GetHolders' = {})) /\ (GetHolders' # {} => queue' # <<>>)
    BY <1>2, <1>6 DEF SemasExact, LetInRightly
  <1>14. ~fsema' <=> (~full(queue)' /\ PutHolders' = {})
    BY <1>8, <1>9, <1>10
  <1>15. SemasExact' /\ LetInRightly'
    BY <1>6, <1>9, <1>13, <1>14 DEF SemasExact, LetInRightly
  <1> QED BY <1>3, <1>4, <1>5, <1>12, <1>15

(* get() is called.                                                          *)
LEMMA GetCallInv == ASSUME IInv, NEW t \in Thread, GetCall(t) PROVE IInv'
  <1> USE DEF IInv, TypeOK, pcs, GetCall, goto
  <1>1. TypeOK' BY SizesAssumption, MaxPutsAssumption
  <1>2. MutexExact' BY NULLAssumption DEF MutexExact, HasMutex
  <1>3. Locals' BY DEF Locals
  <1>4. GetHolders' = GetHolders BY DEF GetHolders
  <1>5. PutHolders' = PutHolders BY DEF PutHolders
  <1>6. Bounded' /\ SemasExact' /\ LetInRightly' BY <1>4, <1>5, SemasKept
  <1> QED BY <1>1, <1>2, <1>3, <1>6

(* get() has esema: the only one, and there is an item.                      *)
LEMMA GetEsemaInv == ASSUME IInv, NEW t \in Thread, GetEsema(t) PROVE IInv'
  <1> USE DEF IInv, TypeOK, pcs, GetEsema, goto
  <1>1. TypeOK' OBVIOUS
  <1>2. MutexExact' BY DEF MutexExact, HasMutex
  <1>3. Locals' BY DEF Locals
  <1>4. PutHolders' = PutHolders BY DEF PutHolders
  <1>5. GetHolders = {} /\ queue # <<>> BY DEF SemasExact
  <1>6. GetHolders' = {t} BY <1>5 DEF GetHolders
  <1>7. full(queue)' = full(queue) BY DEF full
  <1>8. Bounded' BY DEF Bounded
  <1>9. SemasExact' /\ LetInRightly' BY <1>4, <1>5, <1>6, <1>7 DEF SemasExact, LetInRightly
  <1> QED BY <1>1, <1>2, <1>3, <1>8, <1>9

(* get() has the mutex.                                                      *)
LEMMA GetMutexInv == ASSUME IInv, NEW t \in Thread, GetMutex(t) PROVE IInv'
  <1> USE DEF IInv, TypeOK, pcs, GetMutex, goto, LockMutex
  <1>1. TypeOK' BY SizesAssumption, MaxPutsAssumption
  <1>2. MutexExact' BY NULLAssumption DEF MutexExact, HasMutex
  <1>3. Locals' BY DEF Locals
  <1>4. GetHolders' = GetHolders BY DEF GetHolders
  <1>5. PutHolders' = PutHolders BY DEF PutHolders
  <1>6. Bounded' /\ SemasExact' /\ LetInRightly' BY <1>4, <1>5, SemasKept
  <1> QED BY <1>1, <1>2, <1>3, <1>6

(* Taking an item: whoever had the only right to take one gives it up.       *)
LEMMA TakeSemas ==
  ASSUME IInv, Take, queue # <<>>, UNCHANGED maxsize,
         GetHolders' = {}, PutHolders' = PutHolders
  PROVE  /\ queue' \in Seq(Item) /\ esema' \in BOOLEAN /\ fsema' \in BOOLEAN
         /\ Bounded' /\ SemasExact' /\ LetInRightly'
  <1> USE DEF IInv, TypeOK, Take, empty
  <1>1. /\ Len(queue) \in Nat /\ Len(queue) > 0
        /\ queue' \in Seq(Item) /\ Len(queue') = Len(queue) - 1
    BY LenFacts
  <1>2. maxsize \in Nat BY SizesAssumption
  <1>3. Bounded' /\ ~full(queue)'
    <2>1. maxsize' = maxsize /\ (maxsize > 0 => Len(queue) <= maxsize) BY DEF Bounded
    <2> HIDE DEF IInv, TypeOK, Take, empty
    <2> QED BY <1>1, <1>2, <2>1 DEF Bounded, full
  <1>4. fsema' = FALSE <=> PutHolders = {}
    <2>1. CASE full(queue)
      <3>1. PutHolders = {} BY <2>1 DEF LetInRightly
      <3>2. fsema' = FALSE BY <2>1
      <3> QED BY <3>1, <3>2
    <2>2. CASE ~full(queue)
      <3>1. fsema' = fsema BY <2>2
      <3> QED BY <2>2, <3>1 DEF SemasExact
    <2> QED BY <2>1, <2>2
  <1>5. esema' \in BOOLEAN /\ fsema' \in BOOLEAN OBVIOUS
  <1>6. SemasExact' BY <1>3, <1>4, <1>5 DEF SemasExact
  <1>7. LetInRightly' BY <1>3 DEF LetInRightly
  <1> QED BY <1>1, <1>3, <1>5, <1>6, <1>7

(* get() takes an item.                                                      *)
LEMMA GetDoInv == ASSUME IInv, NEW t \in Thread, GetDo(t) PROVE IInv'
  <1> USE DEF IInv, TypeOK, pcs, GetDo, goto, UnlockMutex
  <1>1. t \in GetHolders BY DEF GetHolders
  <1>2. queue # <<>> /\ GetHolders = {t} BY <1>1 DEF LetInRightly, SemasExact
  <1>3. ~locked[t] BY DEF Locals
  <1>4. GetHolders' = {} BY <1>2, <1>3 DEF GetHolders
  <1>5. PutHolders' = PutHolders BY DEF PutHolders
  <1>6. /\ queue' \in Seq(Item) /\ esema' \in BOOLEAN /\ fsema' \in BOOLEAN
        /\ Bounded' /\ SemasExact' /\ LetInRightly'
    BY <1>2, <1>4, <1>5, TakeSemas
  <1>7. TypeOK' BY <1>6
  <1>8. MutexExact' BY NULLAssumption DEF MutexExact, HasMutex
  <1>9. Locals' BY DEF Locals
  <1> QED BY <1>6, <1>7, <1>8, <1>9

(* get_nowait() is called, with esema or without.                            *)
LEMMA NowaitCallInv == ASSUME IInv, NEW t \in Thread, NowaitCall(t) PROVE IInv'
  <1> USE DEF IInv, TypeOK, pcs, NowaitCall, goto
  <1>1. TypeOK' OBVIOUS
  <1>2. MutexExact' BY DEF MutexExact, HasMutex
  <1>3. Locals' BY DEF Locals
  <1>4. PutHolders' = PutHolders BY DEF PutHolders
  <1>5. full(queue)' = full(queue) BY DEF full
  <1>6. Bounded' BY DEF Bounded
  <1>7. ~locked[t] BY DEF Locals
  <1>8. CASE esema
    <2>1. GetHolders' = GetHolders BY <1>7, <1>8 DEF GetHolders
    <2>2. esema' = esema BY <1>8
    <2> QED BY <1>1, <1>2, <1>3, <1>4, <1>5, <1>6, <2>1, <2>2 DEF SemasExact, LetInRightly
  <1>9. CASE ~esema
    <2>1. GetHolders = {} /\ queue # <<>> BY <1>9 DEF SemasExact
    <2>2. GetHolders' = {t} BY <1>9, <2>1 DEF GetHolders
    <2> QED BY <1>1, <1>2, <1>3, <1>4, <1>5, <1>6, <2>1, <2>2 DEF SemasExact, LetInRightly
  <1> QED BY <1>8, <1>9

(* get_nowait() has the mutex.                                               *)
LEMMA NowaitMutexInv == ASSUME IInv, NEW t \in Thread, NowaitMutex(t) PROVE IInv'
  <1> USE DEF IInv, TypeOK, pcs, NowaitMutex, goto, LockMutex
  <1>1. TypeOK' BY SizesAssumption, MaxPutsAssumption
  <1>2. MutexExact' BY NULLAssumption DEF MutexExact, HasMutex
  <1>3. Locals' BY DEF Locals
  <1>4. GetHolders' = GetHolders BY DEF GetHolders
  <1>5. PutHolders' = PutHolders BY DEF PutHolders
  <1>6. Bounded' /\ SemasExact' /\ LetInRightly' BY <1>4, <1>5, SemasKept
  <1> QED BY <1>1, <1>2, <1>3, <1>6

(* get_nowait() raises Empty: it does not have esema.                        *)
LEMMA NowaitEmptyInv == ASSUME IInv, NEW t \in Thread, NowaitEmpty(t) PROVE IInv'
  <1> USE DEF IInv, TypeOK, pcs, NowaitEmpty, goto, UnlockMutex
  <1>1. TypeOK' OBVIOUS
  <1>2. MutexExact' BY NULLAssumption DEF MutexExact, HasMutex
  <1>3. Locals' BY DEF Locals
  <1>4. ~locked[t]
    <2>1. SUFFICES ASSUME locked[t] PROVE FALSE OBVIOUS
    <2>2. GetHolders # {} BY <2>1 DEF GetHolders
    <2>3. queue # <<>> BY <2>2 DEF LetInRightly
    <2> QED BY <2>1, <2>3 DEF MayTake, empty
  <1>5. GetHolders' = GetHolders BY <1>4 DEF GetHolders
  <1>6. PutHolders' = PutHolders BY DEF PutHolders
  <1>7. Bounded' /\ SemasExact' /\ LetInRightly' BY <1>5, <1>6, SemasKept
  <1> QED BY <1>1, <1>2, <1>3, <1>7

(* get_nowait() takes an item.                                               *)
LEMMA NowaitDoInv == ASSUME IInv, NEW t \in Thread, NowaitDo(t) PROVE IInv'
  <1> USE DEF IInv, TypeOK, pcs, NowaitDo, goto, UnlockMutex
  <1>1. queue # <<>> BY DEF MayTake, empty
  <1>2. GetHolders \subseteq {t}
    <2>1. CASE locked[t]
      <3>1. t \in GetHolders BY <2>1 DEF GetHolders
      <3> QED BY <3>1 DEF SemasExact
    <2>2. CASE ~locked[t]
      <3>1. ~esema BY <2>2 DEF MayTake
      <3> QED BY <3>1 DEF SemasExact
    <2> QED BY <2>1, <2>2
  <1>3. GetHolders' = {} BY <1>2 DEF GetHolders
  <1>4. PutHolders' = PutHolders BY DEF PutHolders
  <1>5. /\ queue' \in Seq(Item) /\ esema' \in BOOLEAN /\ fsema' \in BOOLEAN
        /\ Bounded' /\ SemasExact' /\ LetInRightly'
    BY <1>1, <1>3, <1>4, TakeSemas
  <1>6. TypeOK' BY <1>5
  <1>7. MutexExact' BY NULLAssumption DEF MutexExact, HasMutex
  <1>8. Locals' BY DEF Locals
  <1> QED BY <1>5, <1>6, <1>7, <1>8

(* The invariant is inductive.                                               *)
LEMMA NextInv == ASSUME IInv, [Next]_vars PROVE IInv'
  <1>1. CASE UNCHANGED vars
    <2> USE <1>1 DEF vars
    <2>1. GetHolders' = GetHolders /\ PutHolders' = PutHolders BY DEF GetHolders, PutHolders
    <2>2. Bounded' /\ SemasExact' /\ LetInRightly' BY <2>1, SemasKept
    <2>3. TypeOK' /\ MutexExact' /\ Locals' BY DEF IInv, TypeOK, MutexExact, HasMutex, Locals
    <2> QED BY <2>2, <2>3 DEF IInv
  <1>2. CASE Next
    <2>1. PICK t \in Thread :
            (\E i \in Item : PutCall(t, i)) \/ GetCall(t) \/ NowaitCall(t) \/ Steps(t)
      BY <1>2 DEF Next
    <2>2. CASE \E i \in Item : PutCall(t, i) BY <2>2, PutCallInv
    <2>3. CASE GetCall(t) BY <2>3, GetCallInv
    <2>4. CASE NowaitCall(t) BY <2>4, NowaitCallInv
    <2>5. CASE Steps(t)
      BY <2>5, PutFsemaInv, PutMutexInv, PutDoInv, GetEsemaInv, GetMutexInv, GetDoInv,
         NowaitMutexInv, NowaitEmptyInv, NowaitDoInv DEF Steps
    <2> QED BY <2>1, <2>2, <2>3, <2>4, <2>5
  <1> QED BY <1>1, <1>2

(* Every reachable state satisfies the invariant.                            *)
THEOREM InvHolds == Spec => []IInv
  BY InitInv, NextInv, PTL DEF Spec

(* The semaphores of src/Lib/Queue.py tell the truth: esema is free exactly  *)
(* while there is an item nobody is coming for, fsema while there is room.   *)
THEOREM SemasHold == Spec => []SemasExact
  <1>1. IInv => SemasExact BY DEF IInv
  <1> QED BY <1>1, InvHolds, PTL

(* get(), put() and get_nowait() find what they were let in for.             *)
THEOREM LetInHolds == Spec => []LetInRightly
  <1>1. IInv => LetInRightly BY DEF IInv
  <1> QED BY <1>1, InvHolds, PTL

------------------------------------------------------------------------------
(* A step of put() maps to Put, of get() and get_nowait() to Get, and every  *)
(* other step to a stutter.                                                  *)
LEMMA StepRefines == ASSUME IInv, [Next]_vars PROVE [Abstract!Next]_(Abstract!vars)
  <1> USE DEF Abstract!vars
  <1>1. CASE UNCHANGED <<queue, maxsize>> BY <1>1
  <1>2. ASSUME NEW t \in Thread, PutDo(t) PROVE Abstract!Next
    <2>1. pc[t] = "put_mutex" /\ queue' = Append(queue, item[t]) /\ maxsize' = maxsize
      BY <1>2 DEF PutDo, goto
    <2>2. item[t] \in Item BY <2>1 DEF IInv, Locals
    <2>3. ~full(queue)
      <3>1. t \in PutHolders BY <2>1 DEF PutHolders
      <3> QED BY <3>1 DEF IInv, LetInRightly
    <2>4. maxsize \in Nat /\ Len(queue) \in Nat
      BY SizesAssumption, LenFacts DEF IInv, TypeOK
    <2>5. maxsize > 0 => Len(queue) < maxsize BY <2>3, <2>4 DEF IInv, Bounded, full
    <2>6. Abstract!Put(item[t]) BY <2>1, <2>5 DEF Abstract!Put
    <2> QED BY <2>2, <2>6 DEF Abstract!Next
  <1>3. ASSUME NEW t \in Thread, GetDo(t) \/ NowaitDo(t) PROVE Abstract!Next
    <2>1. queue # <<>>
      <3>1. CASE GetDo(t)
        <4>1. t \in GetHolders BY <3>1 DEF GetDo, goto, GetHolders
        <4> QED BY <4>1 DEF IInv, LetInRightly
      <3>2. CASE NowaitDo(t) BY <3>2 DEF NowaitDo, MayTake, empty
      <3> QED BY <1>3, <3>1, <3>2
    <2>2. queue' = Tail(queue) /\ maxsize' = maxsize BY <1>3 DEF GetDo, NowaitDo, Take
    <2> QED BY <2>1, <2>2 DEF Abstract!Next, Abstract!Get
  <1>4. CASE Next
    <2>1. PICK t \in Thread :
            (\E i \in Item : PutCall(t, i)) \/ GetCall(t) \/ NowaitCall(t) \/ Steps(t)
      BY <1>4 DEF Next
    <2>2. CASE PutDo(t) BY <1>2, <2>2
    <2>3. CASE GetDo(t) \/ NowaitDo(t) BY <1>3, <2>3
    <2>4. CASE (\E i \in Item : PutCall(t, i)) \/ GetCall(t) \/ NowaitCall(t)
               \/ PutFsema(t) \/ PutMutex(t) \/ GetEsema(t) \/ GetMutex(t)
               \/ NowaitMutex(t) \/ NowaitEmpty(t)
      BY <2>4 DEF PutCall, GetCall, NowaitCall, PutFsema, PutMutex, GetEsema, GetMutex,
                  NowaitMutex, NowaitEmpty
    <2> QED BY <2>1, <2>2, <2>3, <2>4 DEF Steps
  <1>5. CASE UNCHANGED vars BY <1>5 DEF vars
  <1> QED BY <1>4, <1>5

(* The queue is a FIFO queue of at most maxsize items whose put() and get()  *)
(* are atomic.                                                               *)
THEOREM Refinement == Spec => ImplementsQueue
  <1>1. Init => Abstract!Init BY DEF Init, Abstract!Init
  <1> QED BY <1>1, StepRefines, InvHolds, PTL DEF Spec, ImplementsQueue, Abstract!Spec
=============================================================================
