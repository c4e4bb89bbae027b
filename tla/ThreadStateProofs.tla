-------------------------- MODULE ThreadStateProofs --------------------------
(***************************************************************************)
(* Proofs about ThreadState for any threads and addresses, up to the first *)
(* state that is thrown out under a thread that stands on it.              *)
(***************************************************************************)
EXTENDS ThreadState, TLAPS

\* Closed and Reach, for given links.
ClosedUnder(f, S) == \A m \in S : f[m] # NULL => f[m] \in S

From(f, n) ==
  {m \in Node : \A S \in SUBSET Node : n \in S /\ ClosedUnder(f, S) => m \in S}

Links == [Node -> Node \cup {NULL}]

\* The links f make a list of L: it begins with h and ends, and every member
\* but h has one predecessor.
List(L, h, f) ==
  /\ L \subseteq Node /\ h \in L
  /\ \A a \in L : f[a] \in L \cup {NULL} /\ f[a] # h
  /\ \A a, b \in L : f[a] = f[b] /\ f[a] # NULL => a = b
  /\ \E a \in L : f[a] = NULL
  /\ \A a \in L : a \in From(f, h)

-----------------------------------------------------------------------------
\* Where a thread has a state of its own that others cannot find (Private), or
\* is moving it (the rest of Outside); where it holds states_mutex.
Private == {"new_find", "new_link", "new_front", "free", "fatal"}
Outside == Private \cup {"get_link", "get_front"}
Holding == {"get_link", "get_front", "new_front"}

\* The members of the list, and with them the one that is being moved.
Listed == {n \in heap : \A t \in Thread : pts[t] = n => pc[t] \notin Outside}
Live == {n \in heap : \A t \in Thread : pts[t] = n => pc[t] \notin Private}

Has(t) == \E n \in heap : thread_id[n] = t

\* One state per thread.
Ids ==
  /\ \A n \in heap : thread_id[n] \in Thread
  /\ \A m, n \in heap : thread_id[m] = thread_id[n] => m = n

\* What holds of a thread where it is.  A walker is on a member of the list or
\* on the state that is being moved, which still leads into the list.
Proper(t) ==
  /\ pc[t] \in Outside \cup {"get_lock"} => pts[t] \in heap /\ thread_id[pts[t]] = t
  /\ pc[t] \in {"none", "new"} => ~Has(t)
  /\ pc[t] \in {"run", "get"} => Has(t)
  /\ t = main_thread => Has(t) /\ pc[t] \notin Private
  /\ states_mutex = t <=> pc[t] \in Holding
  /\ pc[t] = "get_link" => next[pts[t]] \in Listed \cup {NULL}
  /\ pc[t] \in {"get_front", "new_front"} => next[pts[t]] = states
  /\ pc[t] \in {"get", "ensure"} => pts[t] \in Live \cup {NULL}
  /\ pc[t] \in {"get", "get_lock"} => prev[t] \in Live \cup {NULL}
  /\ pc[t] \in {"get_lock", "new_find"} => prev[t] # NULL
  /\ pc[t] \in {"get", "ensure"} /\ Has(t) =>
       pts[t] # NULL /\ \E n \in From(next, pts[t]) : thread_id[n] = t

Sound == TypeOK /\ Ids /\ List(Listed, states, next) /\ \A t \in Thread : Proper(t)

\* Until a state is thrown out under a thread that stands on it.
IInv == dangling \/ Sound
-----------------------------------------------------------------------------
(* Following links.                                                        *)

\* A closed set that contains the start contains what is reached.
LEMMA FromIn ==
  ASSUME NEW f, NEW S \in SUBSET Node, NEW n \in S, ClosedUnder(f, S)
  PROVE  From(f, n) \subseteq S
BY DEF From

\* A walk of no step, and a walk of one step more.
LEMMA FromStep ==
  ASSUME NEW f \in Links, NEW n \in Node
  PROVE  /\ n \in From(f, n)
         /\ ClosedUnder(f, From(f, n))
         /\ From(f, n) \subseteq Node
<1>1. n \in From(f, n) /\ From(f, n) \subseteq Node BY DEF From
<1>2. ASSUME NEW m \in From(f, n), f[m] # NULL PROVE f[m] \in From(f, n)
  <2>1. f[m] \in Node BY <1>2 DEF From, Links
  <2>2. \A S \in SUBSET Node : n \in S /\ ClosedUnder(f, S) => f[m] \in S
    BY <1>2 DEF From, ClosedUnder
  <2> QED BY <2>1, <2>2 DEF From
<1> QED BY <1>1, <1>2 DEF ClosedUnder

\* What is ahead of n, and is not n, is ahead of the next one.
LEMMA FromNext ==
  ASSUME NEW f \in Links, NEW n \in Node, NEW x \in From(f, n), x # n
  PROVE  f[n] # NULL /\ x \in From(f, f[n])
<1>1. f[n] # NULL
  <2>1. CASE f[n] = NULL
    <3>1. {n} \in SUBSET Node /\ ClosedUnder(f, {n}) BY <2>1 DEF ClosedUnder
    <3> QED BY <3>1 DEF From
  <2> QED BY <2>1
<1>2. ASSUME NEW S \in SUBSET Node, f[n] \in S, ClosedUnder(f, S) PROVE x \in S
  <2>1. S \cup {n} \in SUBSET Node /\ ClosedUnder(f, S \cup {n}) BY <1>2 DEF ClosedUnder
  <2>2. x \in S \cup {n} BY <2>1 DEF From
  <2> QED BY <2>2
<1> QED BY <1>1, <1>2 DEF From

\* prev->next = pts->next takes nothing but pts off anybody's way.
LEMMA FromUnlink ==
  ASSUME NEW f \in Links, NEW p \in Node, NEW m \in Node, f[p] = m, p # m,
         NEW x \in Node, NEW a \in From(f, x), a # m
  PROVE  a \in From([f EXCEPT ![p] = f[m]], x)
<1> DEFINE g == [f EXCEPT ![p] = f[m]]
<1>1. g[p] = f[m] /\ \A b \in Node : b # p => g[b] = f[b] BY DEF Links
<1> HIDE DEF g
<1>2. ASSUME NEW S \in SUBSET Node, x \in S, ClosedUnder(g, S) PROVE a \in S
  <2>1. CASE p \in S
    <3>1. S \cup {m} \in SUBSET Node /\ ClosedUnder(f, S \cup {m})
      <4>1. f[m] # NULL => f[m] \in S BY <1>1, <1>2, <2>1 DEF ClosedUnder
      <4>2. \A b \in S : b # p /\ f[b] # NULL => f[b] \in S BY <1>1, <1>2 DEF ClosedUnder
      <4> QED BY <4>1, <4>2 DEF ClosedUnder
    <3>2. a \in S \cup {m} BY <1>2, <3>1 DEF From
    <3> QED BY <3>2
  <2>2. CASE p \notin S
    <3>1. ClosedUnder(f, S) BY <1>1, <1>2, <2>2 DEF ClosedUnder
    <3> QED BY <1>2, <3>1 DEF From
  <2> QED BY <2>1, <2>2
<1>3. a \in Node BY DEF From
<1>4. a \in From(g, x) BY <1>2, <1>3 DEF From
<1> QED BY <1>4 DEF g

\* pts->next = states, with pts out of the list but leading into it, takes
\* nothing off anybody's way.
LEMMA FromLink ==
  ASSUME NEW f \in Links, NEW m \in Node, NEW h \in Node, m \notin From(f, h),
         f[m] = NULL \/ f[m] \in From(f, h), NEW x \in Node
  PROVE  From(f, x) \subseteq From([f EXCEPT ![m] = h], x)
<1> DEFINE g == [f EXCEPT ![m] = h]
<1>1. g[m] = h /\ \A b \in Node : b # m => g[b] = f[b] BY DEF Links
<1> HIDE DEF g
<1>2. ASSUME NEW S \in SUBSET Node, x \in S, ClosedUnder(g, S) PROVE ClosedUnder(f, S)
  <2>1. \A b \in S : b # m /\ f[b] # NULL => f[b] \in S BY <1>1, <1>2 DEF ClosedUnder
  <2>2. CASE m \notin S BY <2>1, <2>2 DEF ClosedUnder
  <2>3. CASE m \in S
    <3> DEFINE R == From(f, h)
    <3>1. h \in R /\ ClosedUnder(f, R) /\ R \subseteq Node BY FromStep
    <3>2. m \notin R /\ (f[m] = NULL \/ f[m] \in R) OBVIOUS
    <3>4. h # NULL BY ConstantAssumption
    <3>5. h \in S BY <1>1, <1>2, <2>3, <3>4 DEF ClosedUnder
    <3> HIDE DEF R
    <3>6. ClosedUnder(f, S \cap R) BY <2>1, <3>1, <3>2 DEF ClosedUnder
    <3>7. R \subseteq S \cap R BY <3>1, <3>5, <3>6, FromIn DEF R
    <3> QED BY <2>1, <3>2, <3>7 DEF ClosedUnder
  <2> QED BY <2>2, <2>3
<1>3. \A a \in From(f, x) : a \in From(g, x) BY <1>2 DEF From
<1> QED BY <1>3 DEF g

\* Only the links of what is reached count.
LEMMA FromKeep ==
  ASSUME NEW f, NEW g, NEW L \in SUBSET Node, ClosedUnder(f, L),
         \A a \in L : g[a] = f[a], NEW x \in L
  PROVE  From(f, x) \subseteq From(g, x)
<1>1. ASSUME NEW S \in SUBSET Node, x \in S, ClosedUnder(g, S)
      PROVE  S \cap L \in SUBSET Node /\ x \in S \cap L /\ ClosedUnder(f, S \cap L)
  BY <1>1 DEF ClosedUnder
<1> QED BY <1>1 DEF From

-----------------------------------------------------------------------------
(* Lists.                                                                  *)

\* The list is what is reached from its head.
LEMMA ListFrom ==
  ASSUME NEW f, NEW L, NEW h, List(L, h, f)
  PROVE  ClosedUnder(f, L) /\ From(f, h) = L
<1>1. ClosedUnder(f, L) /\ L \in SUBSET Node /\ h \in L BY DEF List, ClosedUnder
<1>2. From(f, h) \subseteq L BY <1>1, FromIn
<1> QED BY <1>1, <1>2 DEF List

\* Other links may change.
LEMMA ListKeep ==
  ASSUME NEW f, NEW g, NEW L, NEW h, List(L, h, f), \A a \in L : g[a] = f[a]
  PROVE  List(L, h, g)
<1>1. ClosedUnder(f, L) /\ L \in SUBSET Node /\ h \in L BY ListFrom DEF List
<1>2. From(f, h) \subseteq From(g, h) BY <1>1, FromKeep
<1> QED BY <1>2 DEF List

\* Every member but the first has a predecessor.
LEMMA PredExists ==
  ASSUME NEW f, NEW L, NEW h, List(L, h, f), NEW m \in L, m # h
  PROVE  \E p \in L : f[p] = m
<1> SUFFICES ASSUME \A p \in L : f[p] # m PROVE FALSE OBVIOUS
<1>1. L \ {m} \in SUBSET Node /\ h \in L \ {m} /\ ClosedUnder(f, L \ {m})
  BY DEF List, ClosedUnder
<1>2. From(f, h) \subseteq L \ {m} BY <1>1, FromIn
<1> QED BY <1>2 DEF List

\* A member behind another one is taken out.
LEMMA ListRemove ==
  ASSUME NEW f \in Links, NEW L, NEW h, List(L, h, f), NEW p \in L, NEW m \in L, f[p] = m
  PROVE  /\ List(L \ {m}, h, [f EXCEPT ![p] = f[m]])
         /\ p # m /\ m # h
<1> DEFINE g == [f EXCEPT ![p] = f[m]]
<1>1. L \in SUBSET Node /\ h \in L /\ m # h /\ m # NULL BY ConstantAssumption DEF List
<1>2. p # m
  <2>1. CASE p = m
    <3>1. \A q \in L : f[q] = m => q = m BY <1>1, <2>1 DEF List
    <3>2. L \ {m} \in SUBSET Node /\ h \in L \ {m} /\ ClosedUnder(f, L \ {m})
      BY <1>1, <3>1 DEF List, ClosedUnder
    <3>3. From(f, h) \subseteq L \ {m} BY <3>2, FromIn
    <3> QED BY <3>3 DEF List
  <2> QED BY <2>1
<1>3. g[p] = f[m] /\ \A b \in L : b # p => g[b] = f[b] BY <1>1 DEF Links
<1>4. \A a \in L : f[a] = m => a = p BY <1>1 DEF List
<1>5. ASSUME NEW a \in L \ {m} PROVE a \in From(g, h) BY <1>1, <1>2, FromUnlink DEF List
<1> HIDE DEF g
<1>6. \A a \in L \ {m} : g[a] \in (L \ {m}) \cup {NULL} /\ g[a] # h
  <2>1. f[m] # m BY <1>2, <1>4
  <2> QED BY <1>3, <1>4, <2>1 DEF List
<1>7. \A a, b \in L \ {m} : g[a] = g[b] /\ g[a] # NULL => a = b
  <2>1. \A a, b \in L : f[a] = f[b] /\ f[a] # NULL => a = b BY DEF List
  <2> QED BY <1>3, <2>1
<1>8. \E a \in L \ {m} : g[a] = NULL
  <2>1. PICK a \in L : f[a] = NULL BY DEF List
  <2>2. CASE a = m BY <1>2, <1>3, <2>1, <2>2
  <2>3. CASE a # m
    <3>1. a # p BY <1>1, <2>1
    <3> QED BY <1>3, <2>1, <2>3, <3>1
  <2> QED BY <2>2, <2>3
<1>9. List(L \ {m}, h, g) BY <1>1, <1>5, <1>6, <1>7, <1>8 DEF List
<1> QED BY <1>1, <1>2, <1>9 DEF g

\* The first one is taken out, and there are others.
LEMMA ListBehead ==
  ASSUME NEW f \in Links, NEW L, NEW h, List(L, h, f), NEW x \in L, x # h
  PROVE  f[h] # NULL /\ List(L \ {h}, f[h], f)
<1>1. L \in SUBSET Node /\ h \in L /\ h \in Node /\ x \in From(f, h) BY DEF List
<1>2. f[h] # NULL BY <1>1, FromNext
<1>3. f[h] \in L \ {h} BY <1>2 DEF List
<1>4. \A a \in L \ {h} : a \in From(f, f[h]) BY <1>1, FromNext DEF List
<1>5. \A a \in L \ {h} : f[a] \in (L \ {h}) \cup {NULL} /\ f[a] # f[h]
  BY <1>1, <1>2 DEF List
<1>6. \E a \in L \ {h} : f[a] = NULL BY <1>2 DEF List
<1>7. \A a, b \in L \ {h} : f[a] = f[b] /\ f[a] # NULL => a = b BY DEF List
<1> QED BY <1>1, <1>2, <1>3, <1>4, <1>5, <1>6, <1>7 DEF List

\* Another one is put in front.
LEMMA ListPush ==
  ASSUME NEW f \in Links, NEW L, NEW h, List(L, h, f), NEW m \in Node \ L, f[m] = h
  PROVE  List(L \cup {m}, m, f)
<1>1. L \in SUBSET Node /\ h \in L /\ h # NULL /\ m # NULL BY ConstantAssumption DEF List
<1>2. \A a \in L \cup {m} : a \in From(f, m)
  <2>1. m \in From(f, m) BY FromStep
  <2>2. ASSUME NEW S \in SUBSET Node, m \in S, ClosedUnder(f, S) PROVE L \subseteq S
    <3>1. h \in S BY <1>1, <2>2 DEF ClosedUnder
    <3> QED BY <2>2, <3>1, FromIn DEF List
  <2>3. \A a \in L : a \in From(f, m) BY <1>1, <2>2 DEF From
  <2> QED BY <2>1, <2>3
<1>3. \A a \in L \cup {m} : f[a] \in (L \cup {m}) \cup {NULL} /\ f[a] # m
  BY <1>1 DEF List
<1>4. \A a, b \in L \cup {m} : f[a] = f[b] /\ f[a] # NULL => a = b BY <1>1 DEF List
<1>5. \E a \in L \cup {m} : f[a] = NULL BY DEF List
<1> QED BY <1>1, <1>2, <1>3, <1>4, <1>5 DEF List
-----------------------------------------------------------------------------
(* The states that can be walked on.                                       *)

\* They are the list and the state that is being moved, and links do not lead
\* out of them.
LEMMA LiveFacts ==
  ASSUME Sound
  PROVE  /\ Listed \subseteq Live /\ Live \subseteq heap /\ Live \in SUBSET Node
         /\ states \in Listed
         /\ ClosedUnder(next, Live)
         /\ \A x \in Live : From(next, x) \subseteq Live
<1>1. Listed \subseteq Live /\ Live \subseteq heap BY DEF Listed, Live, Outside
<1>2. Live \in SUBSET Node BY <1>1 DEF Sound, TypeOK
<1>3. states \in Listed /\ \A a \in Listed : next[a] \in Listed \cup {NULL} BY DEF Sound, List
<1>4. ASSUME NEW x \in Live, next[x] # NULL PROVE next[x] \in Live
  <2>1. CASE x \in Listed BY <1>1, <1>3, <1>4, <2>1
  <2>2. CASE x \notin Listed
    <3>1. PICK t \in Thread : pts[t] = x /\ pc[t] \in {"get_link", "get_front"}
      BY <2>2 DEF Listed, Live, Outside
    <3>2. next[x] \in Listed \cup {NULL} BY <1>3, <3>1 DEF Sound, Proper
    <3> QED BY <1>1, <1>4, <3>2
  <2> QED BY <2>1, <2>2
<1>5. ClosedUnder(next, Live) BY <1>4 DEF ClosedUnder
<1> QED BY <1>1, <1>2, <1>3, <1>5, FromIn

\* A thread that is not moving, creating or freeing its state has it in the
\* list.
LEMMA HasListed ==
  ASSUME Sound, NEW t \in Thread, pc[t] \notin Outside, NEW n \in heap, thread_id[n] = t
  PROVE  n \in Listed
BY DEF Listed, Sound, Proper

\* A step of one thread leaves another one as it should be: it may walk where
\* it walked, it has its state, it is not mixed up with the mutex, and its
\* state is still ahead of it.
LEMMA Others ==
  ASSUME Sound, NEW u \in Thread,
         pc'[u] = pc[u], pts'[u] = pts[u], prev'[u] = prev[u],
         pc[u] \in {"get", "ensure"} /\ pts[u] \in Live => pts[u] \in Live',
         pc[u] \in {"get", "get_lock"} /\ prev[u] \in Live => prev[u] \in Live',
         \A n \in heap : thread_id[n] = u => n \in heap' /\ thread_id'[n] = u,
         \A n \in heap' : thread_id'[n] = u => n \in heap /\ thread_id[n] = u,
         \/ states_mutex # u /\ states_mutex' # u
         \/ /\ UNCHANGED <<states_mutex, states>> /\ Listed' = Listed
            /\ pts[u] \in heap => next'[pts[u]] = next[pts[u]],
         pc[u] \in {"get", "ensure"} /\ pts[u] \in Live =>
           \A n \in heap : thread_id[n] = u /\ n \in From(next, pts[u]) => n \in From(next', pts[u])
  PROVE  Proper(u)'
<1>1. Has(u)' <=> Has(u) BY DEF Has
<1>2. Proper(u) BY DEF Sound
<1>3. /\ pc'[u] \in Outside \cup {"get_lock"} => pts'[u] \in heap' /\ thread_id'[pts'[u]] = u
      /\ pc'[u] \in {"none", "new"} => ~Has(u)'
      /\ pc'[u] \in {"run", "get"} => Has(u)'
      /\ u = main_thread => Has(u)' /\ pc'[u] \notin Private
  BY <1>1, <1>2 DEF Proper
<1>4. /\ states_mutex' = u <=> pc'[u] \in Holding
      /\ pc'[u] = "get_link" => next'[pts'[u]] \in Listed' \cup {NULL}
      /\ pc'[u] \in {"get_front", "new_front"} => next'[pts'[u]] = states'
  BY <1>2 DEF Proper, Holding, Outside, Private
<1>5. /\ pc'[u] \in {"get", "ensure"} => pts'[u] \in Live' \cup {NULL}
      /\ pc'[u] \in {"get", "get_lock"} => prev'[u] \in Live' \cup {NULL}
      /\ pc'[u] \in {"get_lock", "new_find"} => prev'[u] # NULL
  BY <1>2 DEF Proper
<1>6. ASSUME pc'[u] \in {"get", "ensure"}, Has(u)'
      PROVE  pts'[u] # NULL /\ \E n \in From(next', pts'[u]) : thread_id'[n] = u
  <2>1. pts[u] \in Live /\ \E n \in From(next, pts[u]) : thread_id[n] = u
    BY <1>1, <1>2, <1>6 DEF Proper
  <2>2. PICK n \in From(next, pts[u]) : thread_id[n] = u BY <2>1
  <2>3. n \in heap BY <2>1, <2>2, LiveFacts
  <2>4. NULL \notin Live BY LiveFacts, ConstantAssumption
  <2> QED BY <1>6, <2>1, <2>2, <2>3, <2>4
<1> QED BY <1>3, <1>4, <1>5, <1>6 DEF Proper

\* A step of a walker, which changes nothing that is shared.
LEMMA QuietStep ==
  ASSUME Sound, NEW t \in Thread, NEW to \in PCs, pc' = [pc EXCEPT ![t] = to],
         \/ pc[t] \in Private /\ to \in Private /\ pts' = pts
         \/ pc[t] \notin Outside /\ to \notin Outside,
         pts' \in [Thread -> Node \cup {NULL}], prev' \in [Thread -> Node \cup {NULL}],
         \A u \in Thread : u # t => pts'[u] = pts[u] /\ prev'[u] = prev[u],
         UNCHANGED <<states, next, thread_id, heap, states_mutex, dangling>>,
         (Listed' = Listed /\ Live' = Live) => Proper(t)'
  PROVE  Sound'
<1>1. pc \in [Thread -> PCs] BY DEF Sound, TypeOK
<1>2. pc'[t] = to /\ \A u \in Thread : u # t => pc'[u] = pc[u] BY <1>1
<1>3. TypeOK' BY <1>1 DEF Sound, TypeOK
<1>4. Ids' BY DEF Sound, Ids
<1>5. Listed' = Listed /\ Live' = Live
  <2>1. ASSUME NEW n \in heap
        PROVE  /\ (\A u \in Thread : pts'[u] = n => pc'[u] \notin Outside)
                    <=> (\A u \in Thread : pts[u] = n => pc[u] \notin Outside)
               /\ (\A u \in Thread : pts'[u] = n => pc'[u] \notin Private)
                    <=> (\A u \in Thread : pts[u] = n => pc[u] \notin Private)
    <3>1. CASE pc[t] \in Private /\ to \in Private /\ pts' = pts BY <1>2, <3>1 DEF Outside
    <3>2. CASE pc[t] \notin Outside /\ to \notin Outside BY <1>2, <3>2 DEF Outside
    <3> QED BY <3>1, <3>2
  <2> QED BY <2>1 DEF Listed, Live
<1>6. List(Listed, states, next)' BY <1>5 DEF Sound, List, From, ClosedUnder
<1>7. ASSUME NEW u \in Thread, u # t PROVE Proper(u)'
  BY <1>2, <1>5, <1>7, Others
<1> QED BY <1>3, <1>4, <1>5, <1>6, <1>7 DEF Sound
-----------------------------------------------------------------------------
(* Walks.                                                                  *)

\* PyThreadState_Get and PyThreadState_Ensure begin their walk: the list holds
\* the caller's state if it has one.
LEMMA WalkBegins ==
  ASSUME Sound, NEW t \in Thread, GetCall(t) \/ EnsureCall(t)
  PROVE  Sound'
<1>1. /\ pc[t] \in {"none", "run"}
      /\ pts' = [pts EXCEPT ![t] = states] /\ UNCHANGED <<states, next, thread_id, heap, states_mutex, dangling>>
      /\ \/ pc[t] = "run" /\ pc' = [pc EXCEPT ![t] = "get"] /\ prev' = [prev EXCEPT ![t] = NULL]
         \/ pc' = [pc EXCEPT ![t] = "ensure"] /\ prev' = prev
  BY DEF GetCall, EnsureCall, Goto
<1>2. TypeOK /\ Proper(t) BY DEF Sound
<1>3. PICK to \in {"get", "ensure"} :
        pc' = [pc EXCEPT ![t] = to] /\ (to = "get" => pc[t] = "run" /\ prev'[t] = NULL)
  BY <1>1, <1>2 DEF TypeOK
<1>4. /\ pts' \in [Thread -> Node \cup {NULL}] /\ prev' \in [Thread -> Node \cup {NULL}]
      /\ pts'[t] = states /\ pc'[t] = to
      /\ \A u \in Thread : u # t => pts'[u] = pts[u] /\ prev'[u] = prev[u]
  BY <1>1, <1>2, <1>3 DEF TypeOK
<1>5. ASSUME Listed' = Listed, Live' = Live PROVE Proper(t)'
  <2>1. states \in Live /\ states # NULL BY <1>2, LiveFacts, ConstantAssumption DEF TypeOK
  <2>2. Has(t) => \E n \in From(next, states) : thread_id[n] = t
    <3>1. pc[t] \notin Outside BY <1>1 DEF Outside, Private
    <3>2. From(next, states) = Listed BY ListFrom DEF Sound
    <3> QED BY <3>1, <3>2, HasListed DEF Has
  <2>3. Has(t)' <=> Has(t) BY <1>1 DEF Has
  <2>4. pc'[t] = "get" => Has(t) BY <1>2, <1>3, <1>4 DEF Proper
  <2>5. pc[t] \notin Holding /\ to \notin Holding /\ to \notin Outside BY <1>1 DEF Holding, Outside, Private
  <2> QED BY <1>1, <1>2, <1>3, <1>4, <1>5, <2>1, <2>2, <2>3, <2>4, <2>5 DEF Proper, Outside
<1>6. pc[t] \notin Outside /\ to \notin Outside /\ to \in PCs BY <1>1 DEF Outside, Private, PCs
<1> QED BY <1>1, <1>3, <1>4, <1>5, <1>6, QuietStep

\* They go on: the caller's state is not the one they leave, so it is ahead of
\* the next one, and a walk for a state that exists does not end without it.
LEMMA WalkGoesOn ==
  ASSUME Sound, NEW t \in Thread, GetNext(t) \/ EnsureNext(t)
  PROVE  Sound'
<1> DEFINE x == pts[t]
           y == next[x]
<1>1. /\ pc[t] \in {"get", "ensure"} /\ thread_id[x] # t
      /\ pts' = [pts EXCEPT ![t] = y] /\ UNCHANGED <<states, next, thread_id, heap, states_mutex, dangling>>
      /\ \/ /\ pc[t] = "get" /\ pc' = [pc EXCEPT ![t] = IF y = NULL THEN "fatal" ELSE "get"]
            /\ prev' = [prev EXCEPT ![t] = x]
         \/ pc[t] = "ensure" /\ pc' = [pc EXCEPT ![t] = "ensure"] /\ prev' = prev /\ x # NULL
  BY DEF GetNext, EnsureNext, Goto
<1>2. TypeOK /\ Proper(t) BY DEF Sound
<1>3. pc[t] = "get" => Has(t) BY <1>2 DEF Proper
<1>4. x \in Live /\ x \in Node /\ y \in Live \cup {NULL}
  <2>1. x \in Live BY <1>1, <1>2, <1>3 DEF Proper
  <2> QED BY <2>1, LiveFacts DEF ClosedUnder
<1>5. Has(t) => y # NULL /\ \E n \in From(next, y) : thread_id[n] = t
  <2> SUFFICES ASSUME Has(t) PROVE y # NULL /\ \E n \in From(next, y) : thread_id[n] = t
    OBVIOUS
  <2>1. PICK n \in From(next, x) : thread_id[n] = t BY <1>1, <1>2 DEF Proper
  <2>2. n # x BY <1>1, <2>1
  <2>3. next \in Links BY <1>2 DEF TypeOK, Links
  <2> QED BY <1>4, <2>1, <2>2, <2>3, FromNext
<1>6. pc' = [pc EXCEPT ![t] = pc[t]] BY <1>1, <1>3, <1>5
<1> HIDE DEF x, y
<1>7. /\ pts' \in [Thread -> Node \cup {NULL}] /\ prev' \in [Thread -> Node \cup {NULL}]
      /\ pts'[t] = y /\ pc'[t] = pc[t] /\ (pc[t] = "get" => prev'[t] = x)
      /\ \A u \in Thread : u # t => pts'[u] = pts[u] /\ prev'[u] = prev[u]
  <2>1. y \in Node \cup {NULL} BY <1>4, LiveFacts
  <2> QED BY <1>1, <1>2, <1>4, <1>6, <2>1 DEF TypeOK
<1>8. ASSUME Listed' = Listed, Live' = Live PROVE Proper(t)'
  <2>1. Has(t)' <=> Has(t) BY <1>1 DEF Has
  <2>2. pc[t] \notin Holding /\ pc[t] \notin Outside BY <1>1 DEF Holding, Outside, Private
  <2> QED BY <1>1, <1>2, <1>3, <1>4, <1>5, <1>7, <1>8, <2>1, <2>2 DEF Proper, Outside
<1>9. pc[t] \notin Outside /\ pc[t] \in PCs BY <1>1 DEF Outside, Private, PCs
<1> QED BY <1>1, <1>6, <1>7, <1>8, <1>9, QuietStep

\* They find it; or PyThreadState_Ensure finds that there is none.
LEMMA WalkEnds ==
  ASSUME Sound, NEW t \in Thread, GetFast(t) \/ GetFound(t) \/ EnsureFound(t) \/ EnsureMiss(t)
  PROVE  Sound'
<1>1. /\ pc[t] \in {"get", "ensure"} /\ UNCHANGED <<states, next, thread_id, heap, states_mutex, pts, prev, dangling>>
      /\ \/ pc' = [pc EXCEPT ![t] = "run"] /\ thread_id[pts[t]] = t /\ (pc[t] = "get" \/ pts[t] # NULL)
         \/ pc' = [pc EXCEPT ![t] = "get_lock"] /\ prev[t] # NULL /\ thread_id[pts[t]] = t /\ pc[t] = "get"
         \/ pc' = [pc EXCEPT ![t] = "new"] /\ pts[t] = NULL /\ pc[t] = "ensure"
  BY DEF GetFast, GetFound, EnsureFound, EnsureMiss, Goto
<1>2. TypeOK /\ Proper(t) BY DEF Sound
<1>3. PICK to \in {"run", "get_lock", "new"} :
        /\ pc' = [pc EXCEPT ![t] = to]
        /\ to # "new" => thread_id[pts[t]] = t /\ (pc[t] = "get" \/ pts[t] # NULL)
        /\ to = "get_lock" => prev[t] # NULL /\ pc[t] = "get"
        /\ to = "new" => pts[t] = NULL /\ pc[t] = "ensure"
  BY <1>1
<1>4. pc'[t] = to BY <1>2, <1>3 DEF TypeOK
<1>5. ASSUME Listed' = Listed, Live' = Live PROVE Proper(t)'
  <2>1. Has(t)' <=> Has(t) BY <1>1 DEF Has
  <2>2. to # "new" => pts[t] \in heap /\ Has(t)
    <3>1. pc[t] = "get" => Has(t) BY <1>2 DEF Proper
    <3>2. to # "new" => pts[t] \in Live BY <1>1, <1>2, <1>3, <3>1 DEF Proper
    <3> QED BY <1>3, <3>2, LiveFacts DEF Has
  <2>3. to = "new" => ~Has(t) BY <1>2, <1>3 DEF Proper
  <2>4. pc[t] \notin Holding /\ to \notin Holding /\ to \notin Outside BY <1>1 DEF Holding, Outside, Private
  <2> QED BY <1>1, <1>2, <1>3, <1>4, <1>5, <2>1, <2>2, <2>3, <2>4 DEF Proper, Outside
<1>6. pc[t] \notin Outside /\ to \notin Outside /\ to \in PCs BY <1>1 DEF Outside, Private, PCs
<1>7. pts' \in [Thread -> Node \cup {NULL}] /\ prev' \in [Thread -> Node \cup {NULL}] BY <1>1, <1>2 DEF TypeOK
<1> QED BY <1>1, <1>3, <1>5, <1>6, <1>7, QuietStep

\* PyThreadState_New up to malloc(), and its search for the main thread's
\* state, which may fail.
LEMMA NewSearches ==
  ASSUME Sound, NEW t \in Thread, NewCall(t) \/ NewNext(t) \/ NewFound(t)
  PROVE  Sound'
<1>1. TypeOK /\ Proper(t) BY DEF Sound
<1>2. CASE NewCall(t)
  <2>1. /\ pc[t] = "none" /\ pc' = [pc EXCEPT ![t] = "new"]
        /\ UNCHANGED <<states, next, thread_id, heap, states_mutex, pts, prev, dangling>>
    BY <1>2 DEF NewCall, Goto
  <2>2. pc'[t] = "new" BY <1>1, <2>1 DEF TypeOK
  <2>3. pc[t] \notin Outside /\ "new" \notin Outside /\ "new" \in PCs BY <2>1 DEF Outside, Private, PCs
  <2>4. Proper(t)'
    <3>1. Has(t)' <=> Has(t) BY <2>1 DEF Has
    <3> QED BY <1>1, <2>1, <2>2, <2>3, <3>1 DEF Proper, Holding, Outside
  <2>5. pts' \in [Thread -> Node \cup {NULL}] /\ prev' \in [Thread -> Node \cup {NULL}] BY <1>1, <2>1 DEF TypeOK
  <2> QED BY <2>1, <2>3, <2>4, <2>5, QuietStep
<1>3. CASE NewNext(t) \/ NewFound(t)
  <2>1. /\ pc[t] = "new_find" /\ UNCHANGED <<states, next, thread_id, heap, states_mutex, pts, dangling>>
        /\ \/ prev' = [prev EXCEPT ![t] = next[prev[t]]]
              /\ pc' = [pc EXCEPT ![t] = IF next[prev[t]] = NULL THEN "fatal" ELSE "new_find"]
           \/ prev' = prev /\ pc' = [pc EXCEPT ![t] = "new_link"]
    BY <1>3 DEF NewNext, NewFound, Goto
  <2>2. prev[t] \in Node BY <1>1, <2>1 DEF TypeOK, Proper
  <2>3. PICK to \in {"new_find", "new_link", "fatal"} :
          pc' = [pc EXCEPT ![t] = to] /\ (to = "new_find" => prev'[t] # NULL)
    BY <1>1, <2>1, <2>2 DEF TypeOK
  <2>4. pc'[t] = to BY <1>1, <2>3 DEF TypeOK
  <2>5. pc[t] \in Private /\ to \in Private /\ to \in PCs BY <2>1 DEF Private, PCs
  <2>6. /\ pts' \in [Thread -> Node \cup {NULL}] /\ prev' \in [Thread -> Node \cup {NULL}]
        /\ \A u \in Thread : u # t => prev'[u] = prev[u]
    BY <1>1, <2>1, <2>2 DEF TypeOK
  <2>7. Proper(t)'
    <3>1. Has(t)' <=> Has(t) BY <2>1 DEF Has
    <3> QED BY <1>1, <2>1, <2>3, <2>4, <2>5, <3>1 DEF Proper, Holding, Outside
  <2> QED BY <2>1, <2>3, <2>5, <2>6, <2>7, QuietStep
<1> QED BY <1>2, <1>3
-----------------------------------------------------------------------------
(* A state is moved to the front.                                          *)

\* While nobody has states_mutex no state is out of the list but those being
\* created or freed.
LEMMA MutexFree ==
  ASSUME Sound, states_mutex = NULL
  PROVE  Live = Listed /\ \A u \in Thread : pc[u] \notin Holding
<1>1. \A u \in Thread : pc[u] \notin Holding BY ConstantAssumption DEF Sound, Proper
<1> QED BY <1>1 DEF Live, Listed, Outside, Holding

\* Unlinking it: the walkers on it still get into the list, and nobody else
\* loses anything but the way to it.
LEMMA UnlinkInv ==
  ASSUME Sound, NEW t \in Thread, GetUnlink(t)
  PROVE  Sound'
<1> DEFINE m == pts[t]
           p == Pred(t)
<1>1. /\ pc[t] = "get_lock" /\ pc' = [pc EXCEPT ![t] = "get_link"] /\ states_mutex = NULL /\ states_mutex' = t
      /\ \E q \in Reach(states) \cup {prev[t]} : next[q] = m
      /\ prev' = [prev EXCEPT ![t] = p] /\ next' = [next EXCEPT ![p] = next[m]]
      /\ UNCHANGED <<states, thread_id, heap, pts, dangling>>
  BY DEF GetUnlink, Goto, Unlinked
<1>2. TypeOK /\ Proper(t) /\ List(Listed, states, next) /\ next \in Links BY DEF Sound, TypeOK, Links
<1>3. Live = Listed /\ \A u \in Thread : pc[u] \notin Holding BY <1>1, MutexFree
<1>4. m \in Listed /\ m \in Node
  <2>1. m \in heap /\ thread_id[m] = t BY <1>1, <1>2 DEF Proper
  <2>2. pc[t] \notin Outside BY <1>1 DEF Outside, Private
  <2> QED BY <1>2, <2>1, <2>2, HasListed DEF TypeOK
<1>5. p \in Listed /\ next[p] = m /\ p \in Node
  <2>1. Reach(states) = Listed
    <3>1. Reach(states) = From(next, states) BY DEF Reach, From, Closed, ClosedUnder
    <3> QED BY <1>2, <3>1, ListFrom
  <2>2. prev[t] \in Listed BY <1>1, <1>2, <1>3 DEF Proper
  <2>3. p \in Listed /\ next[p] = m BY <1>1, <2>1, <2>2 DEF Pred
  <2> QED BY <1>2, <2>3 DEF Listed, TypeOK
<1> HIDE DEF m, p
<1>6. List(Listed \ {m}, states, next') /\ p # m BY <1>1, <1>2, <1>4, <1>5, ListRemove
<1>7. /\ pc'[t] = "get_link" /\ \A u \in Thread : u # t => pc'[u] = pc[u]
      /\ \A u \in Thread : u # t => prev'[u] = prev[u]
      /\ next'[m] = next[m]
  BY <1>1, <1>2, <1>4, <1>5, <1>6 DEF TypeOK
<1>8. TypeOK' BY <1>1, <1>2, <1>4, <1>5 DEF TypeOK, PCs
<1>9. Listed' = Listed \ {m} /\ Live' = Live
  <2>1. ASSUME NEW n \in heap
        PROVE  /\ (\A u \in Thread : pts[u] = n => pc'[u] \notin Outside)
                    <=> n # m /\ (\A u \in Thread : pts[u] = n => pc[u] \notin Outside)
               /\ (\A u \in Thread : pts[u] = n => pc'[u] \notin Private)
                    <=> (\A u \in Thread : pts[u] = n => pc[u] \notin Private)
    BY <1>1, <1>7 DEF m, Outside, Private
  <2>2. m \in heap BY <1>4 DEF Listed
  <2> QED BY <1>1, <2>1, <2>2 DEF Listed, Live
<1>10. Ids' BY <1>1 DEF Sound, Ids
<1>11. List(Listed, states, next)'
  <2>1. List(Listed', states', next') BY <1>1, <1>6, <1>9
  <2> QED BY <2>1 DEF List, From, ClosedUnder
<1>12. ASSUME NEW u \in Thread, u # t PROVE Proper(u)'
  <2>1. ASSUME pts[u] \in Live, NEW n \in heap, thread_id[n] = u, n \in From(next, pts[u])
        PROVE  n \in From(next', pts[u])
    <3>1. thread_id[m] = t BY <1>1, <1>2 DEF Proper, m
    <3>2. n # m /\ pts[u] \in Node BY <1>12, <2>1, <3>1, LiveFacts
    <3> QED BY <1>1, <1>2, <1>4, <1>5, <1>6, <2>1, <3>2, FromUnlink
  <2>2. states_mutex # u /\ states_mutex' # u BY <1>1, <1>12, ConstantAssumption
  <2> QED BY <1>1, <1>7, <1>9, <1>12, <2>1, <2>2, Others
<1>13. Proper(t)'
  <2>1. Has(t)' <=> Has(t) BY <1>1 DEF Has
  <2>2. next[m] \in (Listed \ {m}) \cup {NULL}
    <3>1. next[m] \in Listed \cup {NULL} BY <1>2, <1>4 DEF List
    <3>2. next[m] # m
      <4>1. m # NULL BY <1>4, ConstantAssumption
      <4> QED BY <1>2, <1>4, <1>5, <1>6, <4>1 DEF List
    <3> QED BY <3>1, <3>2
  <2>3. pts'[t] = m BY <1>1 DEF m
  <2>4. "get_link" \in Holding /\ "get_link" \in Outside /\ "get_link" \notin Private
    BY DEF Holding, Outside, Private
  <2>5. m \in heap /\ thread_id[m] = t BY <1>1, <1>2 DEF Proper, m
  <2> QED BY <1>1, <1>2, <1>7, <1>9, <2>1, <2>2, <2>3, <2>4, <2>5 DEF Proper
<1> QED BY <1>8, <1>10, <1>11, <1>12, <1>13 DEF Sound

\* Linking it to the front: whoever is on it has the whole list ahead.
LEMMA LinkInv ==
  ASSUME Sound, NEW t \in Thread, GetLink(t)
  PROVE  Sound'
<1> DEFINE m == pts[t]
<1>1. /\ pc[t] = "get_link" /\ pc' = [pc EXCEPT ![t] = "get_front"] /\ next' = [next EXCEPT ![m] = states]
      /\ UNCHANGED <<states, thread_id, heap, states_mutex, pts, prev, dangling>>
  BY DEF GetLink, Goto
<1>2. TypeOK /\ Proper(t) /\ List(Listed, states, next) /\ next \in Links BY DEF Sound, TypeOK, Links
<1>3. m \in heap /\ thread_id[m] = t /\ m \in Node /\ next[m] \in Listed \cup {NULL} /\ states_mutex = t
  BY <1>1, <1>2 DEF Proper, TypeOK, Outside, Holding
<1>4. m \notin Listed BY <1>1 DEF Listed, Outside
<1>5. From(next, states) = Listed BY <1>2, ListFrom
<1> HIDE DEF m
<1>6. /\ pc'[t] = "get_front" /\ \A u \in Thread : u # t => pc'[u] = pc[u]
      /\ next'[m] = states /\ \A n \in Node : n # m => next'[n] = next[n]
  BY <1>1, <1>2, <1>3 DEF TypeOK
<1>7. TypeOK' BY <1>1, <1>2, <1>3 DEF TypeOK, PCs
<1>8. Listed' = Listed /\ Live' = Live
  <2>1. \A u \in Thread : (pc'[u] \in Outside <=> pc[u] \in Outside) /\ (pc'[u] \in Private <=> pc[u] \in Private)
    BY <1>1, <1>6 DEF Outside, Private
  <2> QED BY <1>1, <2>1 DEF Listed, Live
<1>9. Ids' BY <1>1 DEF Sound, Ids
<1>10. List(Listed, states, next)'
  <2>1. \A n \in Listed : next'[n] = next[n] BY <1>2, <1>4, <1>6 DEF Listed, TypeOK
  <2>2. List(Listed', states', next') BY <1>1, <1>2, <1>8, <2>1, ListKeep
  <2> QED BY <2>2 DEF List, From, ClosedUnder
<1>11. ASSUME NEW u \in Thread, u # t PROVE Proper(u)'
  <2>1. ASSUME pts[u] \in Live PROVE From(next, pts[u]) \subseteq From(next', pts[u])
    <3>1. pts[u] \in Node /\ states \in Node BY <1>2, <2>1, LiveFacts DEF TypeOK
    <3> QED BY <1>1, <1>2, <1>3, <1>4, <1>5, <3>1, FromLink
  <2> QED BY <1>1, <1>3, <1>6, <1>8, <1>11, <2>1, Others
<1>12. Proper(t)'
  <2>1. Has(t)' <=> Has(t) BY <1>1 DEF Has
  <2>2. pts'[t] = m BY <1>1 DEF m
  <2>3. {"get_link", "get_front"} \subseteq Holding /\ "get_front" \in Outside /\ "get_front" \notin Private
    BY DEF Holding, Outside, Private
  <2> QED BY <1>1, <1>2, <1>3, <1>6, <2>1, <2>2, <2>3 DEF Proper
<1> QED BY <1>7, <1>9, <1>10, <1>11, <1>12 DEF Sound

\* A state becomes the first one: one that was moved, or a new one.
LEMMA FrontInv ==
  ASSUME Sound, NEW t \in Thread, GetFront(t) \/ NewFront(t)
  PROVE  Sound'
<1> DEFINE m == pts[t]
<1>1. /\ pc[t] \in {"get_front", "new_front"} /\ pc' = [pc EXCEPT ![t] = "run"] /\ states' = m
      /\ states_mutex' = NULL /\ UNCHANGED <<next, thread_id, heap, pts, prev, dangling>>
  BY DEF GetFront, NewFront, Goto
<1>2. TypeOK /\ Proper(t) /\ List(Listed, states, next) /\ next \in Links /\ Ids
  BY DEF Sound, TypeOK, Links
<1>3. m \in heap /\ thread_id[m] = t /\ m \in Node /\ next[m] = states /\ states_mutex = t
  BY <1>1, <1>2 DEF Proper, TypeOK, Outside, Private, Holding
<1>4. m \notin Listed BY <1>1 DEF Listed, Outside, Private
<1> HIDE DEF m
<1>5. pc'[t] = "run" /\ \A u \in Thread : u # t => pc'[u] = pc[u] BY <1>1, <1>2 DEF TypeOK
<1>6. TypeOK' BY <1>1, <1>2, <1>3 DEF TypeOK, PCs
<1>7. Listed' = Listed \cup {m} /\ Live \subseteq Live'
  <2>1. "run" \notin Outside /\ "run" \notin Private BY DEF Outside, Private
  <2>2. \A u \in Thread : u # t /\ pts[u] = m => pc[u] \notin Outside
    BY <1>3 DEF Sound, Proper
  <2>3. \A u \in Thread : pts[u] = m => pc'[u] \notin Outside BY <1>5, <2>1, <2>2
  <2>4. ASSUME NEW n \in heap, n # m
        PROVE  (\A u \in Thread : pts[u] = n => pc'[u] \notin Outside)
                 <=> (\A u \in Thread : pts[u] = n => pc[u] \notin Outside)
    BY <1>5, <2>4 DEF m
  <2>5. \A u \in Thread : pc'[u] \in Private => pc[u] \in Private BY <1>5, <2>1
  <2> QED BY <1>1, <1>3, <2>3, <2>4, <2>5 DEF Listed, Live
<1>8. Ids' BY <1>1, <1>2 DEF Ids
<1>9. List(Listed, states, next)'
  <2>1. List(Listed', states', next') BY <1>1, <1>2, <1>3, <1>4, <1>7, ListPush
  <2> QED BY <2>1 DEF List, From, ClosedUnder
<1>10. ASSUME NEW u \in Thread, u # t PROVE Proper(u)'
  <2>1. states_mutex # u /\ states_mutex' # u BY <1>1, <1>3, <1>10, ConstantAssumption
  <2> QED BY <1>1, <1>5, <1>7, <1>10, <2>1, Others
<1>11. Proper(t)'
  <2>1. Has(t)' BY <1>1, <1>3 DEF Has
  <2>2. "run" \notin Holding /\ "run" \notin Outside /\ "run" \notin Private BY DEF Holding, Outside, Private
  <2>3. states_mutex' # t BY <1>1, ConstantAssumption
  <2> QED BY <1>5, <2>1, <2>2, <2>3 DEF Proper
<1> QED BY <1>6, <1>8, <1>9, <1>10, <1>11 DEF Sound
-----------------------------------------------------------------------------
(* States come and go.                                                     *)

\* malloc() returns memory nobody walks on.
LEMMA MallocInv ==
  ASSUME Sound, NEW t \in Thread, NEW n \in Node, NewMalloc(t, n)
  PROVE  Sound'
<1>1. /\ pc[t] = "new" /\ pc' = [pc EXCEPT ![t] = "new_find"] /\ n \notin heap /\ heap' = heap \cup {n}
      /\ next' = [next EXCEPT ![n] = NULL] /\ thread_id' = [thread_id EXCEPT ![n] = t]
      /\ pts' = [pts EXCEPT ![t] = n] /\ prev' = [prev EXCEPT ![t] = states]
      /\ UNCHANGED <<states, states_mutex, dangling>>
  BY DEF NewMalloc, Goto
<1>2. TypeOK /\ Proper(t) /\ List(Listed, states, next) /\ Ids BY DEF Sound
<1>3. /\ pc'[t] = "new_find" /\ pts'[t] = n /\ prev'[t] = states
      /\ \A u \in Thread : u # t => pc'[u] = pc[u] /\ pts'[u] = pts[u] /\ prev'[u] = prev[u]
      /\ \A x \in Node : x # n => next'[x] = next[x] /\ thread_id'[x] = thread_id[x]
      /\ thread_id'[n] = t
  BY <1>1, <1>2 DEF TypeOK
<1>4. TypeOK' BY <1>1, <1>2 DEF TypeOK, PCs
<1>5. ~Has(t) BY <1>1, <1>2 DEF Proper
<1>6. \A x \in heap : x # n /\ x \in Node /\ thread_id'[x] = thread_id[x] /\ next'[x] = next[x]
  BY <1>1, <1>2, <1>3 DEF TypeOK
<1>7. Listed' = Listed /\ Live' = Live
  <2>1. "new_find" \in Outside /\ "new_find" \in Private BY DEF Outside, Private
  <2>2. pc[t] \notin Outside /\ pc[t] \notin Private BY <1>1 DEF Outside, Private
  <2>3. n \notin Listed' /\ n \notin Live' BY <1>3, <2>1 DEF Listed, Live
  <2>4. ASSUME NEW x \in heap
        PROVE  /\ (\A u \in Thread : pts'[u] = x => pc'[u] \notin Outside)
                    <=> (\A u \in Thread : pts[u] = x => pc[u] \notin Outside)
               /\ (\A u \in Thread : pts'[u] = x => pc'[u] \notin Private)
                    <=> (\A u \in Thread : pts[u] = x => pc[u] \notin Private)
    BY <1>3, <1>6, <2>2
  <2> QED BY <1>1, <2>3, <2>4 DEF Listed, Live
<1>8. Ids' BY <1>1, <1>2, <1>3, <1>5, <1>6 DEF Ids, Has
<1>9. List(Listed, states, next)'
  <2>1. \A x \in Listed : next'[x] = next[x] BY <1>6 DEF Listed
  <2>2. List(Listed', states', next') BY <1>1, <1>2, <1>7, <2>1, ListKeep
  <2> QED BY <2>2 DEF List, From, ClosedUnder
<1>10. ASSUME NEW u \in Thread, u # t PROVE Proper(u)'
  <2>1. ASSUME pts[u] \in Live PROVE From(next, pts[u]) \subseteq From(next', pts[u])
    <3>1. \A x \in Live : next'[x] = next[x] BY <1>6, LiveFacts
    <3> QED BY <2>1, <3>1, LiveFacts, FromKeep
  <2>2. /\ \A x \in heap : thread_id[x] = u => x \in heap' /\ thread_id'[x] = u
        /\ \A x \in heap' : thread_id'[x] = u => x \in heap /\ thread_id[x] = u
        /\ pts[u] \in heap => next'[pts[u]] = next[pts[u]]
    BY <1>1, <1>3, <1>6, <1>10
  <2> QED BY <1>1, <1>3, <1>7, <1>10, <2>1, <2>2, Others
<1>11. Proper(t)'
  <2>1. Has(t)' BY <1>1, <1>3 DEF Has
  <2>2. "new_find" \notin Holding /\ "new" \notin Holding BY DEF Holding
  <2>3. n \in heap' /\ states # NULL /\ t # main_thread BY <1>1, <1>2, <1>5, ConstantAssumption DEF TypeOK, Proper
  <2> QED BY <1>1, <1>2, <1>3, <2>1, <2>2, <2>3 DEF Proper
<1> QED BY <1>4, <1>8, <1>9, <1>10, <1>11 DEF Sound

\* malloc() fails, and nothing that is shared has changed.
LEMMA NoMemoryInv ==
  ASSUME Sound, NEW t \in Thread, NewNoMemory(t)
  PROVE  Sound'
<1>1. /\ pc[t] = "new" /\ pc' = [pc EXCEPT ![t] = "segv"] /\ pts' = [pts EXCEPT ![t] = NULL]
      /\ UNCHANGED <<states, next, thread_id, heap, states_mutex, prev, dangling>>
  BY DEF NewNoMemory, Goto
<1>2. TypeOK /\ Proper(t) BY DEF Sound
<1>3. /\ pc'[t] = "segv" /\ \A u \in Thread : u # t => pts'[u] = pts[u] /\ prev'[u] = prev[u]
      /\ pts' \in [Thread -> Node \cup {NULL}] /\ prev' \in [Thread -> Node \cup {NULL}]
  BY <1>1, <1>2 DEF TypeOK
<1>4. pc[t] \notin Outside /\ "segv" \notin Outside /\ "segv" \in PCs
  BY <1>1 DEF Outside, Private, PCs
<1>5. Proper(t)'
  <2>1. Has(t)' <=> Has(t) BY <1>1 DEF Has
  <2> QED BY <1>1, <1>2, <1>3, <1>4, <2>1 DEF Proper, Holding, Outside
<1> QED BY <1>1, <1>3, <1>4, <1>5, QuietStep

\* The new state leads to the first one.
LEMMA NewLinkInv ==
  ASSUME Sound, NEW t \in Thread, NewLink(t)
  PROVE  Sound'
<1> DEFINE m == pts[t]
<1>1. /\ pc[t] = "new_link" /\ pc' = [pc EXCEPT ![t] = "new_front"] /\ states_mutex = NULL /\ states_mutex' = t
      /\ next' = [next EXCEPT ![m] = states] /\ UNCHANGED <<states, thread_id, heap, pts, prev, dangling>>
  BY DEF NewLink, Goto
<1>2. TypeOK /\ Proper(t) /\ List(Listed, states, next) BY DEF Sound
<1>3. m \in heap /\ thread_id[m] = t /\ m \in Node BY <1>1, <1>2 DEF Proper, TypeOK, Outside, Private
<1>4. m \notin Listed /\ m \notin Live BY <1>1 DEF Listed, Live, Outside, Private
<1> HIDE DEF m
<1>5. /\ pc'[t] = "new_front" /\ \A u \in Thread : u # t => pc'[u] = pc[u]
      /\ next'[m] = states /\ \A n \in Node : n # m => next'[n] = next[n]
  BY <1>1, <1>2, <1>3 DEF TypeOK
<1>6. TypeOK' BY <1>1, <1>2, <1>3 DEF TypeOK, PCs
<1>7. Listed' = Listed /\ Live' = Live
  <2>1. \A u \in Thread : (pc'[u] \in Outside <=> pc[u] \in Outside) /\ (pc'[u] \in Private <=> pc[u] \in Private)
    BY <1>1, <1>5 DEF Outside, Private
  <2> QED BY <1>1, <2>1 DEF Listed, Live
<1>8. Ids' BY <1>1 DEF Sound, Ids
<1>9. List(Listed, states, next)'
  <2>1. \A n \in Listed : next'[n] = next[n] BY <1>2, <1>4, <1>5 DEF Listed, TypeOK
  <2>2. List(Listed', states', next') BY <1>1, <1>2, <1>7, <2>1, ListKeep
  <2> QED BY <2>2 DEF List, From, ClosedUnder
<1>10. ASSUME NEW u \in Thread, u # t PROVE Proper(u)'
  <2>1. ASSUME pts[u] \in Live PROVE From(next, pts[u]) \subseteq From(next', pts[u])
    <3>1. \A x \in Live : next'[x] = next[x] BY <1>4, <1>5, LiveFacts
    <3> QED BY <2>1, <3>1, LiveFacts, FromKeep
  <2>2. states_mutex # u /\ states_mutex' # u BY <1>1, <1>10, ConstantAssumption
  <2> QED BY <1>1, <1>5, <1>7, <1>10, <2>1, <2>2, Others
<1>11. Proper(t)'
  <2>1. Has(t)' <=> Has(t) BY <1>1 DEF Has
  <2>2. pts'[t] = m BY <1>1 DEF m
  <2>3. "new_front" \in Holding /\ "new_front" \in Private /\ "new_link" \in Private BY DEF Holding, Private
  <2> QED BY <1>1, <1>2, <1>3, <1>5, <2>1, <2>2, <2>3 DEF Proper
<1> QED BY <1>6, <1>8, <1>9, <1>10, <1>11 DEF Sound

\* PyThreadState_Free finds the caller's state and takes it out of the list;
\* the main thread's stays.
LEMMA FreeUnlinkInv ==
  ASSUME Sound, NEW t \in Thread, FreeUnlink(t), ~dangling'
  PROVE  Sound'
<1> DEFINE n == CHOOSE n \in Own(t) : TRUE
<1>1. t # main_thread /\ states_mutex = NULL /\ pc[t] = "run"
  BY DEF FreeUnlink, Goto
<1>2. TypeOK /\ Proper(t) /\ List(Listed, states, next) /\ next \in Links /\ Ids
  BY DEF Sound, TypeOK, Links
<1>3. Reach(states) = Listed
  <2>1. Reach(states) = From(next, states) BY DEF Reach, From, Closed, ClosedUnder
  <2> QED BY <1>2, <2>1, ListFrom
<1>4. Own(t) # {}
  <2>1. PICK x \in heap : thread_id[x] = t BY <1>1, <1>2 DEF Proper, Has
  <2>2. pc[t] \notin Outside BY <1>1 DEF Outside, Private
  <2> QED BY <1>3, <2>1, <2>2, HasListed DEF Own
<1>5. n \in Listed /\ thread_id[n] = t BY <1>3, <1>4 DEF Own
<1>6. /\ pc' = [pc EXCEPT ![t] = "free"] /\ Remove(t, n) /\ pts' = [pts EXCEPT ![t] = n]
      /\ UNCHANGED <<states_mutex, thread_id, heap, prev>>
      /\ dangling' = (dangling \/ \E u \in Thread : StandsOn(u, n))
  BY <1>4 DEF FreeUnlink, Goto
<1> HIDE DEF n
<1>7. dangling' \in BOOLEAN /\ \A u \in Thread : ~StandsOn(u, n) BY <1>6, Zenon
<1>8. n \in heap /\ n \in Node /\ Listed \subseteq heap BY <1>2, <1>5 DEF Listed, TypeOK
<1>9. ASSUME states # n
       PROVE  \E p \in Listed : /\ next[p] = n /\ p # n /\ states' = states
                                /\ next' = [next EXCEPT ![p] = next[n]]
  <2> DEFINE p == CHOOSE p \in Reach(states) : next[p] = n
  <2>1. \E q \in Listed : next[q] = n BY <1>2, <1>5, <1>9, PredExists
  <2>2. p \in Listed /\ next[p] = n BY <1>3, <2>1
  <2>3. states' = states /\ next' = [next EXCEPT ![p] = next[n]] BY <1>6, <1>9 DEF Remove
  <2> HIDE DEF p
  <2>4. p # n BY <1>2, <1>5, <2>2, ListRemove
  <2> QED BY <2>2, <2>3, <2>4
<1>10. List(Listed \ {n}, states', next') /\ states' \in Node /\ next' \in Links
  <2>1. CASE states = n
    <3>1. states' = next[n] /\ next' = next BY <1>6, <2>1 DEF Remove
    <3>2. PICK x \in heap : thread_id[x] = main_thread
      BY ConstantAssumption DEF Sound, Proper, Has
    <3>3. pc[main_thread] \notin Outside
      BY <1>1, MutexFree, ConstantAssumption DEF Sound, Proper, Outside, Holding
    <3>4. x \in Listed BY <3>2, <3>3, HasListed, ConstantAssumption
    <3>5. x # n BY <1>1, <1>5, <3>2
    <3>6. next[n] # NULL /\ List(Listed \ {n}, next[n], next) BY <1>2, <2>1, <3>4, <3>5, ListBehead
    <3> QED BY <1>2, <1>8, <3>1, <3>6 DEF Links
  <2>2. CASE states # n
    <3>1. PICK p \in Listed : /\ next[p] = n /\ p # n /\ states' = states
                              /\ next' = [next EXCEPT ![p] = next[n]]
      BY <1>9, <2>2
    <3>4. List(Listed \ {n}, states, next') BY <1>2, <1>5, <3>1, ListRemove
    <3> QED BY <1>2, <1>8, <3>1, <3>4 DEF Links, TypeOK
  <2> QED BY <2>1, <2>2
<1>11. /\ pc'[t] = "free" /\ pts'[t] = n
      /\ \A u \in Thread : u # t => pc'[u] = pc[u] /\ pts'[u] = pts[u]
  BY <1>2, <1>6 DEF TypeOK
<1>12. TypeOK' BY <1>2, <1>6, <1>8, <1>10, <1>7 DEF TypeOK, Links, PCs
<1>13. Listed' = Listed \ {n}
  <2>1. "free" \in Outside /\ pc[t] \notin Outside BY <1>1 DEF Outside, Private
  <2>2. n \notin Listed' BY <1>11, <2>1 DEF Listed
  <2>3. ASSUME NEW x \in heap, x # n
        PROVE  (\A u \in Thread : pts'[u] = x => pc'[u] \notin Outside)
                 <=> (\A u \in Thread : pts[u] = x => pc[u] \notin Outside)
    BY <1>11, <2>1, <2>3
  <2> QED BY <1>6, <2>2, <2>3 DEF Listed
<1>14. Live' = Live \ {n}
  <2>1. "free" \in Private /\ pc[t] \notin Private BY <1>1 DEF Private
  <2>2. n \notin Live' BY <1>11, <2>1 DEF Live
  <2>3. ASSUME NEW x \in heap, x # n
        PROVE  (\A u \in Thread : pts'[u] = x => pc'[u] \notin Private)
                 <=> (\A u \in Thread : pts[u] = x => pc[u] \notin Private)
    BY <1>11, <2>1, <2>3
  <2> QED BY <1>6, <2>2, <2>3 DEF Live
<1>15. Ids' BY <1>2, <1>6 DEF Ids
<1>16. List(Listed, states, next)'
  <2>1. List(Listed', states', next') BY <1>10, <1>13
  <2> QED BY <2>1 DEF List, From, ClosedUnder
<1>17. ASSUME NEW u \in Thread, u # t PROVE Proper(u)'
  <2>1. states_mutex # u /\ states_mutex' # u BY <1>1, <1>6, ConstantAssumption
  <2>2. /\ pc[u] \in {"get", "ensure"} /\ pts[u] \in Live => pts[u] \in Live'
        /\ pc[u] \in {"get", "get_lock"} /\ prev[u] \in Live => prev[u] \in Live'
    BY <1>7, <1>14 DEF StandsOn
  <2>3. ASSUME pts[u] \in Live, NEW x \in heap, thread_id[x] = u, x \in From(next, pts[u])
        PROVE  x \in From(next', pts[u])
    <3>1. x # n /\ pts[u] \in Node BY <1>5, <1>17, <2>3, LiveFacts
    <3>2. CASE states = n BY <1>6, <2>3, <3>2 DEF Remove
    <3>3. CASE states # n
      <4>1. PICK p \in Listed : next[p] = n /\ p # n /\ next' = [next EXCEPT ![p] = next[n]]
        BY <1>9, <3>3
      <4>2. p \in Node BY <1>2 DEF Listed, TypeOK
      <4> QED BY <1>2, <1>8, <2>3, <3>1, <4>1, <4>2, FromUnlink
    <3> QED BY <3>2, <3>3
  <2> QED BY <1>6, <1>11, <1>17, <2>1, <2>2, <2>3, Others
<1>18. Proper(t)'
  <2>1. Has(t)' BY <1>5, <1>6, <1>8 DEF Has
  <2>2. "free" \notin Holding /\ "free" \in Outside /\ states_mutex' # t
    BY <1>1, <1>6, ConstantAssumption DEF Holding, Outside, Private
  <2> QED BY <1>1, <1>5, <1>6, <1>8, <1>11, <2>1, <2>2 DEF Proper
<1> QED BY <1>12, <1>15, <1>16, <1>17, <1>18 DEF Sound

\* free() gets back memory that is out of the list.
LEMMA FreeNodeInv ==
  ASSUME Sound, NEW t \in Thread, FreeNode(t)
  PROVE  Sound'
<1> DEFINE m == pts[t]
<1>1. /\ pc[t] = "free" /\ pc' = [pc EXCEPT ![t] = "none"] /\ heap' = heap \ {m}
      /\ UNCHANGED <<states, next, thread_id, states_mutex, pts, prev, dangling>>
  BY DEF FreeNode, Goto
<1>2. TypeOK /\ Proper(t) /\ List(Listed, states, next) /\ Ids BY DEF Sound
<1>3. m \in heap /\ thread_id[m] = t BY <1>1, <1>2 DEF Proper, Outside, Private
<1>4. m \notin Listed /\ m \notin Live BY <1>1 DEF Listed, Live, Outside, Private
<1>5. pc'[t] = "none" /\ \A u \in Thread : u # t => pc'[u] = pc[u] BY <1>1, <1>2 DEF TypeOK
<1>6. TypeOK' BY <1>1, <1>2 DEF TypeOK, PCs
<1>7. Listed' = Listed /\ Live' = Live
  <2>1. ASSUME NEW x \in heap, x # m
        PROVE  /\ (\A u \in Thread : pts[u] = x => pc'[u] \notin Outside)
                    <=> (\A u \in Thread : pts[u] = x => pc[u] \notin Outside)
               /\ (\A u \in Thread : pts[u] = x => pc'[u] \notin Private)
                    <=> (\A u \in Thread : pts[u] = x => pc[u] \notin Private)
    BY <1>5, <2>1
  <2> HIDE DEF m
  <2> QED BY <1>1, <1>4, <2>1 DEF Listed, Live
<1>8. Ids' BY <1>1, <1>2 DEF Ids
<1>9. List(Listed, states, next)'
  <2>1. List(Listed', states', next') BY <1>1, <1>2, <1>7
  <2> QED BY <2>1 DEF List, From, ClosedUnder
<1>10. ASSUME NEW u \in Thread, u # t PROVE Proper(u)'
  <2>1. /\ \A x \in heap : thread_id[x] = u => x \in heap' /\ thread_id'[x] = u
        /\ \A x \in heap' : thread_id'[x] = u => x \in heap /\ thread_id[x] = u
    BY <1>1, <1>3, <1>10
  <2> QED BY <1>1, <1>5, <1>7, <1>10, <2>1, Others
<1>11. Proper(t)'
  <2>1. ~Has(t)' BY <1>1, <1>2, <1>3 DEF Has, Ids
  <2>2. "none" \notin Holding /\ "none" \notin Outside /\ "free" \notin Holding /\ "free" \in Private
    BY DEF Holding, Outside, Private
  <2> QED BY <1>1, <1>2, <1>5, <2>1, <2>2 DEF Proper
<1> QED BY <1>6, <1>8, <1>9, <1>10, <1>11 DEF Sound
-----------------------------------------------------------------------------
\* The list of the main thread alone.
LEMMA InvInit == Init => Sound
<1> SUFFICES ASSUME Init PROVE Sound OBVIOUS
<1>1. PICK n \in Node :
        /\ states = n /\ next = [m \in Node |-> NULL]
        /\ thread_id = [m \in Node |-> IF m = n THEN main_thread ELSE NULL]
        /\ heap = {n} /\ states_mutex = NULL
        /\ pc = [t \in Thread |-> IF t = main_thread THEN "run" ELSE "none"]
        /\ pts = [t \in Thread |-> IF t = main_thread THEN n ELSE NULL]
        /\ prev = [t \in Thread |-> NULL] /\ dangling = FALSE
  BY DEF Init
<1>2. TypeOK BY <1>1, ConstantAssumption DEF TypeOK, PCs
<1>3. Ids BY <1>1, ConstantAssumption DEF Ids
<1>4. Listed = {n} BY <1>1 DEF Listed, Outside, Private
<1>5. List({n}, n, next)
  <2>1. next \in Links BY <1>1 DEF Links
  <2>2. n \in From(next, n) BY <2>1, FromStep
  <2> QED BY <1>1, <2>2, ConstantAssumption DEF List
<1>6. ASSUME NEW t \in Thread PROVE Proper(t)
  <2>1. Has(t) <=> t = main_thread BY <1>1, ConstantAssumption DEF Has
  <2>2. pc[t] = (IF t = main_thread THEN "run" ELSE "none") /\ states_mutex # t
    BY <1>1, ConstantAssumption
  <2> QED BY <2>1, <2>2 DEF Proper, Outside, Private, Holding
<1> QED BY <1>1, <1>2, <1>3, <1>4, <1>5, <1>6 DEF Sound

\* No step breaks the invariant.
LEMMA SoundNext ==
  ASSUME Sound, ~dangling', [Next]_vars
  PROVE  Sound'
<1>1. ASSUME NEW t \in Thread, Call_(t) PROVE Sound'
  BY <1>1, WalkBegins, NewSearches, FreeUnlinkInv DEF Call_
<1>2. ASSUME NEW t \in Thread, Get_(t) PROVE Sound'
  BY <1>2, WalkGoesOn, WalkEnds, UnlinkInv, LinkInv, FrontInv DEF Get_
<1>3. ASSUME NEW t \in Thread, New_(t) PROVE Sound'
  BY <1>3, MallocInv, NoMemoryInv, NewSearches, NewLinkInv, FrontInv DEF New_
<1>4. ASSUME NEW t \in Thread, Ensure_(t) \/ FreeNode(t) PROVE Sound'
  BY <1>4, WalkGoesOn, WalkEnds, FreeNodeInv DEF Ensure_
<1>5. CASE UNCHANGED vars
  <2>1. UNCHANGED <<states, next, thread_id, heap, states_mutex, pc, pts, prev, dangling>>
    BY <1>5 DEF vars
  <2>2. TypeOK' /\ Ids' BY <2>1 DEF Sound, TypeOK, Ids
  <2>3. Listed' = Listed /\ Live' = Live BY <2>1 DEF Listed, Live
  <2>4. List(Listed, states, next)' BY <2>1, <2>3 DEF Sound, List, From, ClosedUnder
  <2>5. \A t \in Thread : Proper(t)' BY <2>1, <2>3 DEF Sound, Proper, Has, From, ClosedUnder
  <2> QED BY <2>2, <2>4, <2>5 DEF Sound
<1> QED BY <1>1, <1>2, <1>3, <1>4, <1>5 DEF Next, Step

\* A state that was thrown out under a thread stays so.
LEMMA DanglingStays ==
  ASSUME dangling, [Next]_vars
  PROVE  dangling'
<1>1. ASSUME NEW t \in Thread, FreeUnlink(t) PROVE dangling'
  BY <1>1, Zenon DEF FreeUnlink
<1>2. ASSUME NEW t \in Thread, GetCall(t) \/ NewCall(t) \/ EnsureCall(t) PROVE dangling'
  BY <1>2 DEF GetCall, NewCall, EnsureCall
<1>3. ASSUME NEW t \in Thread, Get_(t) PROVE dangling'
  BY <1>3 DEF Get_, GetFast, GetNext, GetFound, GetUnlink, GetLink, GetFront
<1>4. ASSUME NEW t \in Thread, New_(t) PROVE dangling'
  BY <1>4 DEF New_, NewMalloc, NewNoMemory, NewNext, NewFound, NewLink, NewFront
<1>5. ASSUME NEW t \in Thread, Ensure_(t) \/ FreeNode(t) PROVE dangling'
  BY <1>5 DEF Ensure_, EnsureNext, EnsureFound, EnsureMiss, FreeNode
<1>6. CASE UNCHANGED vars BY <1>6 DEF vars
<1> QED BY <1>1, <1>2, <1>3, <1>4, <1>5, <1>6 DEF Next, Step, Call_

\* Where the states of threadstate.c are, in the list and on the way in and
\* out of it, and what walkers without states_mutex can rely on.
THEOREM InvHolds ==
  Spec => []IInv
<1>1. Init => IInv BY InvInit DEF IInv
<1>2. IInv /\ [Next]_vars => IInv' BY SoundNext, DanglingStays, Zenon DEF IInv
<1> QED BY <1>1, <1>2, PTL DEF Spec

\* "progressing through the links will eventually bring you to the proper
\* state structure" (threadstate.c:27): a thread that walks the list for its
\* own state always has it ahead.
THEOREM AheadHolds ==
  Spec => []StateAhead
<1>1. IInv => StateAhead
  <2> SUFFICES ASSUME Sound, NEW t \in Thread,
                      pc[t] = "get" \/ (pc[t] = "ensure" /\ \E n \in heap : thread_id[n] = t)
               PROVE  pts[t] # NULL /\ \E n \in Reach(pts[t]) : thread_id[n] = t
    BY DEF StateAhead, IInv
  <2>1. Has(t) BY DEF Sound, Proper, Has
  <2>2. pts[t] # NULL /\ \E n \in From(next, pts[t]) : thread_id[n] = t BY <2>1 DEF Sound, Proper
  <2>3. Reach(pts[t]) = From(next, pts[t]) BY DEF Reach, From, Closed, ClosedUnder
  <2> QED BY <2>2, <2>3
<1> QED BY <1>1, InvHolds, PTL

\* While nobody has states_mutex, the list of PyThreadState_New and
\* PyThreadState_Free holds each live state once, and ends: ListExact.
THEOREM ListStaysExact ==
  Spec => []ListExact
<1>1. IInv => ListExact
  <2> SUFFICES ASSUME Sound, states_mutex = NULL
               PROVE  /\ Reach(states) = {n \in heap : \A t \in Thread :
                           pts[t] = n => pc[t] \notin {"new_find", "new_link", "free", "fatal"}}
                      /\ \A m, n \in Reach(states) : thread_id[m] = thread_id[n] => m = n
                      /\ \E n \in Reach(states) : next[n] = NULL
    BY DEF ListExact, IInv
  <2>1. Reach(states) = Listed
    <3>1. Reach(states) = From(next, states) BY DEF Reach, From, Closed, ClosedUnder
    <3> QED BY <3>1, ListFrom DEF Sound
  <2>2. \A t \in Thread : pc[t] \notin Holding BY MutexFree
  <2>3. Listed = {n \in heap : \A t \in Thread :
                    pts[t] = n => pc[t] \notin {"new_find", "new_link", "free", "fatal"}}
    BY <2>2 DEF Listed, Outside, Private, Holding
  <2>4. \A m, n \in Listed : thread_id[m] = thread_id[n] => m = n BY DEF Listed, Sound, Ids
  <2>5. \E n \in Listed : next[n] = NULL BY DEF Sound, List
  <2> QED BY <2>1, <2>3, <2>4, <2>5
<1> QED BY <1>1, InvHolds, PTL
=============================================================================
