------------------------------ MODULE RpcProofs ------------------------------
(* Proofs about Rpc, for any servers, arguments, number of retries and of    *)
(* calls: a result belongs to the call it is returned from, and no call is   *)
(* executed more often than it was sent and duplicated by the network.       *)
EXTENDS Rpc, TLAPS

(* Bags that hold finitely many copies of each of their members.             *)
IsBag(B) == B \in [DOMAIN B -> Nat \ {0}]

(* The ports and the network.                                                *)
Ports ==
  /\ exports \in [Server -> {"program", "other version", "other program"}]
  /\ restarts \in 0 .. MaxRestarts /\ dups \in 0 .. MaxDups
  /\ connected \in BOOLEAN

(* The state but for the history.                                            *)
Types ==
  /\ transport \in {"udp", "broadcast", "tcp"}
  /\ timed \in BOOLEAN
  /\ peers \subseteq Server
  /\ Ports
  /\ lastxid \in 0 .. MaxCalls
  /\ call \in Call \cup {NULL}
  /\ count \in 0 .. Retries
  /\ outcome \in Outcome \cup {NULL}
  /\ DOMAIN requests \subseteq Request /\ IsBag(requests)
  /\ DOMAIN answers \subseteq Answer
  /\ executed \in [Server \X Xid -> Nat] /\ copied \in [Server \X Xid -> Nat]

(* How often a server has executed the call with an xid.                     *)
Runs(s, x) == executed[<<s, x>>]

(* The xid tells the last call from all earlier ones: whatever is on its way *)
(* with the last xid while the call is in progress is of this call, and two  *)
(* requests to a server with the same xid are copies of each other.          *)
Current ==
  /\ call # NULL => call.xid = lastxid
  /\ \A m \in DOMAIN requests :
       /\ m.to \in peers /\ m.call.xid <= lastxid
       /\ call # NULL /\ m.call.xid = lastxid => m.call = call
  /\ \A m, n \in DOMAIN requests : m.to = n.to /\ m.call.xid = n.call.xid => m = n
  /\ \A a \in DOMAIN answers :
       /\ a.from \in peers /\ a.xid <= lastxid
       /\ call # NULL /\ a.xid = lastxid => a.arg = call.arg
       /\ a.stat = "SUCCESS" => Runs(a.from, a.xid) > 0

(* What the broadcast has collected answers the call in progress.            *)
Collected ==
  /\ replies \subseteq Answer
  /\ replies # {} => call # NULL
  /\ \A r \in replies :
       /\ r.arg = call.arg /\ r.xid = lastxid
       /\ r.from \in peers /\ Runs(r.from, r.xid) > 0

(* How often the client has sent the call with an xid to a server at most,   *)
SentBy(x) ==
  IF x > lastxid THEN 0
  ELSE IF transport # "udp" THEN 1
  ELSE IF call # NULL /\ x = lastxid THEN Retries + 1 - count ELSE Retries + 1

(* ... and how often it was put on the way with the network's copies.        *)
Sent(s, x) == SentBy(x) + copied[<<s, x>>]

(* Every execution, and every request on its way, is of a send, or of a copy *)
(* made by the network, of its own.                                          *)
SendsCover ==
  /\ \A s \in Server, x \in Xid : Runs(s, x) <= Sent(s, x)
  /\ \A m \in DOMAIN requests :
       Runs(m.to, m.call.xid) + requests[m] <= Sent(m.to, m.call.xid)

IInv == Types /\ Current /\ Collected /\ ResultsAreMine /\ SendsCover

------------------------------------------------------------------------------
(* What the operators on bags do: BagRemove() takes a copy away, ...         *)
LEMMA RemoveFacts ==
  ASSUME NEW B, IsBag(B), NEW x \in DOMAIN B
  PROVE  /\ IsBag(BagRemove(B, x))
         /\ \A e \in DOMAIN BagRemove(B, x) :
              /\ e \in DOMAIN B
              /\ BagRemove(B, x)[e] = IF e = x THEN B[x] - 1 ELSE B[e]
  <1>1. CASE B[x] = 1
    <2>1. BagRemove(B, x) = [e \in DOMAIN B \ {x} |-> B[e]] BY <1>1 DEF BagRemove
    <2> QED BY <2>1 DEF IsBag
  <1>2. CASE B[x] # 1
    <2>1. BagRemove(B, x) = [e \in DOMAIN B |-> IF e = x THEN B[e] - 1 ELSE B[e]]
      BY <1>2 DEF BagRemove
    <2> QED BY <1>2, <2>1 DEF IsBag
  <1> QED BY <1>1, <1>2

(* ... from a bag of anything, nothing appears by it, ...                    *)
LEMMA RemoveDomain ==
  ASSUME NEW B, NEW x
  PROVE  DOMAIN BagRemove(B, x) \subseteq DOMAIN B
  BY DEF BagRemove

(* ... BagAdd() adds a member, ...                                           *)
LEMMA AddDomain ==
  ASSUME NEW B, NEW x
  PROVE  DOMAIN BagAdd(B, x) \subseteq DOMAIN B \cup {x}
  BY DEF BagAdd

(* ... and what was sent is in the bag once more.                            *)
LEMMA SendFacts ==
  ASSUME NEW c, IsBag(requests), requests' = requests (+) Copies(c),
         NEW S, S = {[to |-> s, call |-> c] : s \in peers}
  PROVE  /\ IsBag(requests')
         /\ DOMAIN requests' = DOMAIN requests \cup S
         /\ \A e \in DOMAIN requests' :
              requests'[e] = (IF e \in DOMAIN requests THEN requests[e] ELSE 0)
                             + (IF e \in S THEN 1 ELSE 0)
  <1> DEFINE C == Copies(c)
  <1>1. DOMAIN C = S /\ \A e \in S : C[e] = 1 BY DEF Copies, SetToBag
  <1> HIDE DEF C
  <1>2. requests' = [e \in DOMAIN requests \cup DOMAIN C |->
                       (IF e \in DOMAIN requests THEN requests[e] ELSE 0)
                       + (IF e \in DOMAIN C THEN C[e] ELSE 0)]
    BY DEF (+), C
  <1>3. DOMAIN requests' = DOMAIN requests \cup S BY <1>1, <1>2
  <1>4. \A e \in DOMAIN requests' :
          requests'[e] = (IF e \in DOMAIN requests THEN requests[e] ELSE 0) + (IF e \in S THEN 1 ELSE 0)
    BY <1>1, <1>2, <1>3
  <1>5. IsBag(requests')
    <2>1. requests' = [e \in DOMAIN requests' |-> requests'[e]] BY <1>2
    <2>2. \A e \in DOMAIN requests' : requests'[e] \in Nat \ {0} BY <1>3, <1>4 DEF IsBag
    <2> QED BY <2>1, <2>2 DEF IsBag
  <1> QED BY <1>3, <1>4, <1>5

(* The numbers of the calls that were sent.                                  *)
LEMMA SentFacts ==
  ASSUME Types
  PROVE  /\ Retries \in Nat /\ count \in Nat /\ count <= Retries /\ lastxid \in Nat
         /\ \A s \in Server, x \in Xid :
              SentBy(x) \in Nat /\ copied[<<s, x>>] \in Nat /\ Sent(s, x) \in Nat
  <1>1. /\ Retries \in Nat /\ count \in Nat /\ count <= Retries /\ lastxid \in Nat
        /\ MaxCalls \in Nat
    <2>1. lastxid \in 0 .. MaxCalls /\ count \in 0 .. Retries BY DEF Types
    <2> QED BY <2>1, BoundAssumption
  <1>2. ASSUME NEW s \in Server, NEW x \in Xid
        PROVE  SentBy(x) \in Nat /\ copied[<<s, x>>] \in Nat /\ Sent(s, x) \in Nat
    <2>1. x \in Nat BY <1>1 DEF Xid
    <2>2. SentBy(x) \in {0, 1, Retries + 1 - count, Retries + 1} BY DEF SentBy
    <2>3. SentBy(x) \in Nat BY <1>1, <2>2
    <2>4. copied[<<s, x>>] \in Nat BY DEF Types
    <2> QED BY <2>3, <2>4 DEF Sent
  <1> QED BY <1>1, <1>2

(* The invariant holds initially.                                            *)
LEMMA InitInv == ASSUME Init PROVE IInv
  <1> USE DEF Init
  <1>1. requests = [e \in {} |-> 1] /\ answers = [e \in {} |-> 1] BY DEF EmptyBag, SetToBag
  <1>2. DOMAIN requests = {} /\ DOMAIN answers = {} /\ IsBag(requests) BY <1>1 DEF IsBag
  <1>3. peers \subseteq Server BY ServerAssumption
  <1>4. Types
    <2>1. timed \in BOOLEAN OBVIOUS
    <2>2. copied = [x \in Server \X Xid |-> 0] OBVIOUS
    <2>3. Ports BY BoundAssumption DEF Ports
    <2> QED BY <1>2, <1>3, <2>1, <2>2, <2>3, BoundAssumption DEF Types
  <1>5. Current BY <1>2 DEF Current
  <1>6. Collected BY DEF Collected
  <1>7. ResultsAreMine BY DEF ResultsAreMine
  <1>8. SendsCover
    <2>1. \A s \in Server, x \in Xid : Runs(s, x) = 0 BY DEF Runs
    <2>2. \A s \in Server, x \in Xid : Sent(s, x) \in Nat BY <1>4, SentFacts
    <2>3. \A s \in Server, x \in Xid : Runs(s, x) <= Sent(s, x) BY <2>1, <2>2
    <2> QED BY <1>2, <2>3 DEF SendsCover
  <1> QED BY <1>4, <1>5, <1>6, <1>7, <1>8 DEF IInv

------------------------------------------------------------------------------
(* A call ends: what it returns must be its own.                             *)
LEMMA EndsInv ==
  ASSUME IInv, NEW how \in Endings, NEW got \in SUBSET Answer, call # NULL, Ends(how, got),
         how = "result" => \A r \in got :
           /\ r.arg = call.arg /\ r.xid = lastxid
           /\ r.from \in peers /\ Runs(r.from, r.xid) > 0,
         DOMAIN answers' \subseteq DOMAIN answers,
         UNCHANGED <<transport, timed, peers, connected, exports, requests, executed, copied, restarts, dups>>
  PROVE  IInv'
  <1>1. /\ outcome' = [how |-> how, call |-> call, replies |-> got]
        /\ call' = NULL /\ replies' = {} /\ count' = Retries /\ lastxid' = lastxid
    BY DEF Ends
  <1>2. call \in Call /\ call.xid = lastxid BY DEF IInv, Types, Current
  <1>3. outcome' \in Outcome BY <1>1, <1>2 DEF Outcome
  <1>4. Types'
    <2>1. lastxid' \in 0 .. MaxCalls /\ call' \in Call \cup {NULL} /\ count' \in 0 .. Retries
      <3>1. lastxid' \in 0 .. MaxCalls BY <1>1 DEF IInv, Types
      <3> QED BY <1>1, <3>1, BoundAssumption
    <2>2. DOMAIN answers' \subseteq Answer BY DEF IInv, Types
    <2> QED BY <1>3, <2>1, <2>2 DEF IInv, Types, IsBag, Ports
  <1>5. Current' BY <1>1 DEF IInv, Current, Runs
  <1>6. Collected' BY <1>1 DEF Collected
  <1>7. ResultsAreMine' BY <1>1, <1>2 DEF ResultsAreMine, Runs
  <1>8. ASSUME NEW s \in Server, NEW x \in Xid
        PROVE  Sent(s, x)' >= Sent(s, x) /\ Sent(s, x) \in Nat /\ Sent(s, x)' \in Nat
    <2>2. copied[<<s, x>>]' = copied[<<s, x>>] OBVIOUS
    <2>3. /\ SentBy(x) \in Nat /\ copied[<<s, x>>] \in Nat /\ Sent(s, x) \in Nat
          /\ Retries \in Nat /\ count \in Nat /\ lastxid \in Nat
      BY SentFacts DEF IInv
    <2>4. x \in Nat BY BoundAssumption DEF Xid
    <2>5. SentBy(x)' >= SentBy(x) BY <1>1, <2>3, <2>4 DEF SentBy
    <2>6. SentBy(x)' \in Nat BY <1>1, <2>3, <2>4 DEF SentBy
    <2> QED BY <2>2, <2>3, <2>5, <2>6 DEF Sent
  <1>9. SendsCover'
    <2>1. \A s \in Server, x \in Xid : Sent(s, x) \in Nat /\ Sent(s, x)' \in Nat BY <1>8
    <2>2. \A s \in Server, x \in Xid : Runs(s, x) \in Nat /\ Runs(s, x)' = Runs(s, x)
      BY DEF IInv, Types, Runs
    <2>3. \A s \in Server, x \in Xid : Runs(s, x)' <= Sent(s, x)'
      BY <1>8, <2>1, <2>2 DEF IInv, SendsCover
    <2>4. ASSUME NEW m \in DOMAIN requests
          PROVE  Runs(m.to, m.call.xid)' + requests'[m] <= Sent(m.to, m.call.xid)'
      <3>1. m.to \in Server /\ m.call.xid \in Xid BY DEF IInv, Types, Request, Call
      <3>2. requests[m] \in Nat BY DEF IInv, Types, IsBag
      <3> QED BY <1>8, <2>1, <2>2, <3>1, <3>2 DEF IInv, SendsCover
    <2> QED BY <2>3, <2>4 DEF SendsCover
  <1> QED BY <1>4, <1>5, <1>6, <1>7, <1>9 DEF IInv

(* No request is there more often than before.                               *)
Fewer == \A m \in DOMAIN requests' : m \in DOMAIN requests /\ requests'[m] <= requests[m]

(* Messages disappear, and the client does not notice.                       *)
LEMMA QuietInv ==
  ASSUME IInv, IsBag(requests'), Fewer,
         DOMAIN answers' \subseteq DOMAIN answers,
         Ports',
         UNCHANGED <<transport, timed, peers, client, executed, copied>>
  PROVE  IInv'
  <1>1. UNCHANGED <<lastxid, call, count, replies, outcome>> BY DEF client
  <1>2. DOMAIN requests' \subseteq DOMAIN requests BY DEF Fewer
  <1>3. Types' BY <1>1, <1>2 DEF IInv, Types
  <1>4. Current' BY <1>1, <1>2 DEF IInv, Current, Runs
  <1>5. Collected' BY <1>1 DEF IInv, Collected, Runs
  <1>6. ResultsAreMine' BY <1>1 DEF IInv, ResultsAreMine
  <1>7. \A s \in Server, x \in Xid : Sent(s, x)' = Sent(s, x) BY <1>1 DEF Sent, SentBy
  <1>8. SendsCover'
    <2>1. ASSUME NEW m \in DOMAIN requests'
          PROVE  Runs(m.to, m.call.xid)' + requests'[m] <= Sent(m.to, m.call.xid)'
      <3>1. m \in DOMAIN requests /\ m.to \in Server /\ m.call.xid \in Xid
        BY DEF IInv, Types, Request, Call, Fewer
      <3>2. requests[m] \in Nat /\ requests'[m] \in Nat /\ requests'[m] <= requests[m]
        BY <3>1 DEF IInv, Types, IsBag, Fewer
      <3>3. Runs(m.to, m.call.xid) \in Nat /\ Sent(m.to, m.call.xid) \in Nat
        BY <3>1, SentFacts DEF IInv, Types, Runs
      <3>4. Runs(m.to, m.call.xid) + requests[m] <= Sent(m.to, m.call.xid)
        BY <3>1 DEF IInv, SendsCover
      <3>5. Sent(m.to, m.call.xid)' = Sent(m.to, m.call.xid) BY <1>7, <3>1
      <3>6. Runs(m.to, m.call.xid)' = Runs(m.to, m.call.xid) BY DEF Runs
      <3> QED BY <3>2, <3>3, <3>4, <3>5, <3>6
    <2>2. \A s \in Server, x \in Xid : Runs(s, x)' <= Sent(s, x)'
      BY <1>7 DEF IInv, SendsCover, Runs
    <2> QED BY <2>1, <2>2 DEF SendsCover
  <1> QED BY <1>3, <1>4, <1>5, <1>6, <1>8 DEF IInv

(* A datagram is lost, the connection breaks, or another program gets a      *)
(* port.                                                                     *)
LEMMA NetworkInv ==
  ASSUME IInv, Lose \/ Break \/ \E s \in Server : Restart(s)
  PROVE  IInv'
  <1>1. IsBag(requests) BY DEF IInv, Types
  <1>2. ASSUME NEW m \in DOMAIN requests, requests' = BagRemove(requests, m)
        PROVE  IsBag(requests') /\ Fewer
    <2>1. \A e \in DOMAIN requests : requests[e] \in Nat BY <1>1 DEF IsBag
    <2> QED BY <1>1, <1>2, <2>1, RemoveFacts DEF Fewer
  <1>3. ASSUME requests' = requests PROVE IsBag(requests') /\ Fewer
    <2>1. \A e \in DOMAIN requests : requests[e] \in Nat BY <1>1 DEF IsBag
    <2> QED BY <1>1, <1>3, <2>1 DEF Fewer
  <1>4. CASE Lose
    <2>1. IsBag(requests') /\ Fewer BY <1>2, <1>3, <1>4 DEF Lose, BagToSet
    <2>2. DOMAIN answers' \subseteq DOMAIN answers BY <1>4, RemoveDomain DEF Lose
    <2>3. Ports' /\ UNCHANGED <<transport, timed, peers, client, executed, copied>>
      BY <1>4 DEF Lose, IInv, Types, Ports, setup, history
    <2> QED BY <2>1, <2>2, <2>3, QuietInv
  <1>5. ASSUME NEW s \in Server, Restart(s) PROVE IInv'
    <2>1. IsBag(requests') /\ Fewer BY <1>3, <1>5 DEF Restart
    <2>2. DOMAIN answers' \subseteq DOMAIN answers BY <1>5 DEF Restart
    <2>3. Ports'
      <3>1. exports' \in [Server -> {"program", "other version", "other program"}]
        BY <1>5 DEF Restart, IInv, Types, Ports
      <3>2. restarts \in 0 .. MaxRestarts BY DEF IInv, Types, Ports
      <3>3. restarts' = restarts + 1 /\ restarts < MaxRestarts BY <1>5 DEF Restart
      <3>4. restarts' \in 0 .. MaxRestarts BY <3>2, <3>3, BoundAssumption
      <3>5. dups' \in 0 .. MaxDups /\ connected' \in BOOLEAN
        BY <1>5 DEF Restart, IInv, Types, Ports
      <3> QED BY <3>1, <3>4, <3>5 DEF Ports
    <2>4. UNCHANGED <<transport, timed, peers, client, executed, copied>> BY <1>5 DEF Restart, setup
    <2> QED BY <2>1, <2>2, <2>3, <2>4, QuietInv
  <1>6. CASE Break
    <2>1. requests' = [e \in {} |-> 1] /\ (answers' = answers \/ answers' = [e \in {} |-> 1])
      BY <1>6 DEF Break, EmptyBag, SetToBag
    <2>2. IsBag(requests') /\ Fewer BY <2>1 DEF IsBag, Fewer
    <2>3. DOMAIN answers' \subseteq DOMAIN answers BY <2>1
    <2>4. Ports' /\ UNCHANGED <<transport, timed, peers, client, executed, copied>>
      BY <1>6 DEF Break, IInv, Types, Ports, setup, history
    <2> QED BY <2>2, <2>3, <2>4, QuietInv
  <1> QED BY <1>4, <1>5, <1>6

(* BagAdd() of a member is one copy more of it.                              *)
LEMMA AddFacts ==
  ASSUME NEW B, IsBag(B), NEW x \in DOMAIN B
  PROVE  /\ IsBag(BagAdd(B, x)) /\ DOMAIN BagAdd(B, x) = DOMAIN B
         /\ \A e \in DOMAIN B : BagAdd(B, x)[e] = IF e = x THEN B[x] + 1 ELSE B[e]
  <1>1. BagAdd(B, x) = [e \in DOMAIN B |-> IF e = x THEN B[e] + 1 ELSE B[e]] BY DEF BagAdd
  <1> QED BY <1>1 DEF IsBag

(* The network makes a copy of a datagram, and the history tells.            *)
LEMMA DuplicateInv == ASSUME IInv, Duplicate PROVE IInv'
  <1>1. /\ dups < MaxDups /\ dups' = dups + 1
        /\ UNCHANGED <<transport, timed, peers, connected, exports, executed, restarts>>
        /\ UNCHANGED <<lastxid, call, count, replies, outcome>>
    BY DEF Duplicate, setup, client
  <1>2. Ports'
    <2>1. dups \in 0 .. MaxDups BY DEF IInv, Types, Ports
    <2>2. dups' \in 0 .. MaxDups BY <1>1, <2>1, BoundAssumption
    <2> QED BY <1>1, <2>2 DEF IInv, Types, Ports
  <1>3. CASE \E m \in DOMAIN answers : answers' = BagAdd(answers, m) /\ UNCHANGED <<requests, copied>>
    <2>1. DOMAIN answers' \subseteq DOMAIN answers BY <1>3, AddDomain
    <2>2. \A e \in DOMAIN requests : requests[e] \in Nat BY DEF IInv, Types, IsBag
    <2>3. IsBag(requests') /\ Fewer BY <1>3, <2>2 DEF IInv, Types, Fewer
    <2> QED BY <1>1, <1>2, <1>3, <2>1, <2>3, QuietInv DEF client
  <1>4. ASSUME NEW m \in DOMAIN requests, requests' = BagAdd(requests, m),
               copied' = [copied EXCEPT ![<<m.to, m.call.xid>>] = @ + 1], answers' = answers
        PROVE  IInv'
    <2>1. m.to \in Server /\ m.call.xid \in Xid BY DEF IInv, Types, Request, Call
    <2>2. /\ IsBag(requests') /\ DOMAIN requests' = DOMAIN requests
          /\ \A e \in DOMAIN requests :
               requests'[e] = IF e = m THEN requests[m] + 1 ELSE requests[e]
      BY <1>4, AddFacts DEF IInv, Types
    <2>3. Types'
      <3>1. copied' \in [Server \X Xid -> Nat] BY <1>4, <2>1 DEF IInv, Types
      <3> QED BY <1>1, <1>2, <1>4, <2>2, <3>1 DEF IInv, Types
    <2>4. Current' BY <1>1, <1>4, <2>2 DEF IInv, Current, Runs
    <2>5. Collected' BY <1>1 DEF IInv, Collected, Runs
    <2>6. ResultsAreMine' BY <1>1 DEF IInv, ResultsAreMine
    <2>7. ASSUME NEW s \in Server, NEW y \in Xid
          PROVE  /\ Runs(s, y) \in Nat /\ Runs(s, y)' = Runs(s, y)
                 /\ Sent(s, y) \in Nat
                 /\ Sent(s, y)' = IF s = m.to /\ y = m.call.xid THEN Sent(s, y) + 1 ELSE Sent(s, y)
      <3>1. Runs(s, y) \in Nat /\ Runs(s, y)' = Runs(s, y) BY <1>1 DEF IInv, Types, Runs
      <3>2. SentBy(y)' = SentBy(y) BY <1>1 DEF SentBy
      <3>3. copied'[<<s, y>>] = IF s = m.to /\ y = m.call.xid THEN copied[<<s, y>>] + 1
                                ELSE copied[<<s, y>>]
        BY <1>4, <2>1 DEF IInv, Types
      <3>4. SentBy(y) \in Nat /\ copied[<<s, y>>] \in Nat BY SentFacts DEF IInv
      <3> QED BY <3>1, <3>2, <3>3, <3>4 DEF Sent
    <2>8. SendsCover'
      <3>1. \A s \in Server, y \in Xid : Runs(s, y)' <= Sent(s, y)'
        BY <2>7 DEF IInv, SendsCover
      <3>2. ASSUME NEW n \in DOMAIN requests
            PROVE  Runs(n.to, n.call.xid)' + requests'[n] <= Sent(n.to, n.call.xid)'
        <4>1. n.to \in Server /\ n.call.xid \in Xid BY DEF IInv, Types, Request, Call
        <4>2. requests[n] \in Nat BY DEF IInv, Types, IsBag
        <4>3. Runs(n.to, n.call.xid) + requests[n] <= Sent(n.to, n.call.xid)
          BY DEF IInv, SendsCover
        <4>4. requests'[n] = IF n = m THEN requests[n] + 1 ELSE requests[n] BY <2>2
        <4> QED BY <2>7, <4>1, <4>2, <4>3, <4>4
      <3> QED BY <2>2, <3>1, <3>2 DEF SendsCover
    <2> QED BY <2>3, <2>4, <2>5, <2>6, <2>8 DEF IInv
  <1> QED BY <1>3, <1>4 DEF Duplicate, BagToSet

(* A server handles a request: a copy less, at most one execution more.      *)
LEMMA HandleInv == ASSUME IInv, NEW m \in DOMAIN requests, Handle(m) PROVE IInv'
  <1> DEFINE x == m.call.xid
             stat == Stat(m.to, m.call)
             a == [from |-> m.to, xid |-> x, stat |-> stat, arg |-> m.call.arg]
  <1>1. /\ requests' = BagRemove(requests, m) /\ answers' = BagAdd(answers, a)
        /\ executed' = IF stat = "SUCCESS" THEN [executed EXCEPT ![<<m.to, x>>] = @ + 1]
                       ELSE executed
        /\ UNCHANGED <<transport, timed, peers, connected, exports, copied, restarts, dups>>
        /\ UNCHANGED <<lastxid, call, count, replies, outcome>>
    BY DEF Handle, client, setup
  <1>2. m.to \in Server /\ x \in Xid /\ m.call.arg \in Args
    BY DEF IInv, Types, Request, Call
  <1>3. stat \in Errors \cup {"SUCCESS"} BY DEF Stat, Errors
  <1>4. a \in Answer BY <1>2, <1>3 DEF Answer
  <1>5. \A s \in Server, y \in Xid : Runs(s, y) \in Nat BY DEF IInv, Types, Runs
  <1>6. /\ executed' \in [Server \X Xid -> Nat]
        /\ \A s \in Server, y \in Xid :
             Runs(s, y)' = IF stat = "SUCCESS" /\ s = m.to /\ y = x THEN Runs(s, y) + 1
                           ELSE Runs(s, y)
    <2> HIDE DEF x, stat
    <2>1. executed \in [Server \X Xid -> Nat] BY DEF IInv, Types
    <2>2. executed' \in [Server \X Xid -> Nat] BY <1>1, <1>2, <2>1
    <2>3. CASE stat = "SUCCESS" BY <1>1, <1>2, <2>1, <2>3 DEF Runs
    <2>4. CASE stat # "SUCCESS" BY <1>1, <2>2, <2>4 DEF Runs
    <2> QED BY <2>2, <2>3, <2>4
  <1>7. \A s \in Server, y \in Xid : Runs(s, y)' >= Runs(s, y) BY <1>5, <1>6
  <1>8. IsBag(requests) BY DEF IInv, Types
  <1>9. /\ IsBag(requests')
        /\ \A e \in DOMAIN requests' :
             e \in DOMAIN requests /\ requests'[e] = IF e = m THEN requests[m] - 1 ELSE requests[e]
    BY <1>1, <1>8, RemoveFacts
  <1>10. DOMAIN answers' \subseteq DOMAIN answers \cup {a} BY <1>1, AddDomain
  <1> HIDE DEF a
  <1>11. Types'
    <2>1. DOMAIN answers' \subseteq Answer BY <1>4, <1>10 DEF IInv, Types
    <2>2. DOMAIN requests' \subseteq Request BY <1>9 DEF IInv, Types
    <2> QED BY <1>1, <1>6, <1>9, <2>1, <2>2 DEF IInv, Types, Ports
  <1>12. Current'
    <2>1. call' # NULL => call'.xid = lastxid' BY <1>1 DEF IInv, Current
    <2>2. ASSUME NEW n \in DOMAIN requests'
          PROVE  /\ n.to \in peers' /\ n.call.xid <= lastxid'
                 /\ call' # NULL /\ n.call.xid = lastxid' => n.call = call'
      BY <1>1, <1>9 DEF IInv, Current
    <2>3. \A k, n \in DOMAIN requests' : k.to = n.to /\ k.call.xid = n.call.xid => k = n
      BY <1>9 DEF IInv, Current
    <2>4. ASSUME NEW b \in DOMAIN answers'
          PROVE  /\ b.from \in peers' /\ b.xid <= lastxid'
                 /\ call' # NULL /\ b.xid = lastxid' => b.arg = call'.arg
                 /\ b.stat = "SUCCESS" => Runs(b.from, b.xid)' > 0
      <3>1. CASE b \in DOMAIN answers
        <4>1. b.from \in Server /\ b.xid \in Xid BY <3>1 DEF IInv, Types, Answer
        <4>2. /\ b.from \in peers /\ b.xid <= lastxid
              /\ call # NULL /\ b.xid = lastxid => b.arg = call.arg
              /\ b.stat = "SUCCESS" => Runs(b.from, b.xid) > 0
          BY <3>1 DEF IInv, Current
        <4>3. Runs(b.from, b.xid)' >= Runs(b.from, b.xid) /\ Runs(b.from, b.xid) \in Nat
              /\ Runs(b.from, b.xid)' \in Nat
          BY <1>5, <1>6, <1>7, <4>1
        <4>4. Runs(b.from, b.xid) > 0 => Runs(b.from, b.xid)' > 0 BY <4>3
        <4> QED BY <1>1, <4>2, <4>4
      <3>2. CASE b = a
        <4>1. b.from = m.to /\ b.xid = x /\ b.stat = stat /\ b.arg = m.call.arg BY <3>2 DEF a
        <4>2. /\ m.to \in peers /\ x <= lastxid
              /\ call # NULL /\ x = lastxid => m.call = call
          BY DEF IInv, Current
        <4>3. stat = "SUCCESS" => Runs(m.to, x)' > 0
          <5> HIDE DEF x, stat
          <5> QED BY <1>2, <1>5, <1>6
        <4> QED BY <1>1, <4>1, <4>2, <4>3
      <3> QED BY <1>10, <3>1, <3>2
    <2> QED BY <2>1, <2>2, <2>3, <2>4 DEF Current
  <1>13. Collected'
    <2>1. ASSUME NEW r \in replies
          PROVE  /\ r.arg = call.arg /\ r.xid = lastxid /\ r.from \in peers
                 /\ Runs(r.from, r.xid)' > 0
      <3>1. r.from \in Server /\ r.xid \in Xid BY DEF IInv, Collected, Answer
      <3>2. Runs(r.from, r.xid) > 0 BY DEF IInv, Collected
      <3>3. Runs(r.from, r.xid)' >= Runs(r.from, r.xid) /\ Runs(r.from, r.xid) \in Nat
            /\ Runs(r.from, r.xid)' \in Nat
        BY <1>5, <1>6, <1>7, <3>1
      <3>4. Runs(r.from, r.xid)' > 0 BY <3>2, <3>3
      <3> QED BY <3>4 DEF IInv, Collected
    <2> QED BY <1>1, <2>1 DEF IInv, Collected
  <1>14. ResultsAreMine'
    <2> SUFFICES ASSUME outcome # NULL, outcome.how = "result", NEW r \in outcome.replies
                 PROVE  /\ r.arg = outcome.call.arg /\ r.xid = outcome.call.xid
                        /\ r.from \in peers /\ Runs(r.from, r.xid)' > 0
      BY <1>1 DEF ResultsAreMine, Runs
    <2>1. /\ r.arg = outcome.call.arg /\ r.xid = outcome.call.xid
          /\ r.from \in peers /\ Runs(r.from, r.xid) > 0
      BY DEF IInv, ResultsAreMine, Runs
    <2>2. r.from \in Server /\ r.xid \in Xid
      BY DEF IInv, Types, Outcome, Answer, Call
    <2>3. /\ Runs(r.from, r.xid)' >= Runs(r.from, r.xid)
          /\ Runs(r.from, r.xid) \in Nat
          /\ Runs(r.from, r.xid)' \in Nat
      BY <1>5, <1>6, <1>7, <2>2
    <2>4. Runs(r.from, r.xid)' > 0 BY <2>1, <2>3
    <2> QED BY <2>1, <2>4
  <1>15. \A s \in Server, y \in Xid : Sent(s, y)' = Sent(s, y) /\ Sent(s, y) \in Nat
    BY <1>1, SentFacts DEF Sent, SentBy, IInv
  <1>16. requests[m] \in Nat \ {0} /\ Runs(m.to, x) + requests[m] <= Sent(m.to, x)
    BY <1>8 DEF IInv, SendsCover, IsBag
  <1>17. SendsCover'
    <2>1. ASSUME NEW s \in Server, NEW y \in Xid PROVE Runs(s, y)' <= Sent(s, y)'
      <3>1. Runs(s, y) <= Sent(s, y) /\ Runs(s, y) \in Nat /\ Sent(s, y) \in Nat /\ Sent(s, y)' = Sent(s, y)
        BY <1>5, <1>15 DEF IInv, SendsCover
      <3>2. CASE s = m.to /\ y = x BY <1>6, <1>16, <3>1, <3>2
      <3>3. CASE ~(s = m.to /\ y = x)
        <4>1. Runs(s, y)' = Runs(s, y) BY <1>6, <3>3
        <4> QED BY <3>1, <4>1
      <3> QED BY <3>2, <3>3
    <2>2. ASSUME NEW n \in DOMAIN requests'
          PROVE  Runs(n.to, n.call.xid)' + requests'[n] <= Sent(n.to, n.call.xid)'
      <3>1. n \in DOMAIN requests /\ n.to \in Server /\ n.call.xid \in Xid
        BY <1>9 DEF IInv, Types, Request, Call
      <3>2. /\ Runs(n.to, n.call.xid) + requests[n] <= Sent(n.to, n.call.xid)
            /\ Runs(n.to, n.call.xid) \in Nat /\ requests[n] \in Nat /\ Sent(n.to, n.call.xid) \in Nat
            /\ Sent(n.to, n.call.xid)' = Sent(n.to, n.call.xid)
        BY <1>5, <1>8, <1>15, <3>1 DEF IInv, SendsCover, IsBag
      <3>3. CASE n = m
        <4>1. requests'[n] = requests[n] - 1 BY <1>9, <3>3
        <4>2. Runs(n.to, n.call.xid)' \in {Runs(n.to, n.call.xid), Runs(n.to, n.call.xid) + 1}
          BY <1>6, <3>1
        <4> QED BY <3>2, <4>1, <4>2
      <3>4. CASE n # m
        <4>1. requests'[n] = requests[n] BY <1>9, <3>4
        <4>2. ~(n.to = m.to /\ n.call.xid = x) BY <3>1, <3>4 DEF IInv, Current
        <4>3. Runs(n.to, n.call.xid)' = Runs(n.to, n.call.xid) BY <1>6, <3>1, <4>2
        <4> QED BY <3>2, <4>1, <4>3
      <3> QED BY <3>3, <3>4
    <2> QED BY <2>1, <2>2 DEF SendsCover
  <1> QED BY <1>11, <1>12, <1>13, <1>14, <1>17 DEF IInv

------------------------------------------------------------------------------
(* A step sends the call with xid x once, and no other.                      *)
OneMore(x) == \A s \in Server, y \in Xid :
  Sent(s, y)' \in Nat /\ Sent(s, y)' >= IF y = x THEN Sent(s, y) + 1 ELSE Sent(s, y)

(* What is on its way is of earlier calls, or of the call c.                 *)
OnTheWay(c) ==
  /\ \A m \in DOMAIN requests : m.call.xid <= c.xid /\ (m.call.xid = c.xid => m.call = c)
  /\ \A a \in DOMAIN answers : a.xid <= c.xid /\ (a.xid = c.xid => a.arg = c.arg)

(* A call is sent, for the first time or again.                              *)
LEMMA SendInv ==
  ASSUME IInv, NEW c \in Call, OnTheWay(c), OneMore(c.xid),
         call' = c, lastxid' = c.xid, requests' = requests (+) Copies(c),
         UNCHANGED <<transport, timed, peers, connected, exports, answers, executed, copied, restarts, dups>>
  PROVE  /\ DOMAIN requests' \subseteq Request /\ IsBag(requests')
         /\ Current' /\ SendsCover'
  <1> DEFINE S == {[to |-> s, call |-> c] : s \in peers}
  <1>1. IsBag(requests) /\ DOMAIN requests \subseteq Request /\ peers \subseteq Server
    BY DEF IInv, Types
  <1>2. /\ IsBag(requests') /\ DOMAIN requests' = DOMAIN requests \cup S
        /\ \A e \in DOMAIN requests' :
             requests'[e] = (IF e \in DOMAIN requests THEN requests[e] ELSE 0)
                            + (IF e \in S THEN 1 ELSE 0)
    <2>1. S = {[to |-> s, call |-> c] : s \in peers} OBVIOUS
    <2> HIDE DEF S
    <2> QED BY <1>1, <2>1, SendFacts
  <1>3. DOMAIN requests' \subseteq Request BY <1>1, <1>2 DEF Request
  <1>4. \A m \in S : m.to \in peers /\ m.call = c OBVIOUS
  <1>5. \A m, n \in S : m.to = n.to => m = n OBVIOUS
  <1>6. \A m \in DOMAIN requests : m.to \in peers /\ m = [to |-> m.to, call |-> m.call]
    <2>1. ASSUME NEW m \in Request PROVE m = [to |-> m.to, call |-> m.call] BY DEF Request
    <2> QED BY <1>1, <2>1 DEF IInv, Current
  <1>7. \A m \in DOMAIN requests : m.call.xid = c.xid => m \in S BY <1>6 DEF OnTheWay
  <1>8. c.xid \in Nat BY BoundAssumption DEF Call, Xid
  <1> HIDE DEF S
  <1>9. Current'
    <2>1. ASSUME NEW m \in DOMAIN requests'
          PROVE  /\ m.to \in peers' /\ m.call.xid <= lastxid'
                 /\ call' # NULL /\ m.call.xid = lastxid' => m.call = call'
      <3>1. CASE m \in S BY <1>4, <1>8, <3>1
      <3>2. CASE m \in DOMAIN requests BY <1>6, <3>2 DEF OnTheWay
      <3> QED BY <1>2, <3>1, <3>2
    <2>2. ASSUME NEW m \in DOMAIN requests', NEW n \in DOMAIN requests',
                 m.to = n.to, m.call.xid = n.call.xid
          PROVE  m = n
      <3>1. CASE m.call.xid = c.xid
        <4>1. m \in S /\ n \in S BY <1>2, <1>7, <2>2, <3>1
        <4> QED BY <1>5, <2>2, <4>1
      <3>2. CASE m.call.xid # c.xid
        <4>1. m \in DOMAIN requests /\ n \in DOMAIN requests BY <1>2, <1>4, <2>2, <3>2
        <4> QED BY <2>2, <4>1 DEF IInv, Current
      <3> QED BY <3>1, <3>2
    <2>3. ASSUME NEW a \in DOMAIN answers
          PROVE  /\ a.from \in peers' /\ a.xid <= lastxid'
                 /\ call' # NULL /\ a.xid = lastxid' => a.arg = call'.arg
                 /\ a.stat = "SUCCESS" => Runs(a.from, a.xid)' > 0
      BY DEF OnTheWay, IInv, Current, Runs
    <2> QED BY <2>1, <2>2, <2>3 DEF Current
  <1>10. \A s \in Server, y \in Xid : Runs(s, y) \in Nat /\ Runs(s, y)' = Runs(s, y)
    BY DEF IInv, Types, Runs
  <1>11. \A s \in Server, y \in Xid : Sent(s, y) \in Nat /\ Sent(s, y)' \in Nat
    BY SentFacts DEF IInv, OneMore
  <1>12. ASSUME NEW s \in Server, NEW y \in Xid PROVE Runs(s, y)' <= Sent(s, y)'
    <2>1. Sent(s, y)' >= Sent(s, y) BY <1>11 DEF OneMore
    <2>2. Runs(s, y) <= Sent(s, y) BY DEF IInv, SendsCover
    <2> QED BY <1>10, <1>11, <2>1, <2>2
  <1>13. ASSUME NEW m \in DOMAIN requests'
         PROVE  Runs(m.to, m.call.xid)' + requests'[m] <= Sent(m.to, m.call.xid)'
    <2> DEFINE r == Runs(m.to, m.call.xid)
               t == Sent(m.to, m.call.xid)
    <2>1. m.to \in Server /\ m.call.xid \in Xid BY <1>3 DEF Request, Call
    <2>2. /\ r \in Nat /\ Runs(m.to, m.call.xid)' = r /\ t \in Nat
          /\ Sent(m.to, m.call.xid)' \in Nat
      BY <1>10, <1>11, <2>1
    <2>3. r + (IF m \in DOMAIN requests THEN requests[m] ELSE 0) <= t
      <3>1. CASE m \in DOMAIN requests BY <3>1 DEF IInv, SendsCover
      <3>2. CASE m \notin DOMAIN requests
        <4>1. r <= t BY <2>1 DEF IInv, SendsCover
        <4> QED BY <2>2, <3>2, <4>1
      <3> QED BY <3>1, <3>2
    <2>4. Sent(m.to, m.call.xid)' >= t + (IF m \in S THEN 1 ELSE 0)
      <3>1. CASE m \in S
        <4>1. m.call.xid = c.xid BY <1>4, <3>1
        <4> QED BY <2>1, <3>1, <4>1 DEF OneMore
      <3>2. CASE m \notin S BY <2>1, <2>2, <3>2 DEF OneMore
      <3> QED BY <3>1, <3>2
    <2>5. (IF m \in DOMAIN requests THEN requests[m] ELSE 0) \in Nat BY <1>1 DEF IsBag
    <2> HIDE DEF r, t
    <2> QED BY <1>2, <2>2, <2>3, <2>4, <2>5
  <1>14. SendsCover' BY <1>12, <1>13 DEF SendsCover
  <1> QED BY <1>2, <1>3, <1>9, <1>14

(* A call is sent on a broken connection.                                    *)
LEMMA UnsentInv ==
  ASSUME IInv, NEW c \in Call, OnTheWay(c), OneMore(c.xid),
         call' = c, lastxid' = c.xid,
         UNCHANGED <<transport, timed, peers, connected, exports, requests, answers,
                     executed, copied, restarts, dups>>
  PROVE  /\ DOMAIN requests' \subseteq Request /\ IsBag(requests')
         /\ Current' /\ SendsCover'
  <1>1. DOMAIN requests' \subseteq Request /\ IsBag(requests') BY DEF IInv, Types
  <1>2. Current' BY DEF IInv, Current, OnTheWay, Runs
  <1>3. ASSUME NEW s \in Server, NEW y \in Xid
        PROVE  /\ Runs(s, y) \in Nat /\ Runs(s, y)' = Runs(s, y)
               /\ Sent(s, y) \in Nat /\ Sent(s, y)' \in Nat /\ Sent(s, y)' >= Sent(s, y)
    <2>1. Runs(s, y) \in Nat /\ Runs(s, y)' = Runs(s, y) BY DEF IInv, Types, Runs
    <2>2. Sent(s, y) \in Nat BY SentFacts DEF IInv
    <2> QED BY <2>1, <2>2 DEF OneMore
  <1>4. \A s \in Server, y \in Xid : Runs(s, y)' <= Sent(s, y)' BY <1>3 DEF IInv, SendsCover
  <1>5. ASSUME NEW m \in DOMAIN requests
        PROVE  Runs(m.to, m.call.xid)' + requests'[m] <= Sent(m.to, m.call.xid)'
    <2>1. m.to \in Server /\ m.call.xid \in Xid BY DEF IInv, Types, Request, Call
    <2>2. requests[m] \in Nat BY DEF IInv, Types, IsBag
    <2>3. Runs(m.to, m.call.xid) + requests[m] <= Sent(m.to, m.call.xid) BY DEF IInv, SendsCover
    <2> QED BY <1>3, <2>1, <2>2, <2>3
  <1>6. SendsCover' BY <1>4, <1>5 DEF SendsCover
  <1> QED BY <1>1, <1>2, <1>6

(* make_call(): the xid is new.                                              *)
LEMMA MakeCallInv ==
  ASSUME IInv, NEW x \in Args, MakeCall(x)
  PROVE  IInv'
  <1> DEFINE c == [xid |-> lastxid + 1, arg |-> x]
  <1>1. /\ call = NULL /\ lastxid < MaxCalls /\ lastxid' = lastxid + 1 /\ call' = c
        /\ requests' = IF connected THEN requests (+) Copies(c) ELSE requests
        /\ count' = Retries /\ replies' = {} /\ outcome' = NULL
        /\ UNCHANGED <<transport, timed, peers, connected, exports, answers, executed, copied, restarts, dups>>
    BY DEF MakeCall, setup, history
  <1>2. lastxid \in 0 .. MaxCalls BY DEF IInv, Types
  <1>3. lastxid' \in 0 .. MaxCalls /\ lastxid + 1 \in Xid /\ lastxid \in Nat
    BY <1>1, <1>2, BoundAssumption DEF Xid
  <1>4. c \in Call /\ c # NULL /\ c.xid = lastxid + 1 /\ c.arg = x
    BY <1>3, NullAssumption DEF Call
  <1> HIDE DEF c
  <1>5. OnTheWay(c)
    <2>1. ASSUME NEW m \in DOMAIN requests PROVE m.call.xid <= c.xid /\ m.call.xid # c.xid
      <3>1. m.call.xid \in Nat BY BoundAssumption DEF IInv, Types, Request, Call, Xid
      <3>2. m.call.xid <= lastxid BY DEF IInv, Current
      <3> QED BY <1>3, <1>4, <3>1, <3>2
    <2>2. ASSUME NEW a \in DOMAIN answers PROVE a.xid <= c.xid /\ a.xid # c.xid
      <3>1. a.xid \in Nat BY BoundAssumption DEF IInv, Types, Answer, Xid
      <3>2. a.xid <= lastxid BY DEF IInv, Current
      <3> QED BY <1>3, <1>4, <3>1, <3>2
    <2> QED BY <2>1, <2>2 DEF OnTheWay
  <1>6. OneMore(c.xid)
    <2> SUFFICES ASSUME NEW s \in Server, NEW y \in Xid
                 PROVE  Sent(s, y)' \in Nat /\ Sent(s, y)' >= IF y = c.xid THEN Sent(s, y) + 1 ELSE Sent(s, y)
      BY DEF OneMore
    <2>1. y \in Nat /\ Retries \in Nat BY BoundAssumption DEF Xid
    <2>2. SentBy(y) = IF y > lastxid THEN 0 ELSE IF transport # "udp" THEN 1 ELSE Retries + 1
      BY <1>1 DEF SentBy
    <2>3. SentBy(y)' = IF y > lastxid + 1 THEN 0 ELSE IF transport # "udp" THEN 1
                     ELSE IF y = lastxid + 1 THEN Retries + 1 - Retries ELSE Retries + 1
      BY <1>1, <1>4 DEF SentBy
    <2>4. copied[<<s, y>>]' = copied[<<s, y>>] /\ copied[<<s, y>>] \in Nat
      BY <1>1, SentFacts DEF IInv
    <2>5. SentBy(y)' >= (IF y = c.xid THEN SentBy(y) + 1 ELSE SentBy(y)) /\ SentBy(y)' \in Nat
      BY <1>3, <1>4, <2>1, <2>2, <2>3
    <2>6. SentBy(y) \in Nat BY SentFacts DEF IInv
    <2> QED BY <2>4, <2>5, <2>6 DEF Sent
  <1>7. DOMAIN requests' \subseteq Request /\ IsBag(requests') /\ Current' /\ SendsCover'
    <2>1. CASE connected BY <1>1, <1>4, <1>5, <1>6, <2>1, SendInv
    <2>2. CASE ~connected BY <1>1, <1>4, <1>5, <1>6, <2>2, UnsentInv
    <2> QED BY <2>1, <2>2
  <1>8. Types'
    <2>1. count' \in 0 .. Retries BY <1>1, BoundAssumption
    <2> QED BY <1>1, <1>3, <1>4, <1>7, <2>1 DEF IInv, Types, Ports
  <1>9. Collected' BY <1>1 DEF Collected
  <1>10. ResultsAreMine' BY <1>1 DEF ResultsAreMine
  <1> QED BY <1>7, <1>8, <1>9, <1>10 DEF IInv

(* do_call() over UDP: nothing came, the call is sent again or given up.     *)
LEMMA TimeoutUDPInv == ASSUME IInv, TimeoutUDP PROVE IInv'
  <1>1. /\ transport = "udp" /\ call # NULL
        /\ UNCHANGED <<transport, timed, peers, connected, exports, answers, executed, copied, restarts, dups>>
    BY DEF TimeoutUDP, setup, history
  <1>2. CASE count = 0
    <2>1. Ends("timeout", {}) /\ requests' = requests BY <1>2 DEF TimeoutUDP
    <2>2. "timeout" \in Endings /\ {} \in SUBSET Answer BY DEF Endings
    <2> QED BY <1>1, <2>1, <2>2, EndsInv
  <1>3. CASE count # 0
    <2>1. /\ count' = count - 1 /\ requests' = requests (+) Copies(call)
          /\ UNCHANGED <<lastxid, call, replies, outcome>>
      BY <1>3 DEF TimeoutUDP
    <2>2. call \in Call /\ call.xid = lastxid BY <1>1 DEF IInv, Types, Current
    <2>3. OnTheWay(call) BY <1>1, <2>2 DEF OnTheWay, IInv, Current
    <2>4. Retries \in Nat /\ count \in Nat /\ count <= Retries /\ lastxid \in Nat
      BY SentFacts DEF IInv
    <2>5. OneMore(call.xid)
      <3> SUFFICES ASSUME NEW s \in Server, NEW y \in Xid
                   PROVE  Sent(s, y)' \in Nat /\ Sent(s, y)' >= IF y = lastxid THEN Sent(s, y) + 1 ELSE Sent(s, y)
        BY <2>2 DEF OneMore
      <3>1. y \in Nat BY BoundAssumption DEF Xid
      <3>2. SentBy(y) = IF y > lastxid THEN 0 ELSE IF y = lastxid THEN Retries + 1 - count ELSE Retries + 1
        BY <1>1 DEF SentBy
      <3>3. SentBy(y)' = IF y > lastxid THEN 0 ELSE IF y = lastxid THEN Retries + 1 - (count - 1) ELSE Retries + 1
        BY <1>1, <2>1 DEF SentBy
      <3>4. copied[<<s, y>>]' = copied[<<s, y>>] /\ copied[<<s, y>>] \in Nat
        BY <1>1, SentFacts DEF IInv
      <3>5. SentBy(y)' >= (IF y = lastxid THEN SentBy(y) + 1 ELSE SentBy(y)) /\ SentBy(y)' \in Nat
        BY <2>4, <3>1, <3>2, <3>3
      <3>6. SentBy(y) \in Nat BY SentFacts DEF IInv
      <3> QED BY <3>4, <3>5, <3>6 DEF Sent
    <2>6. DOMAIN requests' \subseteq Request /\ IsBag(requests') /\ Current' /\ SendsCover'
      BY <1>1, <2>1, <2>2, <2>3, <2>5, SendInv
    <2>7. Types'
      <3>1. count' \in 0 .. Retries BY <1>3, <2>1, <2>4
      <3> QED BY <1>1, <2>1, <2>6, <3>1 DEF IInv, Types, Ports
    <2>8. Collected' BY <1>1, <2>1 DEF IInv, Collected, Runs
    <2>9. ResultsAreMine' BY <1>1, <2>1 DEF IInv, ResultsAreMine
    <2> QED BY <2>6, <2>7, <2>8, <2>9 DEF IInv
  <1> QED BY <1>2, <1>3

(* A call ends without a reply: interrupted, at the end of the connection,   *)
(* or a broadcast that returns what it has.                                  *)
LEMMA EndInv == ASSUME IInv, TimeoutBroadcast \/ RecvEOF \/ Interrupt PROVE IInv'
  <1>1. call # NULL /\ UNCHANGED <<transport, timed, peers, connected, exports, requests, answers, executed, copied, restarts, dups>>
    BY DEF TimeoutBroadcast, RecvEOF, Interrupt, setup, history
  <1>2. {"result", "eof", "interrupted"} \subseteq Endings BY DEF Endings
  <1>3. CASE TimeoutBroadcast
    <2>1. Ends("result", replies) BY <1>3 DEF TimeoutBroadcast
    <2>2. /\ replies \in SUBSET Answer
          /\ \A r \in replies : /\ r.arg = call.arg /\ r.xid = lastxid
                                /\ r.from \in peers /\ Runs(r.from, r.xid) > 0
      BY DEF IInv, Collected
    <2> QED BY <1>1, <1>2, <2>1, <2>2, EndsInv
  <1>4. CASE Interrupt
    <2>1. Ends("interrupted", {}) BY <1>4 DEF Interrupt
    <2> QED BY <1>1, <1>2, <2>1, EndsInv
  <1>5. CASE RecvEOF
    <2>1. Ends("eof", {}) BY <1>5 DEF RecvEOF
    <2> QED BY <1>1, <1>2, <2>1, EndsInv
  <1> QED BY <1>3, <1>4, <1>5

(* The client receives a reply.                                              *)
LEMMA RecvInv == ASSUME IInv, NEW m \in DOMAIN answers, Recv(m) PROVE IInv'
  <1>1. /\ call # NULL /\ answers' = BagRemove(answers, m)
        /\ UNCHANGED <<transport, timed, peers, connected, exports, requests, executed, copied, restarts, dups>>
    BY DEF Recv, setup, history
  <1>2. DOMAIN answers' \subseteq DOMAIN answers BY <1>1, RemoveDomain
  <1>3. m \in Answer /\ {m} \in SUBSET Answer BY DEF IInv, Types
  <1>4. /\ m.from \in peers
        /\ m.xid = lastxid => m.arg = call.arg
        /\ m.stat = "SUCCESS" => Runs(m.from, m.xid) > 0
    BY <1>1 DEF IInv, Current
  <1>5. m.stat \in Errors \cup {"SUCCESS"} BY <1>3 DEF Answer
  <1>6. ~Rejects(m) => m.stat = "SUCCESS" BY <1>5 DEF Rejects
  <1>7. ASSUME NEW how \in {"rejected", "result", "wrong xid"}, Ends(how, {m}),
               how = "result" => ~Rejects(m) /\ Mine(m)
        PROVE  IInv'
    <2>1. how \in Endings BY DEF Endings
    <2>2. how = "result" => \A r \in {m} : /\ r.arg = call.arg /\ r.xid = lastxid
                                           /\ r.from \in peers /\ Runs(r.from, r.xid) > 0
      BY <1>4, <1>6, <1>7 DEF Mine
    <2>3. Ends(how, {m}) BY <1>7
    <2> QED BY <1>1, <1>2, <1>3, <2>1, <2>2, <2>3, EndsInv
  <1>8. ASSUME UNCHANGED client PROVE IInv'
    <2>1. IsBag(requests') BY <1>1 DEF IInv, Types
    <2>2. \A e \in DOMAIN requests : requests[e] \in Nat BY DEF IInv, Types, IsBag
    <2>3. Fewer BY <1>1, <2>2 DEF Fewer
    <2>4. Ports' BY <1>1 DEF IInv, Types, Ports
    <2> QED BY <1>1, <1>2, <1>8, <2>1, <2>3, <2>4, QuietInv
  <1>9. CASE RecvUDP(m)
    <2>1. CASE Rejects(m)
      <3>1. Ends("rejected", {m}) BY <1>9, <2>1 DEF RecvUDP
      <3> QED BY <1>7, <3>1
    <2>2. CASE ~Rejects(m) /\ Mine(m)
      <3>1. Ends("result", {m}) BY <1>9, <2>2 DEF RecvUDP
      <3> QED BY <1>7, <2>2, <3>1
    <2>3. CASE ~Rejects(m) /\ ~Mine(m) BY <1>8, <1>9, <2>3 DEF RecvUDP
    <2> QED BY <2>1, <2>2, <2>3
  <1>10. CASE RecvBroadcast(m)
    <2>1. CASE Rejects(m)
      <3>1. Ends("rejected", {m}) BY <1>10, <2>1 DEF RecvBroadcast
      <3> QED BY <1>7, <3>1
    <2>2. CASE ~Rejects(m) /\ ~Mine(m)
      <3>1. UNCHANGED client BY <1>10, <2>2 DEF RecvBroadcast, client
      <3> QED BY <1>8, <3>1
    <2>3. CASE ~Rejects(m) /\ Mine(m)
      <3>1. replies' = replies \cup {m} /\ UNCHANGED <<lastxid, call, count, outcome>>
        BY <1>10, <2>3 DEF RecvBroadcast
      <3>2. Types' BY <1>1, <1>2, <3>1 DEF IInv, Types, IsBag, Ports
      <3>3. Current' BY <1>1, <1>2, <3>1 DEF IInv, Current, Runs
      <3>4. Collected'
        <4>1. \A r \in replies \cup {m} : /\ r.arg = call.arg /\ r.xid = lastxid
                                          /\ r.from \in peers /\ Runs(r.from, r.xid) > 0
          BY <1>4, <1>6, <2>3 DEF IInv, Collected, Mine
        <4>2. \A r \in replies \cup {m} : Runs(r.from, r.xid)' = Runs(r.from, r.xid)
          BY <1>1 DEF Runs
        <4>3. replies' \subseteq Answer BY <1>3, <3>1 DEF IInv, Collected
        <4> QED BY <1>1, <3>1, <4>1, <4>2, <4>3 DEF Collected
      <3>5. ResultsAreMine' BY <1>1, <3>1 DEF IInv, ResultsAreMine
      <3>6. SendsCover' BY <1>1, <3>1 DEF IInv, SendsCover, Sent, SentBy, Runs
      <3> QED BY <3>2, <3>3, <3>4, <3>5, <3>6 DEF IInv
    <2> QED BY <2>1, <2>2, <2>3
  <1>11. CASE RecvTCP(m)
    <2> DEFINE how == IF Rejects(m) THEN "rejected" ELSE IF Mine(m) THEN "result" ELSE "wrong xid"
    <2>1. Ends(how, {m}) BY <1>11 DEF RecvTCP
    <2>2. how \in {"rejected", "result", "wrong xid"} OBVIOUS
    <2>3. how = "result" => ~Rejects(m) /\ Mine(m) OBVIOUS
    <2> HIDE DEF how
    <2> QED BY <1>7, <2>1, <2>2, <2>3
  <1> QED BY <1>9, <1>10, <1>11 DEF Recv

(* Every step preserves the invariant.                                       *)
LEMMA NextInv == ASSUME IInv, [Next]_vars PROVE IInv'
  <1>1. CASE UNCHANGED vars
    <2>1. UNCHANGED <<transport, timed, peers, connected, exports, client, requests, answers, executed, copied, restarts, dups>>
      BY <1>1 DEF vars, setup, history
    <2>2. IsBag(requests') BY <2>1 DEF IInv, Types
    <2>3. \A e \in DOMAIN requests : requests[e] \in Nat BY DEF IInv, Types, IsBag
    <2>4. Fewer BY <2>1, <2>3 DEF Fewer
    <2>5. Ports' BY <2>1 DEF IInv, Types, Ports
    <2> QED BY <2>1, <2>2, <2>4, <2>5, QuietInv
  <1>2. CASE Next
    BY <1>2, MakeCallInv, TimeoutUDPInv, EndInv, RecvInv, HandleInv, NetworkInv, DuplicateInv
    DEF Next, BagToSet
  <1> QED BY <1>1, <1>2

(* The inductive invariant holds in every reachable state.                   *)
THEOREM InvHolds == Spec => []IInv
  <1>1. Init => IInv BY InitInv
  <1>2. IInv /\ [Next]_vars => IInv' BY NextInv
  <1> QED BY <1>1, <1>2, PTL DEF Spec

(* Every variable keeps its type.                                            *)
THEOREM TypeHolds == Spec => []TypeOK
  <1>1. IInv => TypeOK BY DEF IInv, Types, Ports, Collected, TypeOK, BagToSet
  <1> QED BY <1>1, InvHolds, PTL

(* A result belongs to the call that returns it, over each of the three      *)
(* transports: the client's check of the xid is enough, however many replies *)
(* to earlier calls are still on their way.                                  *)
THEOREM ResultsMatchCalls == Spec => []ResultsAreMine
  <1>1. IInv => ResultsAreMine BY DEF IInv
  <1> QED BY <1>1, InvHolds, PTL

(* No call is executed by a server more often than the client sent it - up   *)
(* to Retries + 1 times over UDP, once by broadcast and over TCP - and the   *)
(* network duplicated it: neither the retries nor the giving up of calls     *)
(* leave more executions behind, and no server executes a request twice.     *)
THEOREM NoExtraExecution == Spec => []ExecutionsBounded
  <1>1. IInv => ExecutionsBounded
    <2> SUFFICES ASSUME IInv, NEW s \in Server, NEW x \in Xid
                 PROVE  executed[<<s, x>>] <= (IF transport = "udp" THEN Retries + 1 ELSE 1)
                                              + copied[<<s, x>>]
      BY DEF ExecutionsBounded
    <2>1. Runs(s, x) <= Sent(s, x) /\ Runs(s, x) \in Nat BY DEF IInv, SendsCover, Types, Runs
    <2>2. /\ Retries \in Nat /\ count \in Nat
          /\ SentBy(x) \in Nat /\ copied[<<s, x>>] \in Nat
      BY SentFacts DEF IInv
    <2>3. SentBy(x) <= IF transport = "udp" THEN Retries + 1 ELSE 1 BY <2>2 DEF SentBy
    <2>4. Runs(s, x) <= (IF transport = "udp" THEN Retries + 1 ELSE 1) + copied[<<s, x>>]
      BY <2>1, <2>2, <2>3 DEF Sent
    <2> QED BY <2>4 DEF Runs
  <1> QED BY <1>1, InvHolds, PTL
=============================================================================
