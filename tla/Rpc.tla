--------------------------------- MODULE Rpc ---------------------------------
(* Sun RPC, src/Demo/rpc/rpc.py: a client object that calls procedures one   *)
(* after the other, over UDP with retransmission (RawUDPClient), by UDP      *)
(* broadcast (RawBroadcastUDPClient) or over a TCP connection                *)
(* (RawTCPClient), and the servers (UDPServer, TCPServer).                   *)
(*                                                                           *)
(* Datagrams are lost, duplicated, delayed and overtake each other; a resent *)
(* call is one more copy of it.  Records on a TCP connection arrive in order *)
(* until the connection breaks.  What comes after a call was given up stays  *)
(* in the socket for the next call.                                          *)
(* The encoding (xdr.py) is left out: a message is a record.                 *)
EXTENDS Naturals, FiniteSets, Bags, BagsExt

CONSTANTS
  Server,       \* the servers; a UDP or TCP client is connected to one
  Args,         \* what is called: a procedure with its arguments
  NoProc,       \* those of them whose procedure the server does not have
  BadArgs,      \* those of them whose arguments the procedure cannot unpack
  Retries,      \* how often RawUDPClient sends a call again: 5 in the code
  MaxCalls,     \* bound on the calls of the client
  MaxRestarts,  \* bound on how often a port gets another program
  MaxDups,      \* bound on the datagrams the network duplicates
  NULL

ASSUME ServerAssumption == Server # {}
ASSUME BoundAssumption ==
  Retries \in Nat /\ MaxCalls \in Nat /\ MaxRestarts \in Nat /\ MaxDups \in Nat

VARIABLES
  transport,    \* "udp", "broadcast" or "tcp"
  timed,        \* select() was found, and the broadcast's timeout is not None
  connected,    \* the TCP connection is up
  peers,        \* the servers the client's calls go to
  exports,      \* what a server's port serves: the client's program, or not
  lastxid,      \* client.lastxid
  call,         \* the call in progress, or NULL
  count,        \* local of do_call(): timeouts left
  replies,      \* local of the broadcast's make_call()
  outcome,      \* how the last call ended
  requests,     \* messages to the servers: a bag
  answers,      \* messages to the client: a bag
  executed,     \* history: how often a server has executed the call with an xid
  copied,       \* history: how often the network has duplicated it on its way there
  restarts,     \* history: how often a port got another program
  dups          \* history: datagrams duplicated

client == <<lastxid, call, count, replies, outcome>>
setup == <<transport, timed, peers>>
history == <<executed, copied, restarts, dups>>
vars == <<setup, connected, exports, client, requests, answers, history>>

Xid == 1 .. MaxCalls
Errors == {"PROG_UNAVAIL", "PROG_MISMATCH", "PROC_UNAVAIL", "GARBAGE_ARGS"}
Call == [xid : Xid, arg : Args]
ASSUME NullAssumption == NULL \notin Call

Request == [to : Server, call : Call]
Answer == [from : Server, xid : Xid, stat : Errors \cup {"SUCCESS"}, arg : Args]

Endings == {"result", "rejected", "timeout", "wrong xid", "interrupted", "eof"}
Outcome == [how : Endings, call : Call, replies : SUBSET Answer]

TypeOK ==
  /\ transport \in {"udp", "broadcast", "tcp"}
  /\ timed \in BOOLEAN /\ connected \in BOOLEAN
  /\ peers \subseteq Server
  /\ exports \in [Server -> {"program", "other version", "other program"}]
  /\ lastxid \in 0 .. MaxCalls
  /\ call \in Call \cup {NULL}
  /\ count \in 0 .. Retries
  /\ replies \subseteq Answer
  /\ outcome \in Outcome \cup {NULL}
  /\ BagToSet(requests) \subseteq Request /\ BagToSet(answers) \subseteq Answer
  /\ executed \in [Server \X Xid -> Nat] /\ copied \in [Server \X Xid -> Nat]
  /\ restarts \in 0 .. MaxRestarts /\ dups \in 0 .. MaxDups

Init ==
  /\ transport \in {"udp", "broadcast", "tcp"}
  /\ timed \in (IF transport = "tcp" THEN {FALSE} ELSE BOOLEAN) /\ connected = TRUE
  /\ peers = IF transport = "broadcast" THEN Server ELSE {CHOOSE s \in Server : TRUE}
  /\ exports = [s \in Server |-> "program"]
  /\ lastxid = 0 /\ call = NULL /\ count = Retries /\ replies = {} /\ outcome = NULL
  /\ requests = EmptyBag /\ answers = EmptyBag
  /\ executed = [x \in Server \X Xid |-> 0] /\ copied = executed
  /\ restarts = 0 /\ dups = 0

------------------------------------------------------------------------------
(* The client.                                                               *)
Copies(c) == SetToBag({[to |-> s, call |-> c] : s \in peers})

(* make_call() up to the first wait: start_call(), pack, send.  Nobody gets  *)
(* what is sent on a broken connection.                                      *)
MakeCall(arg) ==
  /\ call = NULL /\ lastxid < MaxCalls
  /\ lastxid' = lastxid + 1
  /\ LET c == [xid |-> lastxid', arg |-> arg]
     IN  call' = c /\ requests' = IF connected THEN requests (+) Copies(c) ELSE requests
  /\ count' = Retries /\ replies' = {} /\ outcome' = NULL
  /\ UNCHANGED <<setup, connected, exports, answers, history>>

Ends(how, got) ==
  /\ outcome' = [how |-> how, call |-> call, replies |-> got]
  /\ call' = NULL /\ replies' = {} /\ count' = Retries
  /\ UNCHANGED lastxid

BadTimeoutUDP ==
  /\ transport = "udp" /\ timed /\ call # NULL
  /\ requests' = requests (+) Copies(call)
  /\ IF count = 0
       THEN Ends("timeout", {})
       ELSE count' = count - 1 /\ UNCHANGED <<lastxid, call, replies, outcome>>
  /\ UNCHANGED <<setup, connected, exports, answers, history>>

(* Nothing came in time: send again, or give up.                             *)
TimeoutUDP ==
  /\ transport = "udp" /\ timed /\ call # NULL
  /\ IF count = 0
       THEN Ends("timeout", {}) /\ UNCHANGED requests
       ELSE /\ count' = count - 1
            /\ requests' = requests (+) Copies(call)
            /\ UNCHANGED <<lastxid, call, replies, outcome>>
  /\ UNCHANGED <<setup, connected, exports, answers, history>>

BadTimeoutBroadcast ==
  /\ transport = "broadcast" /\ timed /\ call # NULL /\ replies # {}
  /\ Ends("result", replies)
  /\ UNCHANGED <<setup, connected, exports, requests, answers, history>>

(* The broadcast returns what it has when nothing more comes.                *)
TimeoutBroadcast ==
  /\ transport = "broadcast" /\ timed /\ call # NULL
  /\ Ends("result", replies)
  /\ UNCHANGED <<setup, connected, exports, requests, answers, history>>

BadMine(m) == TRUE

Mine(m) == m.xid = lastxid

(* unpack_replyheader(): an error in the reply is raised whatever its xid.   *)
Rejects(m) == m.stat \in Errors

(* On a connection a record arrives before the ones sent after it.           *)
Arrives(xid, underway) == transport = "tcp" => \A x \in underway : x >= xid

(* do_call(): a reply to another call is skipped.                            *)
RecvUDP(m) ==
  /\ transport = "udp"
  /\ IF Rejects(m) THEN Ends("rejected", {m})
     ELSE IF Mine(m) THEN Ends("result", {m})
     ELSE UNCHANGED client

(* make_call() of the broadcast: it collects replies.                        *)
RecvBroadcast(m) ==
  /\ transport = "broadcast"
  /\ IF Rejects(m) THEN Ends("rejected", {m})
     ELSE /\ replies' = IF Mine(m) THEN replies \cup {m} ELSE replies
          /\ UNCHANGED <<lastxid, call, count, outcome>>

(* do_call() of the TCP client: a reply to another call is an error.         *)
RecvTCP(m) ==
  /\ transport = "tcp"
  /\ Ends(IF Rejects(m) THEN "rejected" ELSE IF Mine(m) THEN "result" ELSE "wrong xid", {m})

Recv(m) ==
  /\ call # NULL
  /\ Arrives(m.xid, {a.xid : a \in BagToSet(answers)})
  /\ answers' = BagRemove(answers, m)
  /\ RecvUDP(m) \/ RecvBroadcast(m) \/ RecvTCP(m)
  /\ UNCHANGED <<setup, connected, exports, requests, history>>

(* recvfrag() at the end of the connection: EOFError.                        *)
RecvEOF ==
  /\ transport = "tcp" /\ ~connected /\ call # NULL /\ answers = EmptyBag
  /\ Ends("eof", {})
  /\ UNCHANGED <<setup, connected, exports, requests, answers, history>>

(* KeyboardInterrupt, or an exception of a signal handler, in recv().        *)
Interrupt ==
  /\ call # NULL
  /\ Ends("interrupted", {})
  /\ UNCHANGED <<setup, connected, exports, requests, answers, history>>

------------------------------------------------------------------------------
(* The servers and the network.                                              *)

(* handle(): the checks in their order.  The message is a CALL of RPC        *)
(* version 2, the client sends no other.                                     *)
Stat(s, c) ==
  CASE exports[s] = "other program" -> "PROG_UNAVAIL"
    [] exports[s] = "other version" -> "PROG_MISMATCH"
    [] c.arg \in NoProc -> "PROC_UNAVAIL"
    [] c.arg \in BadArgs -> "GARBAGE_ARGS"
    [] OTHER -> "SUCCESS"

(* session(): receive, handle, send the reply.                               *)
Handle(m) ==
  /\ Arrives(m.call.xid, {r.call.xid : r \in BagToSet(requests)})
  /\ requests' = BagRemove(requests, m)
  /\ LET s == m.to
         c == m.call
         stat == Stat(s, c)
     IN  /\ answers' = BagAdd(answers, [from |-> s, xid |-> c.xid, stat |-> stat, arg |-> c.arg])
         /\ executed' = IF stat = "SUCCESS" THEN [executed EXCEPT ![<<s, c.xid>>] = @ + 1] ELSE executed
  /\ UNCHANGED <<setup, connected, exports, client, copied, restarts, dups>>

Lose ==
  /\ transport # "tcp"
  /\ \/ \E m \in BagToSet(requests) : requests' = BagRemove(requests, m) /\ UNCHANGED answers
     \/ \E m \in BagToSet(answers) : answers' = BagRemove(answers, m) /\ UNCHANGED requests
  /\ UNCHANGED <<setup, connected, exports, client, history>>

(* One datagram becomes two.                                                 *)
Duplicate ==
  /\ transport # "tcp" /\ dups < MaxDups
  /\ dups' = dups + 1
  /\ \/ \E m \in BagToSet(requests) :
          /\ requests' = BagAdd(requests, m)
          /\ copied' = [copied EXCEPT ![<<m.to, m.call.xid>>] = @ + 1]
          /\ UNCHANGED answers
     \/ \E m \in BagToSet(answers) :
          answers' = BagAdd(answers, m) /\ UNCHANGED <<requests, copied>>
  /\ UNCHANGED <<setup, connected, exports, client, executed, restarts>>

(* The connection breaks: the client may still read what it had received.    *)
Break ==
  /\ transport = "tcp" /\ connected
  /\ connected' = FALSE
  /\ requests' = EmptyBag
  /\ answers' \in {answers, EmptyBag}
  /\ UNCHANGED <<setup, exports, client, history>>

(* The server ends and its UDP port goes to another program or version.      *)
Restart(s) ==
  /\ transport # "tcp" /\ restarts < MaxRestarts
  /\ restarts' = restarts + 1
  /\ \E e \in {"other version", "other program"} : exports' = [exports EXCEPT ![s] = e]
  /\ UNCHANGED <<setup, connected, client, requests, answers, executed, copied, dups>>

Next ==
  \/ \E x \in Args : MakeCall(x)
  \/ TimeoutUDP \/ TimeoutBroadcast \/ RecvEOF \/ Interrupt
  \/ \E m \in BagToSet(answers) : Recv(m)
  \/ \E m \in BagToSet(requests) : Handle(m)
  \/ Lose \/ Duplicate \/ Break
  \/ \E s \in Server : Restart(s)

Spec == Init /\ [][Next]_vars

(* select() returns when its timeout is over.                                *)
Fairness == WF_vars(TimeoutUDP) /\ WF_vars(TimeoutBroadcast)

FairSpec == Spec /\ Fairness
------------------------------------------------------------------------------
(* What a call returns is the answer to that very call: each reply belongs   *)
(* to it, comes from a server it was sent to and that executed it - whatever *)
(* was lost, resent, given up or left over from earlier calls, and whatever  *)
(* program has taken over the port.                                          *)
ResultsAreMine ==
  outcome # NULL /\ outcome.how = "result"
    => \A r \in outcome.replies :
         /\ r.arg = outcome.call.arg /\ r.xid = outcome.call.xid
         /\ r.from \in peers /\ executed[<<r.from, outcome.call.xid>>] > 0

(* A call is executed at most once for the first send and each retry over    *)
(* UDP ("use only for idempotent calls!"), and at most once where nothing is *)
(* resent; only a copy that the network made of a datagram adds to that.     *)
(* Giving a call up never leaves one more copy behind.                       *)
ExecutionsBounded == \A s \in Server, x \in Xid :
  executed[<<s, x>>] <= (IF transport = "udp" THEN Retries + 1 ELSE 1) + copied[<<s, x>>]

(* A UDP call ends with a result, an error or the timeout, and a broadcast   *)
(* returns, although every datagram may be lost: wherever select() exists    *)
(* and the timeout is not None.  Nothing is said of the calls of which       *)
(* rpc.py says that they may hang (lines 9, 370, 413, 426).                  *)
CallEnds == (call # NULL /\ timed /\ transport # "tcp") ~> (call = NULL)
=============================================================================
