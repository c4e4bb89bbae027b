--------------------------- MODULE SharedDictionary ---------------------------
(* What a dictionary promises to several threads: each call takes effect   *)
(* at one instant between the call and its return, or fails.               *)
EXTENDS Dictionary, Integers, FiniteSets

CONSTANT Thread

VARIABLES
  call,    \* [Thread -> the call in progress]
  result   \* [Thread -> how the last call ended]

sharedVars == <<d, call, result>>

NoCall == [op |-> "none"]

\* The keys that have a value.
Present == {k \in Key : d[k] # NULL}

\* The list of keys gets the length the dictionary has when the call begins.
Request ==
  [op : {"insert"}, key : Key, value : Value]
  \cup [op : {"remove", "lookup", "has_key"}, key : Key]
  \cup [op : {"clear"}]
  \cup {[op |-> "keys", len |-> Cardinality(Present)]}

SharedInit ==
  /\ Init
  /\ call = [t \in Thread |-> NoCall]
  /\ result = [t \in Thread |-> [is |-> "none"]]

Ask(t) ==
  /\ call[t] = NoCall
  /\ call'[t] \in Request
  /\ call' = [call EXCEPT ![t] = call'[t]]
  /\ result' = [result EXCEPT ![t] = [is |-> "none"]]
  /\ UNCHANGED d

Says(t, r) == result' = [result EXCEPT ![t] = r]

\* All keys that are there if the list is long enough, some otherwise.
Lists(t, n) ==
  \E S \in SUBSET Present :
    /\ n >= Cardinality(Present) => S = Present
    /\ Says(t, [is |-> "list", keys |-> S])

Effect(t, r) ==
  CASE r.op = "insert"  -> Store(r.key, r.value) /\ Says(t, [is |-> "done"])
    [] r.op = "remove"  -> \/ Delete(r.key) /\ Says(t, [is |-> "done"])
                           \/ /\ d[r.key] = NULL
                              /\ Says(t, [is |-> "KeyError"])
                              /\ UNCHANGED d
    [] r.op = "clear"   -> Clear /\ Says(t, [is |-> "done"])
    [] r.op = "lookup"  -> /\ Says(t, [is |-> "value", value |-> d[r.key]])
                           /\ UNCHANGED d
    [] r.op = "has_key" ->
         /\ Says(t, [is |-> IF d[r.key] # NULL THEN "yes" ELSE "no"])
         /\ UNCHANGED d
    [] r.op = "keys"    -> Lists(t, r.len) /\ UNCHANGED d

Returns(t) == call[t] # NoCall /\ call' = [call EXCEPT ![t] = NoCall]

Answer(t) == Returns(t) /\ Effect(t, call[t])

Fail(t) == Returns(t) /\ Says(t, [is |-> "failed"]) /\ UNCHANGED d

SharedNext ==
  \E t \in Thread : Ask(t) \/ Answer(t) \/ Fail(t)

SharedSpec == SharedInit /\ [][SharedNext]_sharedVars
=============================================================================
