---------------------------- MODULE BoundedQueue -----------------------------
(* What class Queue of src/Lib/Queue.py promises: a FIFO queue of at most    *)
(* maxsize items (no bound if maxsize is 0) whose put and get are atomic.    *)
EXTENDS Naturals, Sequences

CONSTANTS Item, Sizes

VARIABLES items, maxsize

vars == <<items, maxsize>>

Init == items = <<>> /\ maxsize \in Sizes

Put(i) ==
  /\ maxsize > 0 => Len(items) < maxsize
  /\ items' = Append(items, i)
  /\ UNCHANGED maxsize

Get == items # <<>> /\ items' = Tail(items) /\ UNCHANGED maxsize

Next == (\E i \in Item : Put(i)) \/ Get

Spec == Init /\ [][Next]_vars
=============================================================================
