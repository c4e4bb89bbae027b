---------------------------- MODULE MCThreadState ----------------------------
(* Model checking of ThreadState.                                          *)
EXTENDS ThreadState, TLC

\* Threads other than the main one, and addresses, are interchangeable.
Symmetry == Permutations(Thread \ {main_thread}) \cup Permutations(Node)

\* Nothing is claimed of what follows a state thrown out under a walker, and
\* the history variable stays set: the states behind it need no look.
UpToTheDangling == ~dangling
=============================================================================
