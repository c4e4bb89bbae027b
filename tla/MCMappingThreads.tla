--------------------------- MODULE MCMappingThreads ---------------------------
(* Model checking of MappingThreads.                                       *)
EXTENDS MappingThreads, TLC

CONSTANTS k1, k2, k3

\* k1 and k2 start their search at the same slot of a table of 3.
MCHash == [k \in Key |-> CASE k = k1 -> 0 [] k = k2 -> 171 [] k = k3 -> 1]

\* Threads, and addresses, are interchangeable.
Symmetry == Permutations(Thread) \cup Permutations(Addr)

\* Nothing is claimed of what follows, and the history variable stays set: the
\* states behind it need no look.
UpToDate == ~outdated
=============================================================================
