--------------------------- MODULE MCMappingObject ---------------------------
(* Model checking of MappingObject: keys whose probe sequences collide.    *)
EXTENDS MappingObject
CONSTANTS k1, k2, k3, k4

\* The same first slot in tables of 3 and of 7 slots for k1 and k2; k2 wraps
\* around in "3*sum + 1".
MCHash ==
  [k \in Key |-> CASE k = k1 -> 0 [] k = k2 -> 231 [] k = k3 -> 1
                   [] k = k4 -> 171]
=============================================================================
