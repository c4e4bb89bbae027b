--------------------------- MODULE MCProbeSequence ---------------------------
(* Model checking of ProbeSequence: no dictionary, every hash value.       *)
EXTENDS ProbeSequence

NoKeys == [k \in {} |-> 0]
=============================================================================
