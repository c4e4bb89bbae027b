------------------------------ MODULE MCDumbDbm ------------------------------
(* Model-checking instance of DumbDbm: values of no, one and two blocks.*)
EXTENDS DumbDbm, TLC

MCVal == {[len |-> n, tag |-> n] : n \in 0 .. 3}
MCSymmetry == Permutations(Process)
=============================================================================
