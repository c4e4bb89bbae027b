------------------------------- MODULE MCQueue -------------------------------
(* Model-checking instance of Queue.                                         *)
EXTENDS Queue, TLC
=============================================================================
