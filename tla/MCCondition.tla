----------------------------- MODULE MCCondition -----------------------------
(* Model-checking instance of Condition.                                     *)
EXTENDS Condition, TLC

MCNums == {-1, 1, 2}
=============================================================================
