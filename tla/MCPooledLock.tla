----------------------------- MODULE MCPooledLock -----------------------------
(* Model-checking instances of PooledLock.                                 *)
EXTENDS PooledLockInv, TLC

Symmetry == Permutations(Thread) \cup Permutations(Object) \cup Permutations(Lock)

(* Nothing is claimed of what follows a lost count, and a lost count is    *)
(* never undone: the states behind it need not be looked at.               *)
UpToTheTear == ~torn
=============================================================================
