------------------------------ MODULE MCCvsLock ------------------------------
(* Model-checking instance of CvsLock: one process may lock both             *)
(* repositories at once, in either order.                                    *)
EXTENDS CvsLock, TLC

CONSTANTS r1, r2

MCRepository == {r1, r2}
MCNested == {<<r1, r2>>, <<r2, r1>>}
=============================================================================
