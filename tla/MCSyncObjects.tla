---------------------------- MODULE MCSyncObjects ----------------------------
(* Model-checking instance of SyncObjects.                                   *)
EXTENDS SyncObjects, TLC
=============================================================================
