-------------------------------- MODULE MCRpc --------------------------------
(* Model-checking instance of Rpc.                                           *)
EXTENDS Rpc, TLC
=============================================================================
