-------------------------- MODULE MCConnectedRuntime ------------------------
(* Instance of ConnectedRuntime for TLC.                                   *)
EXTENDS ConnectedRuntime, TLC

RequestSymmetry == Permutations(Requests)
=============================================================================
