--------------------------- MODULE MCSessionStore ---------------------------
(* Instance of SessionStore for TLC.                                       *)
EXTENDS SessionStore, TLC

\* The requests are interchangeable; liveness is checked without this.
RunSymmetry == Permutations(Runs)
=============================================================================
