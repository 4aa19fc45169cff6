--------------------------- MODULE MCToolRegistry ---------------------------
(* Instance of ToolRegistry for TLC.                                       *)
EXTENDS ToolRegistry, TLC

\* Calls are interchangeable, and so are reads and answers.
CallSymmetry ==
    Permutations(Calls) \cup Permutations(Reads) \cup Permutations(Data)
=============================================================================
