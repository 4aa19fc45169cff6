--------------------------- MODULE MCTargetSwitch ---------------------------
\* Requests and messages are interchangeable.
EXTENDS TargetSwitch, TLC

Symmetries == Permutations(Runs) \cup Permutations(Messages)
=============================================================================
