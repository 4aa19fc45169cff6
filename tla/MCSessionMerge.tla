--------------------------- MODULE MCSessionMerge ---------------------------
(* Instance of SessionMerge for TLC: two messages.                         *)
EXTENDS SessionMerge, TLC

\* An error that leaves the message unlocated, and one of the tool that also
\* reports conflicting_evidence when its answer is refused.
SomeFailures ==
    {[tool |-> "find_user_or_message", code |-> "ambiguous_match",
      capability |-> None],
     [tool |-> "get_delivery_events", code |-> "unsupported_capability",
      capability |-> None]}

\* The messages are interchangeable.
MessageSymmetry == Permutations(Messages)
=============================================================================
