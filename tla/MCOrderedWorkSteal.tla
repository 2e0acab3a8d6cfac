------------------------- MODULE MCOrderedWorkSteal -------------------------
(* Instances of OrderedWorkSteal for TLC.                                  *)
EXTENDS OrderedWorkSteal, TLC

CONSTANTS a, b, c, d

\* Items of the same priority and one that is less urgent: three and one for
\* the safety of the queue, two and one for the calls of push().
MCItems == {a, b, c, d}

MCPrio == [i \in MCItems |-> IF i = d THEN 2 ELSE 1]

\* Items of one priority can be told apart by their place only.
MCSymmetry == Permutations({a, b, c})

MCFewItems == {a, b, d}

MCFewPrio == [i \in MCFewItems |-> MCPrio[i]]

=============================================================================
