----------------------------- MODULE MCApprovals -----------------------------
(* Instances of Approvals for TLC. *)
EXTENDS Approvals, TLC

CONSTANTS low, high

ThreadAndOperatorSymmetry == Permutations(Threads) \cup Permutations(Operators)

\* A payment that one reviewer releases, and one that takes two.
MCRequired == [a \in {low, high} |-> IF a = low THEN 1 ELSE 2]

=============================================================================
