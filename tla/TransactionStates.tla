-------------------------- MODULE TransactionStates --------------------------
(***************************************************************************)
(* The transaction state machine of app/transactions/state_machine.py: the *)
(* statuses a stored transaction can have and the moves between them that  *)
(* validate_transition lets through.  Every module that stores or settles  *)
(* transactions uses these operators.                                      *)
(***************************************************************************)

TerminalStatuses == {"completed", "failed", "timed_out", "cancelled"}

Statuses == {"pending"} \cup TerminalStatuses

AllowedTransitions == {"pending"} \X TerminalStatuses

\* Mutant: a terminal status can be replaced by another one.
CanTransitionAgain(from, to) == from \in Statuses /\ to \in TerminalStatuses

\* can_transition: both ends are known statuses and the pair is listed.
CanTransition(from, to) ==
    /\ from \in Statuses
    /\ to \in Statuses
    /\ <<from, to>> \in AllowedTransitions

=============================================================================
