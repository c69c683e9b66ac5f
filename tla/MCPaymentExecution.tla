-------------------------- MODULE MCPaymentExecution --------------------------
(* Instances of PaymentExecution for TLC. *)
EXTENDS PaymentExecution, TLC

WorkerAndKeySymmetry == Permutations(Workers) \cup Permutations(Keys)

=============================================================================
