---------------------------- MODULE MCStoreReaders ----------------------------
(* An instance of StoreReaders for TLC: one payment that the provider completes. *)
EXTENDS StoreReaders

CONSTANTS paid, r1

MCPayments == {paid}
MCResults == [p \in MCPayments |-> {<<"completed", r1>>}]

=============================================================================
