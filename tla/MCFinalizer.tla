---------------------------- MODULE MCFinalizer -----------------------------
(* A small instance of ActionFinalizer for TLC. *)
EXTENDS ActionFinalizer

MCIntents == 1..2
MCInstants == 0..2
MCLeaseTerms == {1}
MCRetryDelays == {-1, 0, 1}
MCUtcOnly == {0}
MCOffsets == {-2, 0}

=============================================================================
