---------------------------- MODULE MCDispatcher ----------------------------
(* A small instance of ActionDispatcher for TLC. *)
EXTENDS ActionDispatcher

MCIntents == {1}
MCInstants == 0..2
MCLeaseTerms == {1}
MCRetryDelays == {1}
MCUtcOnly == {0}

=============================================================================
