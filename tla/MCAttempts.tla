----------------------------- MODULE MCAttempts -----------------------------
(* A small instance of ActionAttempts for TLC. *)
EXTENDS ActionAttempts

MCIntents == {1}
MCInstants == 0..2
MCLeaseTerms == {1}
MCRetryDelays == {-1, 0, 1}

=============================================================================
