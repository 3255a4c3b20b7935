--------------------------- MODULE MCPlaywrightQA ---------------------------
(* A small instance of PlaywrightQA for TLC. *)
EXTENDS PlaywrightQA

Healthy == [goto |-> "loaded", visible |-> TRUE, enabled |-> TRUE,
            click |-> "done", expected |-> TRUE]

MCIntents == {1, 2}
MCPages == {Healthy, [Healthy EXCEPT !.expected = FALSE],
            [Healthy EXCEPT !.goto = "timeout"]}
MCDurations == {1}
MCConflicts == {2}

=============================================================================
