--------------------------- MODULE MCTaskPipeline ---------------------------
(* Small instances of TaskPipeline for TLC.                                 *)
EXTENDS TaskPipeline

Plain == [needs |-> {}, once |-> "no", retry |-> 0, ignore |-> FALSE, root |-> FALSE,
          tty |-> FALSE, ready |-> TRUE, missing |-> FALSE, flips |-> {}]

\* Each condition waits for what a later task may do, one of them by failing.
Chain == <<[Plain EXCEPT !.needs = {"f"}],
           [Plain EXCEPT !.needs = {"g"}, !.flips = {"f"}, !.tty = TRUE, !.retry = 1],
           [Plain EXCEPT !.flips = {"g"}, !.ignore = TRUE]>>

\* Once tasks of every mode.
OncePlan(a, b) == <<[Plain EXCEPT !.once = a, !.retry = 1, !.needs = {"f"}],
                    [Plain EXCEPT !.once = b, !.tty = TRUE, !.ignore = TRUE,
                     !.flips = {"f"}],
                    [Plain EXCEPT !.ready = FALSE, !.missing = TRUE]>>

\* A mode may change between runs.
MCHistories == {<<Chain>>,
                <<OncePlan("content", "sealed"), OncePlan("sealed", "sealed")>>,
                <<OncePlan("forever", "content"), OncePlan("content", "content")>>}

\* A privileged task with a retry.
MCRootHistories == {<< <<[Plain EXCEPT !.root = TRUE, !.retry = 1]>> >>}

\* A task with a condition, before one without.
MCStrictHistories == {<< <<[Plain EXCEPT !.needs = {"f"}], Plain>> >>}

MCFacts == {"f", "g"}
=============================================================================
