--------------------------- MODULE MCTaskScheduler ---------------------------
(***************************************************************************)
(* Recovery: one task, up to three runs, two crashes and two edits.        *)
(* Queue: two tasks, one recurring and one that runs once, share one slot  *)
(* and a queue of one.                                                     *)
(***************************************************************************)
EXTENDS TaskScheduler

CONSTANTS recurs, once

MCTasks == {recurs, once}
MCKeepsKind == [t \in Tasks |-> IF t \in Once THEN {"once"} ELSE {"recurring"}]
MCChangesKind == [t \in Tasks |-> {"once", "recurring"}]

=============================================================================
