---------------------------- MODULE MCTaskBatch ----------------------------
(***************************************************************************)
(* Two items, both asked for at once.  A call reserves two of the three    *)
(* dollars, so the second run is refused while the first is in its call,   *)
(* and one dollar may be left that pays for no call.                       *)
(***************************************************************************)
EXTENDS TaskBatch

=============================================================================
