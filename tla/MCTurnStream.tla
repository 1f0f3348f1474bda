---------------------------- MODULE MCTurnStream ----------------------------
(***************************************************************************)
(* Three turns, so that one can be stopped, the next refused while it      *)
(* unwinds and a third run; a cap of three events; one viewer (they do     *)
(* not affect one another).                                                *)
(***************************************************************************)
EXTENDS TurnStream

=============================================================================
