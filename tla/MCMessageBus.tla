---------------------------- MODULE MCMessageBus ----------------------------
(* The bus and its abstract specification, on the instance of the cfg. *)
EXTENDS BusRefinement
=============================================================================
