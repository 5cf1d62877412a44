---------------------------- MODULE MC_ListPools ----------------------------
(* A small instance of ListPools for TLC. *)
EXTENDS ListPools
=============================================================================
