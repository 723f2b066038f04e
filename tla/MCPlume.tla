------------------------------- MODULE MCPlume -------------------------------
(* The module that TLC checks for Plume. *)
EXTENDS PlumeProps
=============================================================================
