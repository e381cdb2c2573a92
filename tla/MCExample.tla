------------------------------ MODULE MCExample ------------------------------
(***************************************************************************)
(* The example program, for TLC: one call of Init, so one destination.     *)
(***************************************************************************)
EXTENDS Example

Destinations == 0 .. Cut(MaxInits)
=============================================================================
