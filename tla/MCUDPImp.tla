------------------------------ MODULE MCUDPImp ------------------------------
(***************************************************************************)
(* The life of a UDP handle, for TLC.  A run gives Event the destinations  *)
(* of the calls of Init it allows.  Where a field of the argument makes    *)
(* Init fail, the fields it has not come to yet do not matter: one value   *)
(* of them is taken.                                                       *)
(***************************************************************************)
EXTENDS UDPImp

Destinations == 0 .. Cut(MaxInits)

AnyParam == [ver |-> "v4", dest |-> "good", cast |-> "group", recv |-> TRUE, notify |-> TRUE]

MCParams ==
  [ver : Family, dest : {"good"}, cast : {"group"}, recv : BOOLEAN, notify : BOOLEAN]
  \cup {[AnyParam EXCEPT !.ver = "other"], [AnyParam EXCEPT !.dest = "zero"],
        [AnyParam EXCEPT !.dest = "bad"], [AnyParam EXCEPT !.cast = "none"],
        [AnyParam EXCEPT !.cast = "uni"]}

IPv6Params == [ver : {"v6"}, dest : {"good"}, cast : {"uni"}, recv : {FALSE}, notify : {FALSE}]
=============================================================================
