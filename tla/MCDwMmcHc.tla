----------------------------- MODULE MCDwMmcHc -----------------------------
(* Instances of DwMmcHc for TLC: the packets of the clients and the one the *)
(* identification routines use are model values.                            *)
EXTENDS DwMmcHc

CONSTANTS p1, p2, p3, id
=============================================================================
