--------------------------- MODULE MCCommandSlot ---------------------------
(***************************************************************************)
(* Instances of CommandSlot for TLC: one caller of each kind, or two proxy *)
(* clients of which one may stall.                                         *)
(***************************************************************************)
EXTENDS CommandSlot
=============================================================================
