--------------------------- MODULE MCChannelSync ---------------------------
(***************************************************************************)
(* Instances of ChannelSync for TLC: two channels that move between two    *)
(* slots, swap them, leave the node and come back.                         *)
(***************************************************************************)
EXTENDS ChannelSync
=============================================================================
