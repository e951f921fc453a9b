---------------------------- MODULE MCPushFanout ----------------------------
(***************************************************************************)
(* Instances of PushFanout for TLC: clients that read beside one that may  *)
(* stop, with a transport that lets two calls of handle_rx overlap or not. *)
(***************************************************************************)
EXTENDS PushFanout
=============================================================================
