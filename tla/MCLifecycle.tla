----------------------------- MODULE MCLifecycle -----------------------------
(***************************************************************************)
(* Lifecycle for TLC: a client that may stall beside one that reads, and   *)
(* an event stream.                                                        *)
(***************************************************************************)
EXTENDS Lifecycle
=============================================================================
