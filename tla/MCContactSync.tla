---------------------------- MODULE MCContactSync ----------------------------
(***************************************************************************)
(* An instance of ContactSync alone: two contacts, two times, one event    *)
(* under way, two lists being written, one fault.                          *)
(***************************************************************************)
EXTENDS ContactSync
=============================================================================
