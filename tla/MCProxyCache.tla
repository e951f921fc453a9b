---------------------------- MODULE MCProxyCache ----------------------------
(***************************************************************************)
(* Instance of ProxyCache for TLC: two proxy clients and nobody else.      *)
(***************************************************************************)
EXTENDS ProxyCache
=============================================================================
