-------------------------- MODULE MCProxyConnection --------------------------
(* An instance of ProxyConnection for TLC. *)
EXTENDS ProxyConnection
==============================================================================
