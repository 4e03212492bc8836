---------------------------- MODULE MCPrefixStore ----------------------------
(* Two good libraries, one that only normalize accepts (IPv6 throughout), and *)
(* one that nothing accepts; one good text of overrides and one with an error. *)
EXTENDS PrefixStore
=============================================================================
