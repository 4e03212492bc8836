--------------------------- MODULE MCEnforcement ---------------------------
(* Every request bans the same address, so their keys collide.             *)
EXTENDS Enforcement
Low == Masked(0, 1)
MCTargets == {Low}
MCTargetOf == [r \in Rules |-> Low]
MCHostOf == [r \in Rules |-> NoHost]
MCPrefixesOf == [r \in Rules |-> <<Low>>]
MCLadder == <<0>>
=============================================================================
