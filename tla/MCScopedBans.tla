---------------------------- MODULE MCScopedBans ----------------------------
(* Bans that name one host, whose counts add up to more than the quota.     *)
EXTENDS ScopedBans, TLC
MCHostOf == [b \in Bans |-> CHOOSE h \in Hosts : TRUE]
MCLadder == <<0>>
MCHighWater == [scoped |-> 2, global |-> 2]
ScopedSymmetry == Permutations(Clerks) \union Permutations(Bans)
=============================================================================
