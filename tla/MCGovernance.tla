---------------------------- MODULE MCGovernance ----------------------------
(* Requests against one target, so that they share a rung of the ladder.   *)
EXTENDS Governance, TLC
MCTargetOf == [r \in Requests |-> CHOOSE t \in Targets : TRUE]
MCLadder == <<1, 2, 0>>
ClerkSymmetry == Permutations(Clerks)
=============================================================================
