---------------------------- MODULE MCReconcile ----------------------------
(* One-bit source addresses, and a ban of each of the two.                  *)
EXTENDS Reconcile, TLC

Low  == Masked(0, 1)
High == Masked(1, 1)

CONSTANTS r1, r2

MCHosts == [r \in Rules |-> NoHost]
MCPrefixes == r1 :> <<Low>> @@ r2 :> <<High>>

=============================================================================
