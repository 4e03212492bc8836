---------------------------- MODULE BanLifecycle ----------------------------
(***************************************************************************)
(* What the approval gate promises about one ban request, whatever handlers *)
(* run at the same time: a request is approved at most once and only while  *)
(* it is pending, a closed request (rejected, revoked or blocked by the     *)
(* protected set) never opens again, and the executor is given at most one  *)
(* order for it, and none for a request nobody approved.                    *)
(*                                                                         *)
(* The order may be given after the request was closed: CreateDispatch     *)
(* follows the approval in a statement of its own and does not look at the  *)
(* state again.                                                             *)
(***************************************************************************)
EXTENDS Naturals

CONSTANT Requests

VARIABLES phase,     \* phase[r]: "none", "pending", "active" or "closed"
          approved,  \* the requests that were ever approved
          orders     \* orders[r]: number of orders given to the executor

lifecycleVars == <<phase, approved, orders>>

Phases == {"none", "pending", "active", "closed"}

LifecycleInit ==
  /\ phase = [r \in Requests |-> "none"]
  /\ approved = {}
  /\ orders = [r \in Requests |-> 0]

Submit(r) ==
  /\ phase[r] = "none"
  /\ phase' = [phase EXCEPT ![r] = "pending"]
  /\ UNCHANGED <<approved, orders>>

Approve(r) ==
  /\ phase[r] = "pending"
  /\ phase' = [phase EXCEPT ![r] = "active"]
  /\ approved' = approved \union {r}
  /\ UNCHANGED orders

Close(r) ==
  /\ phase[r] \in {"pending", "active"}
  /\ phase' = [phase EXCEPT ![r] = "closed"]
  /\ UNCHANGED <<approved, orders>>

Order(r) ==
  /\ r \in approved
  /\ orders[r] = 0
  /\ orders' = [orders EXCEPT ![r] = 1]
  /\ UNCHANGED <<phase, approved>>

LifecycleNext == \E r \in Requests : Submit(r) \/ Approve(r) \/ Close(r) \/ Order(r)

LifecycleSpec == LifecycleInit /\ [][LifecycleNext]_lifecycleVars

=============================================================================
