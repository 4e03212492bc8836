----------------------------- MODULE Reconcile -----------------------------
(***************************************************************************)
(* The loop that reads back the global table and reports rows that are     *)
(* acked but not in the kernel (cmd/xdpban/reconcile.go).  It takes no     *)
(* lock: it reads the acked rows in one statement, the map afterwards, and *)
(* the executor, rollbacks and the end of the process go on in between.    *)
(*                                                                         *)
(* An iteration over the map does not stop time either, but a key that     *)
(* nobody touches meanwhile is seen exactly when it is there; the map is   *)
(* read in one step.  MapIterator.Next has no way to say that it stopped   *)
(* for an error, so closed maps read as maps without some of their keys.   *)
(***************************************************************************)
EXTENDS Executor

VARIABLES
  ackedAt,    \* acked_at of every acked row
  checking,   \* a pass has read the rows and not yet the map
  rows,       \* the global rows that were acked when this pass read them
  drifts      \* what the last pass reported, and whether the maps were open

reconOwn  == <<ackedAt, checking, rows, drifts>>
reconVars == <<execVars, reconOwn>>

-----------------------------------------------------------------------------

\* A fault: every global row is compared, whatever its state.
EveryGlobalRow == { i \in DOMAIN dispatches : IsGlobal(dispatches[i].req) }

\* Scoped rows are left out of the comparison.
AckedGlobalRows == { i \in acked : IsGlobal(dispatches[i].req) }

Target(i) == Head(PrefixesOf[dispatches[i].req])

\* A fault: the case of a permanent ban is forgotten.
PastDeadline(i) == now > ackedAt[i] + dispatches[i].ttl

\* The ban has run out by the daemon's clock, counted from the ack.
RunOut(i) == dispatches[i].ttl > 0 /\ now > ackedAt[i] + dispatches[i].ttl

\* What ListGlobalBans may return.  Keys whose ban has expired are still in
\* the map and count as live.
LiveKeys == IF MapsOpen THEN {DOMAIN globalBans} ELSE SUBSET DOMAIN globalBans

reconcile_Rows ==
  /\ Running /\ ~checking
  /\ checking' = TRUE
  /\ rows' = AckedGlobalRows
  /\ drifts' = {}
  /\ UNCHANGED <<execVars, ackedAt>>

\* A drift is written to the audit log and nothing is repaired.
reconcile_Compare ==
  /\ Running /\ checking
  /\ \E live \in LiveKeys :
       drifts' = { [row |-> i, open |-> MapsOpen] :
                   i \in { j \in rows : Target(j) \notin live /\ ~RunOut(j) } }
  /\ checking' = FALSE /\ rows' = {}
  /\ UNCHANGED <<execVars, ackedAt>>

reconcile == reconcile_Rows \/ reconcile_Compare

-----------------------------------------------------------------------------
(* Every other step of the execution plane: acked_at is written together    *)
(* with the state, and a pass ends with its process.                        *)

Elsewhere ==
  /\ ackedAt' = [i \in acked' |-> IF i \in acked THEN ackedAt[i] ELSE now]
  /\ checking' = (checking /\ process' # "down")
  /\ rows' = IF process' = "down" THEN {} ELSE rows
  /\ drifts' = IF process' = "down" THEN {} ELSE drifts

ReconInit ==
  /\ ExecInit
  /\ ackedAt = << >>
  /\ checking = FALSE /\ rows = {}
  /\ drifts = {}

ReconNext ==
  \/ ExecNext /\ Elsewhere
  \/ reconcile

ReconSpec == ReconInit /\ [][ReconNext]_reconVars

\* The ticker of the reconcile loop fires as long as the process is up.
FairReconSpec == ReconSpec /\ WF_reconVars(process = "up" /\ reconcile)

-----------------------------------------------------------------------------
(* Properties.                                                             *)

ReconTypeOK ==
  /\ ackedAt \in [acked -> Nat]
  /\ checking \in BOOLEAN
  /\ rows \subseteq acked
  /\ drifts \subseteq [row : acked, open : BOOLEAN]

RolledBack(p) == \E q \in Rules : IsGlobal(q) /\ p \in Keys(q) /\ rollback[q] # "no"

\* No false alarm: a report made with the maps open is about a ban that the
\* kernel did lose, or whose prefix somebody rolled back.  It takes the order
\* of the two reads, and the executor's order of Put and ack.
DriftIsExplained ==
  \A d \in drifts : d.open => d.row \in lost \/ RolledBack(Target(d.row))

LostGlobal(i) == i \in lost /\ IsGlobal(dispatches[i].req)

Accounted(i) ==
  i \in acked => \/ [row |-> i, open |-> TRUE] \in drifts
                 \/ dispatches[i].ttl \in 1 .. now - ackedAt[i] - 1
                 \/ Target(i) \in DOMAIN globalBans

\* No silent loss: after the maps were emptied, a process that stays up
\* reports every row that is lost, unless its ban has run out meanwhile or
\* another row put its prefix back.
LossIsReported ==
  <>[](process = "up") =>
    \A i \in 1..Cardinality(Rules) : [](LostGlobal(i) => <>Accounted(i))

=============================================================================
