-------------------------- MODULE ReconcileProofs --------------------------
(***************************************************************************)
(* Proofs about Reconcile: the loop only looks, so that every promise of    *)
(* the execution plane still holds beside it, and it raises no false alarm. *)
(***************************************************************************)
EXTENDS Reconcile, ExecutorProofs

-----------------------------------------------------------------------------
(* The inductive invariant.                                                *)

\* A pass holds, and reports, acked rows of global bans only.
RowsAreGlobal ==
  /\ \A i \in rows : i \in acked /\ IsGlobal(dispatches[i].req)
  /\ \A d \in drifts : d.row \in acked

ReconInv ==
  /\ ExecInv
  /\ ReconTypeOK
  /\ RowsAreGlobal
  /\ DriftIsExplained

\* Every step is one of the execution plane or leaves it alone.
LEMMA ReconIsExec == [ReconNext]_reconVars => [ExecNext]_execVars
BY DEF ReconNext, reconcile, reconcile_Rows, reconcile_Compare, reconVars

\* An acked row has a request with a first prefix, which is one of its keys.
LEMMA AckedTarget ==
  ASSUME ExecTypeOK, NEW i \in acked
  PROVE  /\ i \in DOMAIN dispatches /\ dispatches[i].req \in Rules
         /\ Target(i) \in Keys(dispatches[i].req)
<1>1. dispatches \in Seq(Row) /\ i \in DOMAIN dispatches
  BY DEF ExecTypeOK
<1>2. dispatches[i] \in Row
  BY <1>1, LenProperties
<1>3. dispatches[i].req \in Rules
  BY <1>2 DEF Row
<1>4. Target(i) \in Range(PrefixesOf[dispatches[i].req])
  BY <1>3, PrefixesTyped, HeadAndRest DEF Target
<1> QED
  BY <1>1, <1>3, <1>4 DEF Keys, Range

-----------------------------------------------------------------------------
(* One lemma for the executor's steps, one for each read of the loop.      *)

\* The executor explains a report ever better: rows stay acked, a loss and a
\* rollback are not taken back.
LEMMA ElsewhereStep ==
  ASSUME ReconInv, [ExecNext]_execVars, Elsewhere
  PROVE  ReconInv'
<1>a. ExecInv /\ ExecTypeOK /\ ReconTypeOK /\ RowsAreGlobal /\ DriftIsExplained
  BY DEF ReconInv, ExecInv
<1>1. ExecInv'
  BY <1>a, StepInv
<1>2. /\ acked \subseteq acked' /\ lost \subseteq lost'
      /\ \A i \in acked : dispatches'[i] = dispatches[i]
  BY <1>a, RowsStay, AckedTarget
<1>3. rows' \subseteq rows /\ drifts' \subseteq drifts /\ checking' \in BOOLEAN
  BY <1>a DEF Elsewhere, ReconTypeOK
<1>4. ReconTypeOK'
  <2>1. now \in Nat
    BY <1>a DEF ExecTypeOK, KernelTypeOK
  <2>2. ackedAt' \in [acked' -> Nat]
    BY <1>a, <2>1 DEF Elsewhere, ReconTypeOK
  <2> QED
    BY <1>a, <1>2, <1>3, <2>2 DEF ReconTypeOK
<1>5. RowsAreGlobal'
  BY <1>a, <1>2, <1>3 DEF RowsAreGlobal, IsGlobal
<1>6. DriftIsExplained'
  <2> SUFFICES ASSUME NEW d \in drifts, d.open, d.row \notin lost
               PROVE  RolledBack(Target(d.row))'
    BY <1>2, <1>3 DEF DriftIsExplained
  <2>1. d.row \in acked /\ RolledBack(Target(d.row))
    BY <1>a DEF RowsAreGlobal, DriftIsExplained
  <2>2. PICK q \in Rules : IsGlobal(q) /\ Target(d.row) \in Keys(q) /\ rollback[q] # "no"
    BY <2>1 DEF RolledBack
  <2>3. rollback'[q] # "no"
    BY <1>a, <2>2, RollbackStays
  <2>4. dispatches'[d.row] = dispatches[d.row]
    BY <1>2, <2>1
  <2> QED
    BY <2>2, <2>3, <2>4 DEF RolledBack, Target, IsGlobal, Keys
<1> QED
  BY <1>1, <1>4, <1>5, <1>6 DEF ReconInv

\* The first read of a pass.
LEMMA RowsStep ==
  ASSUME ReconInv, reconcile_Rows
  PROVE  ReconInv'
<1>1. ExecInv'
  <2>1. [ExecNext]_execVars
    BY DEF reconcile_Rows
  <2> QED
    BY <2>1, StepInv DEF ReconInv
<1>2. /\ UNCHANGED <<acked, dispatches, lost, ackedAt>> /\ checking' = TRUE
      /\ rows' = AckedGlobalRows /\ drifts' = {}
  BY DEF reconcile_Rows, execVars, procVars
<1>3. ReconTypeOK' /\ RowsAreGlobal' /\ DriftIsExplained'
  BY <1>2 DEF ReconInv, ReconTypeOK, RowsAreGlobal, DriftIsExplained, AckedGlobalRows, IsGlobal
<1> QED
  BY <1>1, <1>3 DEF ReconInv

\* The second read: a key that an acked row lacks was rolled back or lost.
LEMMA CompareStep ==
  ASSUME ReconInv, reconcile_Compare
  PROVE  ReconInv'
<1>a. ExecTypeOK /\ AckedIsEnforced /\ ReconTypeOK /\ RowsAreGlobal
  BY DEF ReconInv, ExecInv
<1>1. ExecInv'
  <2>1. [ExecNext]_execVars
    BY DEF reconcile_Compare
  <2> QED
    BY <2>1, StepInv DEF ReconInv
<1>2. UNCHANGED <<execVars, ackedAt>> /\ checking' = FALSE /\ rows' = {}
  BY DEF reconcile_Compare
<1>3. PICK live \in LiveKeys :
        drifts' = { [row |-> i, open |-> MapsOpen] :
                    i \in { j \in rows : Target(j) \notin live /\ ~RunOut(j) } }
  BY DEF reconcile_Compare
<1>4. ASSUME NEW d \in drifts'
      PROVE  /\ d \in [row : acked, open : BOOLEAN]
             /\ d.open => d.row \in lost \/ RolledBack(Target(d.row))
  <2>1. PICK j \in rows : d = [row |-> j, open |-> MapsOpen] /\ Target(j) \notin live
    BY <1>3
  <2>2. j \in acked /\ IsGlobal(dispatches[j].req)
    BY <1>a DEF RowsAreGlobal
  <2>3. MapsOpen \in BOOLEAN
    BY DEF MapsOpen
  <2>4. ASSUME MapsOpen, j \notin lost
        PROVE  RolledBack(Target(j))
    <3>1. Target(j) \notin DOMAIN globalBans
      BY <2>1, <2>4 DEF LiveKeys
    <3>2. Target(j) \in Keys(dispatches[j].req)
      BY <1>a, <2>2, AckedTarget
    <3>3. ~InKernel(dispatches[j].req, Target(j))
      BY <2>2, <3>1 DEF InKernel
    <3>4. PICK q \in Rules : SharesKey(dispatches[j].req, q, Target(j)) /\ rollback[q] # "no"
      BY <1>a, <2>2, <2>4, <3>2, <3>3 DEF AckedIsEnforced
    <3> QED
      BY <2>2, <3>4 DEF RolledBack, SharesKey, IsGlobal
  <2> QED
    BY <2>1, <2>2, <2>3, <2>4
<1>5. UNCHANGED <<acked, dispatches, lost, rollback, ackedAt>>
  BY <1>2 DEF execVars, procVars, revVars
<1>6. ReconTypeOK' /\ RowsAreGlobal'
  BY <1>a, <1>2, <1>4, <1>5 DEF ReconTypeOK, RowsAreGlobal
<1>7. DriftIsExplained'
  BY <1>4, <1>5 DEF DriftIsExplained, RolledBack, Target, IsGlobal, Keys
<1> QED
  BY <1>1, <1>6, <1>7 DEF ReconInv

\* The parts together are inductive.
LEMMA ReconStep == ReconInv /\ [ReconNext]_reconVars => ReconInv'
<1> SUFFICES ASSUME ReconInv, [ReconNext]_reconVars
             PROVE  ReconInv'
  OBVIOUS
<1>1. CASE ExecNext /\ Elsewhere
  BY <1>1, ElsewhereStep
<1>2. CASE UNCHANGED reconVars
  <2>1. ExecInv'
    BY <1>2, StepInv DEF ReconInv, reconVars
  <2>2. UNCHANGED <<acked, dispatches, lost, rollback, reconOwn>>
    BY <1>2 DEF reconVars, execVars, procVars, revVars
  <2>3. ReconTypeOK' /\ RowsAreGlobal'
    BY <2>2 DEF ReconInv, ReconTypeOK, RowsAreGlobal, reconOwn, IsGlobal
  <2>4. DriftIsExplained'
    BY <2>2 DEF ReconInv, DriftIsExplained, RolledBack, Target, IsGlobal, Keys, reconOwn
  <2> QED
    BY <2>1, <2>3, <2>4 DEF ReconInv
<1> QED
  BY <1>1, <1>2, RowsStep, CompareStep DEF ReconNext, reconcile

\* The invariant holds of every reachable state.
LEMMA ReconHolds == ReconSpec => []ReconInv
<1>1. ReconInit => ReconInv
  <2> SUFFICES ASSUME ReconInit PROVE ReconInv
    OBVIOUS
  <2>1. ExecInv /\ acked = {}
    BY InitInv DEF ReconInit, ExecInit
  <2>2. ackedAt = << >> /\ checking = FALSE /\ rows = {} /\ drifts = {}
    BY DEF ReconInit
  <2>3. ackedAt \in [acked -> Nat]
    BY <2>1, <2>2
  <2>4. ReconTypeOK
    BY <2>2, <2>3 DEF ReconTypeOK
  <2> QED
    BY <2>1, <2>2, <2>4 DEF ReconInv, RowsAreGlobal, DriftIsExplained
<1> QED
  BY <1>1, ReconStep, PTL DEF ReconSpec

-----------------------------------------------------------------------------
(* The theorems.                                                           *)

\* The reconcile loop changes nothing of the execution plane: whatever holds of
\* the daemon without it (ExecutorProofs) holds with it.
THEOREM ReconcileOnlyLooks == ReconSpec => ExecSpec
<1>1. ReconInit => ExecInit
  BY DEF ReconInit
<1> QED
  BY <1>1, ReconIsExec, PTL DEF ReconSpec, ExecSpec

\* What a pass holds and reports are acked rows, whatever the executor does
\* between its two reads.
THEOREM ReconTypeCorrect == ReconSpec => []ReconTypeOK
<1>1. ReconInv => ReconTypeOK
  BY DEF ReconInv
<1> QED
  BY <1>1, ReconHolds, PTL

\* No false alarm: a drift reported with the maps open is a ban the kernel lost or
\* whose prefix was rolled back.
THEOREM NoFalseAlarm == ReconSpec => []DriftIsExplained
<1>1. ReconInv => DriftIsExplained
  BY DEF ReconInv
<1> QED
  BY <1>1, ReconHolds, PTL

=============================================================================
