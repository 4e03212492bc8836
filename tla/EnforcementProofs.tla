-------------------------- MODULE EnforcementProofs --------------------------
(***************************************************************************)
(* Proofs about Enforcement, for any requests, targets, handlers, ladders,  *)
(* capacities, crashes and restarts.  The composition is shown to do what   *)
(* each of its halves does: its steps are steps of Governance, but for the  *)
(* end of the process, and steps of Executor.  What was proved of the two   *)
(* holds here, and what is proved below joins them.                         *)
(***************************************************************************)
EXTENDS Enforcement, GovernanceProofs, ExecutorProofs

-----------------------------------------------------------------------------
(* The inductive invariants.                                               *)

\* A request is created with a sentence of the ladder and keeps it.
SentencesListed ==
  /\ \A r \in Requests : reqState[r] # "none" => reqTTL[r] \in TTLs
  /\ \A c \in Clerks : At(c, "insert") => clerk[c].ttl \in TTLs

ControlInv == GovInv /\ SentencesListed

\* A rule is in the kernel under the key of its request only, and the request
\* has a row.
RulesHaveRows ==
  \A p \in DOMAIN globalBans : HasRow(globalBans[p].rule) /\ p \in Keys(globalBans[p].rule)

\* No entry of the kernel carries the rule.
Unenforced(r) == \A p \in DOMAIN globalBans : globalBans[p].rule # r

\* A clean rollback leaves no entry of its rule: not when it has deleted its
\* key, and not when it has written its state.
CleanIsLifted ==
  /\ \A r \in Rules : rollback[r] = "clean" => Unenforced(r)
  /\ \A v \in Revokers :
       revoker[v] # Free /\ revoker[v].settled /\ revoker[v].left = << >>
         => Unenforced(revoker[v].req)

EnfInv == ControlInv /\ ExecInv /\ RulesHaveRows /\ CleanIsLifted

-----------------------------------------------------------------------------
(* The control plane: a step of Governance, or the end of the process.      *)

HandlersEnd ==
  /\ clerk' = [c \in Clerks |-> Idle]
  /\ mu' = NoClerk
  /\ UNCHANGED <<tableVars, stops>>

\* The loop, the process and the clock leave the rows of the tables alone.
LEMMA ExecutorKeepsRows ==
  ASSUME ExecutorSteps \/ Exit PROVE UNCHANGED dispatches
BY DEF ExecutorSteps, Loop, Poll, Apply, ensureTarget, ensureTarget_Put, ensureTarget_Remember,
  Apply_Put, markAcked, markFailed, MarkFails, Settled, Stop, CloseXDP, Reboot, Start, Tick, Exit

\* A step of the whole is a step of the handlers, or the end of all of them.
LEMMA ControlSteps ==
  ASSUME [EnfNext]_enfVars PROVE [GovNext]_govVars \/ HandlersEnd
<1>1. Requests = Rules
  BY EnforcementAssumption DEF EnforcementAssumption
<1>2. ASSUME NEW c \in Clerks, NEW r \in Rules, Receive(c, r) PROVE GovNext
  BY <1>1, <1>2 DEF Receive, GovNext
<1>3. ASSUME NEW c \in Clerks, Handle(c) \/ Rollback(c) \/ HandlerStops(c) PROVE GovNext
  BY <1>3 DEF Handle, Rollback, HandlerStops, GovNext, Continue
<1>4. CASE Surroundings
  BY <1>1, <1>4 DEF Surroundings, GovNext
<1>5. CASE ExecutorSteps
  <2>1. UNCHANGED controlVars
    BY <1>5 DEF ExecutorSteps
  <2> QED
    BY <1>5, <2>1, ExecutorKeepsRows DEF controlVars, handlerVars, govVars, tableVars
<1>6. CASE ProcessEnds
  BY <1>6, ExecutorKeepsRows DEF ProcessEnds, HandlersEnd, tableVars
<1>7. CASE UNCHANGED enfVars
  BY <1>7 DEF enfVars, execVars, controlVars, handlerVars, govVars, tableVars
<1> QED
  BY <1>2, <1>3, <1>4, <1>5, <1>6, <1>7 DEF EnfNext

\* The handlers may all stop at once.
LEMMA EndKeepsGovInv == GovInv /\ HandlersEnd => GovInv'
<1> SUFFICES ASSUME GovInv, HandlersEnd PROVE GovInv'
  OBVIOUS
<1>1. /\ GovTypeOK /\ NoClerk \notin Clerks
      /\ UNCHANGED <<reqState, effective, token, dispatches>>
      /\ \A c \in Clerks : clerk'[c].pc = "idle"
  BY GovernanceAssumption DEF GovernanceAssumption, GovInv, HandlersEnd, tableVars, Idle
<1>2. GovTypeOK'
  BY <1>1, IdleType DEF HandlersEnd, GovTypeOK, tableVars
<1>3. LockDiscipline'
  BY <1>1 DEF HandlersEnd, LockDiscipline, LockedSteps
<1>4. InsertingOnce' /\ RollbackOfRow' /\ DispatchingOnce'
  BY <1>1 DEF InsertingOnce, RollbackOfRow, DispatchingOnce, At
<1>5. ApprovedFirst' /\ VetoedNeverDispatched' /\ SpentLinkDecided'
  BY <1>1 DEF GovInv, ApprovedFirst, VetoedNeverDispatched, SpentLinkDecided, HasRow
<1> QED
  BY <1>2, <1>3, <1>4, <1>5 DEF GovInv

\* Every sentence the ladder hands out is one that bans may have.
LEMMA NextTTLListed == ASSUME NEW row \in LadderRows PROVE NextTTL(row) \in TTLs
<1>1. \A level \in Levels : LevelTTL(level) \in TTLs
  BY EnforcementAssumption, EscalationAssumption
     DEF EnforcementAssumption, EscalationAssumption, Levels, TopLevel, LevelTTL
<1>2. CASE row.observing /\ row.level < TopLevel
  <2>1. row.level + 1 \in Levels
    BY <1>2, TopLevelType DEF LadderRows, Levels
  <2> QED
    BY <1>1, <1>2, <2>1 DEF NextTTL
<1>3. CASE ~(row.observing /\ row.level < TopLevel)
  BY <1>1, <1>3 DEF NextTTL, LadderRows
<1> QED
  BY <1>2, <1>3

\* A request that was there is there, with the sentence it had.
LEMMA SentenceStays ==
  ASSUME GovInv, NEW c \in Clerks, Continue(c), ~banCreate_Insert(c)
  PROVE  /\ UNCHANGED reqTTL
         /\ \A r \in Requests : reqState'[r] # "none" => reqState[r] # "none"
         /\ clerk'[c].pc # "insert"
<1>1. /\ reqState \in [Requests -> ReqStates] /\ clerk[c].req \in Requests
      /\ clerk \in [Clerks -> ClerkRecords]
  BY DEF GovInv, GovTypeOK, ClerkRecords
<1>2. Return(c) => clerk'[c].pc = "idle"
  BY <1>1 DEF Return, Idle
<1>3. ASSUME NEW step, Goto(c, step) PROVE clerk'[c].pc = step
  BY <1>1, <1>3 DEF Goto, ClerkRecords
<1>4. CASE banApprove_Commit(c)
  BY <1>1, <1>2, <1>3, <1>4 DEF banApprove_Commit, Activate, Conflict
<1>5. CASE approveDo_Approve(c)
  BY <1>1, <1>3, <1>5 DEF approveDo_Approve, Activate
<1>6. CASE approveDo_Reject(c) \/ banReject_Commit(c)
  BY <1>1, <1>2, <1>6 DEF approveDo_Reject, banReject_Commit, LinkUsable
<1>7. CASE CreateDispatch_Veto(c)
  <2>1. reqState[clerk[c].req] # "none"
    BY <1>1, <1>7 DEF CreateDispatch_Veto, GovInv, DispatchingOnce, ApprovedFirst
  <2> QED
    BY <1>1, <1>2, <1>7, <2>1 DEF CreateDispatch_Veto
<1>8. CASE lookupRollback_Reject(c) \/ lookupRollback_Revoke(c)
  <2>1. reqState[clerk[c].req] # "none"
    BY <1>8 DEF lookupRollback_Reject, lookupRollback_Revoke, GovInv, RollbackOfRow, At
  <2> QED
    BY <1>1, <1>2, <1>8, <2>1 DEF lookupRollback_Reject, lookupRollback_Revoke
<1>9. CASE UNCHANGED <<reqState, reqTTL>> /\ (Return(c) \/ Goto(c, "ladder") \/ Goto(c, "roll_revoke"))
  BY <1>2, <1>3, <1>9
<1>10. CASE recordLadder(c)
  BY <1>1, <1>10 DEF recordLadder, tableVars, ClerkRecords
<1> QED
  BY <1>4, <1>5, <1>6, <1>7, <1>8, <1>9, <1>10 DEF Continue, GenTokensAndSend, approveDo_Conflict,
    Conflict, CreateDispatch, recordLadder_Write, lookupRollback_Delete, tableVars

\* Every row is ordered with a sentence of the ladder.
LEMMA SentenceStep ==
  ASSUME ControlInv, [GovNext]_govVars \/ HandlersEnd PROVE SentencesListed'
<1>1. GovInv /\ GovTypeOK /\ SentencesListed
  BY DEF ControlInv, GovInv
<1>2. \A c \in Clerks : clerk[c].req \in Requests /\ clerk[c].pc \in Steps
  BY <1>1 DEF GovTypeOK, ClerkRecords
<1>3. ASSUME NEW c \in Clerks, banCreate_Insert(c) PROVE SentencesListed'
  <2>1. clerk'[c].pc = "mail" /\ \A d \in Clerks \ {c} : clerk'[d] = clerk[d]
    BY <1>1, <1>3 DEF banCreate_Insert, Goto, GovTypeOK, ClerkRecords
  <2>2. clerk[c].ttl \in TTLs
    BY <1>1, <1>3 DEF banCreate_Insert, SentencesListed
  <2>3. \A r \in Requests : reqState'[r] # "none" => reqTTL'[r] \in TTLs
    BY <1>1, <1>2, <1>3, <2>2 DEF banCreate_Insert, SentencesListed, GovTypeOK
  <2> QED
    BY <1>1, <2>1, <2>3 DEF SentencesListed, At
<1>4. ASSUME NEW c \in Clerks, Continue(c), ~banCreate_Insert(c) PROVE SentencesListed'
  <2>1. \A d \in Clerks \ {c} : clerk'[d] = clerk[d]
    BY <1>1, <1>4, OwnRecord
  <2> QED
    BY <1>1, <1>4, <2>1, SentenceStays DEF SentencesListed, At
<1>5. ASSUME NEW c \in Clerks, NEW r \in Requests, Arrive(c, r) PROVE SentencesListed'
  <2>1. \A d \in Clerks \ {c} : clerk'[d] = clerk[d]
    BY <1>1, <1>5, OwnRecord
  <2>2. UNCHANGED <<reqState, reqTTL>>
    BY <1>5 DEF Arrive, banCreate, banApprove, approveDo, banReject, lookupRollback, tableVars
  <2>3. clerk'[c].pc = "insert" => clerk'[c].ttl \in TTLs
    <3>1. CASE banCreate(c, r)
      <4>1. ladder[TargetOf[r]] \in LadderRows
        BY <1>1, GovernanceAssumption DEF GovernanceAssumption, GovTypeOK
      <4>2. clerk'[c].ttl = NextTTL(ladder[TargetOf[r]])
        BY <1>1, <3>1, IdleType DEF banCreate, GovTypeOK, ClerkRecords
      <4> QED
        BY <4>1, <4>2, NextTTLListed
    <3>2. ASSUME NEW step, step # "insert", Begin(c, step, r) PROVE clerk'[c].pc # "insert"
      BY <1>1, <3>2, IdleType DEF Begin, GovTypeOK, ClerkRecords
    <3> QED
      BY <1>5, <3>1, <3>2 DEF Arrive, banApprove, approveDo, banReject, lookupRollback
  <2> QED
    BY <1>1, <2>1, <2>2, <2>3 DEF SentencesListed, At
<1>6. ASSUME NEW c \in Clerks, Abort(c) PROVE SentencesListed'
  <2>1. /\ \A d \in Clerks \ {c} : clerk'[d] = clerk[d]
        /\ clerk'[c].pc = "idle" /\ UNCHANGED <<reqState, reqTTL>>
    BY <1>1, <1>6, OwnRecord DEF Abort, Return, Idle, GovTypeOK, tableVars
  <2> QED
    BY <1>1, <2>1 DEF SentencesListed, At
<1>7. CASE HandlersEnd
  BY <1>1, <1>7 DEF HandlersEnd, SentencesListed, At, Idle, tableVars
<1>8. CASE UNCHANGED <<reqState, reqTTL, clerk>>
  BY <1>1, <1>8 DEF SentencesListed, At
<1> QED
  BY <1>3, <1>4, <1>5, <1>6, <1>7, <1>8 DEF GovNext, TokenExpires, ObserveEnds, Protect,
    govVars, tableVars

\* It holds before the first request.
LEMMA ControlInit == EnfInit => ControlInv
<1> SUFFICES ASSUME GovInit PROVE ControlInv
  BY DEF EnfInit
<1>1. GovInv
  BY GovTypeInit, LockInit, DataInit DEF GovInv, DataInv
<1>2. SentencesListed
  BY DEF GovInit, SentencesListed, At, Idle
<1> QED
  BY <1>1, <1>2 DEF ControlInv

\* Neither the handlers nor a crash of the process break it.
LEMMA ControlStep == ControlInv /\ [EnfNext]_enfVars => ControlInv'
<1> SUFFICES ASSUME ControlInv, [EnfNext]_enfVars PROVE ControlInv'
  OBVIOUS
<1>1. [GovNext]_govVars \/ HandlersEnd
  BY ControlSteps
<1>2. GovInv'
  BY <1>1, GovTypeStep, LockStep, DataStep, EndKeepsGovInv DEF ControlInv, GovInv, DataInv
<1> QED
  BY <1>1, <1>2, SentenceStep DEF ControlInv

\* So it always holds.
LEMMA ControlInvariant == EnfSpec => []ControlInv
BY ControlInit, ControlStep, PTL DEF EnfSpec

\* In the composition the handlers keep the promises that Governance makes of
\* them, crashes of the process and the loop at their side included: decideMu is
\* never left behind, a vetoed request has no row, a spent link has decided.
THEOREM HandlersKeepPromises ==
  EnfSpec => [](GovTypeOK /\ LockDiscipline /\ VetoedNeverDispatched /\ SpentLinkDecided)
<1>1. ControlInv => GovTypeOK /\ LockDiscipline /\ VetoedNeverDispatched /\ SpentLinkDecided
  BY DEF ControlInv, GovInv
<1> QED
  BY <1>1, ControlInvariant, PTL

\* And the lifecycle is the one of BanLifecycle: one approval, one row, no return.
THEOREM EnforcementImplementsLifecycle == EnfSpec => ImplementsLifecycle
<1>1. EnfInit => Lifecycle!LifecycleInit
  BY LifecycleStart DEF EnfInit
<1>2. ControlInv /\ [EnfNext]_enfVars => [Lifecycle!LifecycleNext]_(Lifecycle!lifecycleVars)
  <2> SUFFICES ASSUME ControlInv, [EnfNext]_enfVars
               PROVE  [Lifecycle!LifecycleNext]_(Lifecycle!lifecycleVars)
    OBVIOUS
  <2>1. CASE [GovNext]_govVars
    BY <2>1, LifecycleStep DEF ControlInv
  <2>2. CASE HandlersEnd
    <3>1. UNCHANGED <<reqState, effective, dispatches>>
      BY <2>2 DEF HandlersEnd, tableVars
    <3> QED
      BY <3>1 DEF Lifecycle!lifecycleVars, RowsOf
  <2> QED
    BY <2>1, <2>2, ControlSteps
<1> QED
  BY <1>1, <1>2, ControlInvariant, PTL DEF EnfSpec, ImplementsLifecycle, Lifecycle!LifecycleSpec

-----------------------------------------------------------------------------
(* The execution plane: every step is a step of Executor.                   *)

\* What a handler does to the rows is what Executor says of the control plane:
\* nothing, or one new row, for a request without one, with a sentence in TTLs.
LEMMA HandlerRows ==
  ASSUME ControlInv, NEW c \in Clerks, Continue(c)
  PROVE  \/ UNCHANGED dispatches
         \/ \E r \in Rules, ttl \in TTLs :
              ~HasRow(r) /\ dispatches' = Append(dispatches, [req |-> r, ttl |-> ttl])
<1>1. CASE CreateDispatch(c)
  <2> DEFINE r == clerk[c].req
  <2>1. r \in Requests /\ Requests = Rules
    BY EnforcementAssumption
       DEF EnforcementAssumption, ControlInv, GovInv, GovTypeOK, ClerkRecords
  <2>2. r \in effective /\ ~HasRow(r)
    BY <1>1 DEF CreateDispatch, ControlInv, GovInv, DispatchingOnce
  <2>3. reqTTL[r] \in TTLs
    BY <2>1, <2>2 DEF ControlInv, GovInv, ApprovedFirst, SentencesListed
  <2>4. dispatches' = Append(dispatches, [req |-> r, ttl |-> reqTTL[r]])
    BY <1>1, <2>2 DEF CreateDispatch
  <2> QED
    BY <2>1, <2>2, <2>3, <2>4
<1>2. CASE ~CreateDispatch(c)
  BY <1>2 DEF Continue, banCreate_Insert, GenTokensAndSend, banApprove_Commit, approveDo_Reject,
    approveDo_Approve, approveDo_Conflict, CreateDispatch_Veto, recordLadder, recordLadder_Write,
    banReject_Commit, lookupRollback_Reject, lookupRollback_Delete, lookupRollback_Revoke, tableVars
<1> QED
  BY <1>1, <1>2

\* A step of the whole is a step of the executor and the rollbacks, or none of theirs.
LEMMA ExecutorStep ==
  ASSUME ControlInv, [EnfNext]_enfVars PROVE [ExecNext]_execVars
<1>1. Requests = Rules /\ Revokers = Clerks
  BY EnforcementAssumption DEF EnforcementAssumption
<1> DEFINE Quiet == UNCHANGED <<executorOwn, rollbackOwn>>
<1>2. Quiet /\ UNCHANGED dispatches => UNCHANGED execVars
  BY DEF executorOwn, rollbackOwn, execVars, kernelVars, kernelMaps
<1>3. ASSUME NEW c \in Clerks, NEW r \in Rules, Receive(c, r) PROVE [ExecNext]_execVars
  <2>1. UNCHANGED dispatches
    BY <1>3 DEF Receive, Arrive, banCreate, banApprove, approveDo, banReject, lookupRollback, tableVars
  <2>2. Revoke(c, r) \/ Quiet
    BY <1>3 DEF Receive
  <2> QED
    BY <1>1, <1>2, <2>1, <2>2 DEF ExecNext, Rollbacks
<1>4. ASSUME NEW c \in Clerks, Handle(c) PROVE [ExecNext]_execVars
  <2>1. Continue(c) /\ Running /\ Quiet
    BY <1>4 DEF Handle
  <2>2. CASE UNCHANGED dispatches
    BY <1>2, <2>1, <2>2
  <2>3. ASSUME NEW r \in Rules, NEW ttl \in TTLs,
               ~HasRow(r), dispatches' = Append(dispatches, [req |-> r, ttl |-> ttl])
        PROVE  [ExecNext]_execVars
    <3>1. Enqueue(r, ttl)
      BY <2>1, <2>3 DEF Enqueue, executorOwn, rollbackOwn, kernelVars, kernelMaps
    <3> QED
      BY <2>3, <3>1 DEF ExecNext
  <2> QED
    BY <2>1, <2>2, <2>3, HandlerRows
<1>5. ASSUME NEW c \in Clerks, Rollback(c) PROVE [ExecNext]_execVars
  BY <1>1, <1>5 DEF Rollback, ExecNext, Rollbacks
<1>6. ASSUME NEW c \in Clerks, HandlerStops(c) PROVE [ExecNext]_execVars
  <2>1. UNCHANGED dispatches /\ (Revoke_GivesUp(c) \/ Quiet)
    BY <1>6 DEF HandlerStops, Abort, tableVars
  <2> QED
    BY <1>1, <1>2, <2>1 DEF ExecNext, Rollbacks
<1>7. CASE Surroundings
  BY <1>2, <1>7 DEF Surroundings, TokenExpires, ObserveEnds, Protect
<1>8. CASE ExecutorSteps
  BY <1>8 DEF ExecutorSteps, ExecNext, Process
<1>9. CASE ProcessEnds
  BY <1>9 DEF ProcessEnds, ExecNext, Process
<1>10. CASE UNCHANGED enfVars
  BY <1>10 DEF enfVars
<1> QED
  BY <1>3, <1>4, <1>5, <1>6, <1>7, <1>8, <1>9, <1>10 DEF EnfNext

\* The handlers are an environment that Executor allows: whatever is proved of the
\* loop, the maps and the process there holds of the whole path.
THEOREM EnforcementRunsExecutor == EnfSpec => ExecSpec
<1>1. EnfInit => ExecInit
  BY DEF EnfInit
<1>2. ControlInv /\ [EnfNext]_enfVars => [ExecNext]_execVars
  BY ExecutorStep
<1> QED
  BY <1>1, <1>2, ControlInvariant, PTL DEF EnfSpec, ExecSpec

-----------------------------------------------------------------------------
(* The two together.                                                       *)

\* A request of this path bans one prefix, from every host.
LEMMA OneKey ==
  ASSUME NEW r \in Rules PROVE IsGlobal(r) /\ Keys(r) = {TargetOf[r]} /\ PrefixesOf[r] # << >>
<1>1. HostOf[r] = NoHost /\ PrefixesOf[r] = <<TargetOf[r]>>
  BY EnforcementAssumption DEF EnforcementAssumption
<1> QED
  BY <1>1 DEF IsGlobal, Keys

\* A write is for a request that has a row and that the executor is not done with.
LEMMA WrittenRule ==
  ASSUME ExecInv, WritesKey
  PROVE  \E r \in Rules, at \in Nat, ttl \in Nat :
           /\ HasRow(r) /\ ~Finished(r)
           /\ PutGlobal(TargetOf[r], EncodeValue(at, ttl, r))
<1>1. ExecTypeOK
  BY DEF ExecInv
<1>2. PICK i \in batch : \E p \in Keys(dispatches[i].req) :
        WriteKey(dispatches[i].req, p, EncodeValue(job.at, dispatches[i].ttl, dispatches[i].req))
  BY DEF WritesKey
<1> DEFINE r == dispatches[i].req
           ttl == dispatches[i].ttl
<1>3. r \in Rules /\ ttl \in Nat /\ job.at \in Nat /\ HasRow(r) /\ ~AllSettled(r)
  BY <1>1, RowTyped, CurrentPending DEF ExecTypeOK, Jobs
<1>4. PutGlobal(TargetOf[r], EncodeValue(job.at, ttl, r))
  BY <1>2, <1>3, OneKey DEF WriteKey
<1> QED
  BY <1>3, <1>4 DEF Finished

\* A write puts the rule of its row, and every other step leaves or drops entries.
LEMMA EntryEffect ==
  ASSUME ExecInv, [ExecNext]_execVars, NEW p \in DOMAIN globalBans'
  PROVE  \/ p \in DOMAIN globalBans /\ globalBans'[p] = globalBans[p]
         \/ \E r \in Rules :
              HasRow(r) /\ ~Finished(r) /\ p = TargetOf[r] /\ globalBans'[p].rule = r
<1>1. CASE UNCHANGED kernelMaps \/ GivesId
  BY <1>1 DEF kernelMaps, GivesId, PutTarget
<1>2. CASE WritesKey
  <2>1. PICK r \in Rules, at \in Nat, ttl \in Nat :
          HasRow(r) /\ ~Finished(r) /\ PutGlobal(TargetOf[r], EncodeValue(at, ttl, r))
    BY <1>2, WrittenRule
  <2> QED
    BY <2>1 DEF PutGlobal, SetKey, EncodeValue
<1>3. CASE DeletesKey
  BY <1>3 DEF DeletesKey, DeleteKey, DeleteGlobal, DeleteScoped, DropKey
<1>4. CASE LosesMaps
  BY <1>4 DEF LosesMaps, kernelMaps
<1> QED
  BY <1>1, <1>2, <1>3, <1>4, StepEffect

\* A rule in the map always comes from a row of the table.
LEMMA RowsStep == ExecInv /\ RulesHaveRows /\ [ExecNext]_execVars => RulesHaveRows'
<1> SUFFICES ASSUME ExecInv, RulesHaveRows, [ExecNext]_execVars, NEW p \in DOMAIN globalBans',
                    NEW r, r = globalBans'[p].rule
             PROVE  HasRow(r)' /\ p \in Keys(r)
  BY DEF RulesHaveRows, HasRow, Keys
<1>1. HasRow(r) => HasRow(r)'
  BY RowsStay DEF HasRow
<1>2. HasRow(r) /\ p \in Keys(r)
  BY EntryEffect, OneKey DEF RulesHaveRows
<1> QED
  BY <1>1, <1>2

\* Nobody writes the rule of a request the executor is done with.
LEMMA UnenforcedStays ==
  ASSUME ExecInv, [ExecNext]_execVars, NEW r \in Rules, Finished(r), Unenforced(r)
  PROVE  Unenforced(r)'
BY EntryEffect DEF Unenforced

\* A rollback that deletes the one key of its request takes its rule away.
LEMMA DeleteLifts ==
  ASSUME ExecInv, RulesHaveRows, NEW r \in Rules, DeleteKey(r, TargetOf[r])
  PROVE  Unenforced(r)'
<1>1. globalBans' = DropKey(globalBans, TargetOf[r])
  BY OneKey DEF DeleteKey, DeleteGlobal
<1>2. \A p \in DOMAIN globalBans : globalBans[p].rule = r => p = TargetOf[r]
  BY OneKey DEF RulesHaveRows
<1> QED
  BY <1>1, <1>2 DEF Unenforced, DropKey

\* A request whose rollback came out clean stays out of the map.
LEMMA LiftedStep ==
  ExecInv /\ RulesHaveRows /\ CleanIsLifted /\ [ExecNext]_execVars => CleanIsLifted'
<1> SUFFICES ASSUME ExecInv, RulesHaveRows, CleanIsLifted, [ExecNext]_execVars
             PROVE  CleanIsLifted'
  OBVIOUS
<1>1. CleanIsFinished /\ revoker \in [Revokers -> {Free} \union Deletions]
  BY DEF ExecInv, ExecTypeOK
<1>2. ASSUME NEW r \in Rules, rollback'[r] = "clean" PROVE Unenforced(r)'
  <2>1. Finished(r) /\ Unenforced(r)
    BY <1>1, <1>2, CleanEffect DEF CleanIsFinished, CleanIsLifted
  <2> QED
    BY <2>1, UnenforcedStays
<1>3. ASSUME NEW v \in Revokers, revoker'[v] # Free, revoker'[v].settled, revoker'[v].left = << >>,
             NEW r, r = revoker'[v].req
      PROVE  Unenforced(r)'
  <2>1. CASE revoker'[v] = revoker[v]
    <3>1. r \in Rules /\ Finished(r) /\ Unenforced(r)
      BY <1>1, <1>3, <2>1 DEF Deletions, CleanIsFinished, CleanIsLifted
    <3> QED
      BY <3>1, UnenforcedStays
  <2>2. ASSUME NEW q \in Rules, Revoke(v, q) PROVE FALSE
    <3>1. revoker'[v].left = PrefixesOf[q]
      BY <1>1, <2>2, OneKey DEF Revoke
    <3> QED
      BY <1>3, <3>1, OneKey
  <2>3. CASE /\ Revoke_Delete(v)
             /\ DeleteKey(revoker[v].req, Head(revoker[v].left))
             /\ revoker'[v] = [revoker[v] EXCEPT !.left = Tail(@)]
    <3>1. revoker[v] \in Deletions /\ Head(revoker[v].left) \in Keys(revoker[v].req)
      BY <2>3, DeleteEffect
    <3>2. r \in Rules /\ r = revoker[v].req
      BY <1>3, <2>3, <3>1 DEF Deletions
    <3>3. DeleteKey(r, TargetOf[r])
      BY <2>3, <3>1, <3>2, OneKey
    <3> QED
      BY <3>2, <3>3, DeleteLifts
  <2> QED
    BY <1>3, <2>1, <2>2, <2>3, RevokerEffect
<1> QED
  BY <1>2, <1>3 DEF CleanIsLifted, Unenforced

\* Both halves and what they know of each other, taken together.
LEMMA EnfInvariant == EnfSpec => []EnfInv
<1>1. EnfInit => EnfInv
  <2> SUFFICES ASSUME EnfInit PROVE EnfInv
    OBVIOUS
  <2>1. ControlInv /\ ExecInv
    BY ControlInit, InitInv DEF EnfInit
  <2>2. globalBans = << >> /\ (\A r \in Rules : rollback[r] = "no")
        /\ (\A v \in Revokers : revoker[v] = Free)
    BY DEF EnfInit, ExecInit, KernelInit
  <2> QED
    BY <2>1, <2>2 DEF EnfInv, RulesHaveRows, CleanIsLifted
<1>2. EnfInv /\ [EnfNext]_enfVars => EnfInv'
  BY ControlStep, ExecutorStep, StepInv, RowsStep, LiftedStep DEF EnfInv
<1> QED
  BY <1>1, <1>2, PTL DEF EnfSpec

\* No packet is dropped on the word of a request nobody approved or one that was
\* vetoed, and none of a prefix nobody asked for.
THEOREM EnforcedWasApproved == EnfSpec => []OnlyApprovedIsEnforced
<1>1. EnfInv => OnlyApprovedIsEnforced
  <2> SUFFICES ASSUME EnfInv, NEW p \in DOMAIN globalBans, NEW r, r = globalBans[p].rule
               PROVE  r \in effective /\ reqState[r] # "safety_blocked" /\ TargetOf[r] = p
    BY DEF OnlyApprovedIsEnforced
  <2>1. r \in Rules /\ Requests = Rules
    BY EnforcementAssumption
       DEF EnforcementAssumption, EnfInv, ExecInv, ExecTypeOK, KernelTypeOK, Values
  <2>2. HasRow(r) /\ p \in Keys(r)
    BY DEF EnfInv, RulesHaveRows
  <2> QED
    BY <2>1, <2>2, OneKey
       DEF EnfInv, ControlInv, GovInv, ApprovedFirst, VetoedNeverDispatched
<1> QED
  BY <1>1, EnfInvariant, PTL

\* A request whose rollback began when the executor was done with it has no rule in
\* the kernel once it says "revoked", nor ever again.
THEOREM RevokedStaysGone == EnfSpec => []RevokedRuleIsGone
<1>1. EnfInv => RevokedRuleIsGone
  BY DEF EnfInv, CleanIsLifted, Unenforced, RevokedRuleIsGone
<1> QED
  BY <1>1, EnfInvariant, PTL

=============================================================================
