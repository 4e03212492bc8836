-------------------------- MODULE GovernanceProofs --------------------------
(***************************************************************************)
(* Theorems about Governance, for any number of requests, targets and       *)
(* handlers and any ladder.                                                 *)
(*                                                                         *)
(* LockDiscipline is inductive once the types are known.  The others rest   *)
(* on GovInv: what a handler that is between two of its statements may      *)
(* still rely on, although others have run since its last read.             *)
(***************************************************************************)
EXTENDS Governance, FiniteSetTheorems, TLAPS

-----------------------------------------------------------------------------
(* The inductive invariant.                                                *)

\* The row of a request that is being inserted is not there yet, and only one
\* handler inserts it.
InsertingOnce ==
  /\ \A c \in Clerks : At(c, "insert") => reqState[clerk[c].req] = "none"
  /\ \A c, d \in Clerks :
       At(c, "insert") /\ At(d, "insert") /\ clerk[c].req = clerk[d].req => c = d

\* A rollback is always of a request that exists.
RollbackOfRow ==
  \A c \in Clerks : clerk[c].pc \in {"roll_reject", "roll_delete", "roll_revoke"}
    => reqState[clerk[c].req] # "none"

\* The request whose dispatch is about to be created was approved, has no row
\* and was not vetoed before.
DispatchingOnce ==
  \A c \in Clerks : At(c, "dispatch") =>
    /\ clerk[c].req \in effective
    /\ ~HasRow(clerk[c].req)
    /\ reqState[clerk[c].req] # "safety_blocked"

\* Undecided requests were never approved, and only approved ones have rows.
ApprovedFirst ==
  \A r \in Requests :
    /\ reqState[r] \in {"none", "pending"} => r \notin effective
    /\ HasRow(r) => r \in effective

GovInv ==
  /\ GovTypeOK
  /\ LockDiscipline
  /\ InsertingOnce
  /\ RollbackOfRow
  /\ DispatchingOnce
  /\ ApprovedFirst
  /\ VetoedNeverDispatched
  /\ SpentLinkDecided

-----------------------------------------------------------------------------
(* The ladder and the records.                                             *)

\* The ladder has a first level.
LEMMA TopLevelType == TopLevel \in Nat
BY EscalationAssumption DEF EscalationAssumption, TopLevel

\* Each level has a sentence.
LEMMA LevelTTLType == ASSUME NEW level \in Levels PROVE LevelTTL(level) \in Nat
BY EscalationAssumption DEF EscalationAssumption, Levels, TopLevel, LevelTTL

\* Registering a ban never leaves the ladder at either end.
LEMMA RegisterBanType ==
  ASSUME NEW row \in LadderRows PROVE RegisterBan(row) \in LadderRows
<1> DEFINE level == IF ~row.observing THEN row.level
                    ELSE IF row.level + 1 > TopLevel THEN TopLevel ELSE row.level + 1
<1>1. level \in Levels
  BY TopLevelType DEF LadderRows, Levels
<1>2. row.offenses + 1 \in Nat
  BY DEF LadderRows
<1>3. (LevelTTL(level) > 0) \in BOOLEAN
  BY <1>1, LevelTTLType
<1> QED
  BY <1>1, <1>2, <1>3 DEF RegisterBan, LadderRows

\* The sentence a request is created with is one of the ladder.
LEMMA NextTTLType == ASSUME NEW row \in LadderRows PROVE NextTTL(row) \in Nat
<1>1. CASE row.observing /\ row.level < TopLevel
  <2>1. row.level + 1 \in Levels
    BY <1>1, TopLevelType DEF LadderRows, Levels
  <2> QED
    BY <1>1, <2>1, LevelTTLType DEF NextTTL
<1>2. CASE ~(row.observing /\ row.level < TopLevel)
  <2>1. row.level \in Levels
    BY DEF LadderRows
  <2> QED
    BY <1>2, <2>1, LevelTTLType DEF NextTTL
<1> QED
  BY <1>1, <1>2

\* A target that was never banned is on the first level.
LEMMA NoRowType == NoRow \in LadderRows
BY TopLevelType DEF NoRow, LadderRows, Levels

\* So is a handler at rest well formed.
LEMMA IdleType == Idle \in ClerkRecords
BY NoRowType, GovernanceAssumption DEF GovernanceAssumption, Idle, ClerkRecords, Steps

\* A handler that moves on keeps a well-formed record.
LEMMA MoveType ==
  ASSUME NEW rec \in ClerkRecords, NEW step \in Steps, NEW row \in LadderRows
  PROVE  /\ [rec EXCEPT !.pc = step] \in ClerkRecords
         /\ [rec EXCEPT !.pc = step, !.row = row] \in ClerkRecords
BY DEF ClerkRecords

\* And so does one that begins.
LEMMA BeginType ==
  ASSUME NEW step \in Steps, NEW r \in Requests, NEW n \in Nat
  PROVE  /\ [Idle EXCEPT !.pc = step, !.req = r] \in ClerkRecords
         /\ [Idle EXCEPT !.pc = step, !.req = r, !.ttl = n] \in ClerkRecords
BY IdleType DEF ClerkRecords

-----------------------------------------------------------------------------
(* Types.                                                                  *)

\* The tables are well formed at the start.
LEMMA GovTypeInit == GovInit => GovTypeOK
BY IdleType, NoRowType DEF GovInit, GovTypeOK, ReqStates, Tokens

\* And no step of a handler, or of the world outside, changes that.
LEMMA GovTypeStep == GovTypeOK /\ [GovNext]_govVars => GovTypeOK'
<1> SUFFICES ASSUME GovTypeOK, [GovNext]_govVars PROVE GovTypeOK'
  OBVIOUS
<1> USE DEF GovTypeOK, tableVars
<1>1. ASSUME NEW c \in Clerks, Continue(c) PROVE GovTypeOK'
  <2> DEFINE r == clerk[c].req
  <2>1. /\ clerk[c] \in ClerkRecords
        /\ r \in Requests
        /\ clerk[c].ttl \in Nat
        /\ clerk[c].row \in LadderRows
        /\ TargetOf[r] \in Targets
    BY GovernanceAssumption DEF GovernanceAssumption, ClerkRecords
  <2>2. \A step \in Steps : [clerk EXCEPT ![c].pc = step] \in [Clerks -> ClerkRecords]
    BY <2>1, MoveType
  <2>3. [clerk EXCEPT ![c] = Idle] \in [Clerks -> ClerkRecords]
    BY IdleType
  <2>4. Return(c) => mu' \in Clerks \union {NoClerk} /\ clerk' \in [Clerks -> ClerkRecords]
    BY <2>3 DEF Return
  <2>5. CASE banCreate_Insert(c)
    BY <2>5, <2>1, <2>2 DEF banCreate_Insert, Goto, ReqStates, Steps
  <2>6. CASE GenTokensAndSend(c)
    BY <2>6, <2>1, <2>4 DEF GenTokensAndSend, Tokens
  <2>7. CASE banApprove_Commit(c)
    <3>1. CASE Activate(r) /\ Goto(c, "dispatch") /\ UNCHANGED mu
      BY <2>7, <2>1, <2>2, <3>1 DEF banApprove_Commit, Activate, Goto, ReqStates, Steps, LockedSteps
    <3>2. CASE Conflict(c) /\ UNCHANGED <<reqState, effective>>
      BY <2>7, <2>4, <3>2 DEF banApprove_Commit, Conflict
    <3> QED
      BY <2>7, <3>1, <3>2 DEF banApprove_Commit
  <2>8. CASE approveDo_Reject(c)
    BY <2>8, <2>1, <2>4 DEF approveDo_Reject, ReqStates, Tokens
  <2>9. CASE approveDo_Approve(c)
    BY <2>9, <2>1, <2>2 DEF approveDo_Approve, Lock, Activate, Goto, ReqStates, Tokens, Steps, LockedSteps
  <2>10. CASE approveDo_Conflict(c)
    BY <2>10, <2>4 DEF approveDo_Conflict, Conflict
  <2>11. CASE CreateDispatch_Veto(c)
    BY <2>11, <2>1, <2>4 DEF CreateDispatch_Veto, ReqStates
  <2>12. CASE CreateDispatch(c)
    <3>1. [req |-> r, ttl |-> reqTTL[r]] \in DispatchRows
      BY <2>1 DEF DispatchRows
    <3>2. dispatches' \in Seq(DispatchRows)
      BY <2>12, <3>1 DEF CreateDispatch
    <3>3. clerk' \in [Clerks -> ClerkRecords]
      BY <2>12, <2>2 DEF CreateDispatch, Goto, Steps, LockedSteps
    <3> QED
      BY <2>12, <3>2, <3>3 DEF CreateDispatch
  <2>13. CASE recordLadder(c)
    BY <2>13, <2>1, MoveType DEF recordLadder, Steps, LockedSteps
  <2>14. CASE recordLadder_Write(c)
    BY <2>14, <2>1, <2>4, RegisterBanType DEF recordLadder_Write
  <2>15. CASE banReject_Commit(c)
    BY <2>15, <2>1, <2>4 DEF banReject_Commit, ReqStates
  <2>16. CASE lookupRollback_Reject(c)
    BY <2>16, <2>1, <2>4 DEF lookupRollback_Reject, ReqStates
  <2>17. CASE lookupRollback_Delete(c)
    BY <2>17, <2>2, <2>4 DEF lookupRollback_Delete, Goto, Steps
  <2>18. CASE lookupRollback_Revoke(c)
    BY <2>18, <2>1, <2>4 DEF lookupRollback_Revoke, ReqStates
  <2> QED
    BY <1>1, <2>5, <2>6, <2>7, <2>8, <2>9, <2>10, <2>11, <2>12, <2>13, <2>14, <2>15,
       <2>16, <2>17, <2>18 DEF Continue
<1>2. ASSUME NEW c \in Clerks, NEW r \in Requests, Arrive(c, r) PROVE GovTypeOK'
  <2>1. \A step \in Steps :
          [clerk EXCEPT ![c] = [Idle EXCEPT !.pc = step, !.req = r]] \in [Clerks -> ClerkRecords]
    BY BeginType
  <2>2. TargetOf[r] \in Targets
    BY GovernanceAssumption DEF GovernanceAssumption
  <2>3. CASE banCreate(c, r)
    <3>1. NextTTL(ladder[TargetOf[r]]) \in Nat
      BY <2>2, NextTTLType
    <3> QED
      BY <2>3, <3>1, BeginType DEF banCreate, Steps
  <2>4. CASE banApprove(c, r)
    BY <2>4, <2>1 DEF banApprove, Lock, Begin, Steps, LockedSteps
  <2>5. CASE approveDo(c, r, "mail_approve") \/ approveDo(c, r, "mail_reject")
    <3>1. PICK step \in {"mail_approve", "mail_reject"} : approveDo(c, r, step)
      BY <2>5
    <3>2. step \in Steps
      BY DEF Steps
    <3> QED
      BY <3>1, <3>2, <2>1 DEF approveDo, Begin
  <2>6. CASE banReject(c, r)
    BY <2>6, <2>1 DEF banReject, Lock, Begin, Steps, LockedSteps
  <2>7. CASE lookupRollback(c, r)
    BY <2>7, <2>1, ZenonT(60) DEF lookupRollback, Begin, Steps
  <2> QED
    BY <1>2, <2>3, <2>4, <2>5, <2>6, <2>7 DEF Arrive
<1>3. ASSUME NEW c \in Clerks, Abort(c) PROVE GovTypeOK'
  BY <1>3, IdleType DEF Abort, Return
<1>4. ASSUME NEW r \in Requests, TokenExpires(r) PROVE GovTypeOK'
  BY <1>4 DEF TokenExpires, Tokens
<1>5. ASSUME NEW t \in Targets, ObserveEnds(t) PROVE GovTypeOK'
  BY <1>5 DEF ObserveEnds, LadderRows
<1>6. ASSUME NEW t \in Targets, Protect(t) PROVE GovTypeOK'
  BY <1>6 DEF Protect
<1>7. CASE UNCHANGED govVars
  BY <1>7 DEF govVars
<1> QED
  BY <1>1, <1>2, <1>3, <1>4, <1>5, <1>6, <1>7 DEF GovNext

\* The tables and the records of the handlers are always well formed: states,
\* levels of the ladder and TTLs stay in range whatever handlers interleave.
THEOREM TypeCorrect == GovSpec => []GovTypeOK
BY GovTypeInit, GovTypeStep, PTL DEF GovSpec

-----------------------------------------------------------------------------
(* The lock.                                                               *)

\* A handler only ever changes its own record.
LEMMA OwnRecord ==
  ASSUME GovTypeOK, NEW c \in Clerks,
         Continue(c) \/ Abort(c) \/ \E r \in Requests : Arrive(c, r)
  PROVE  \A d \in Clerks \ {c} : clerk'[d] = clerk[d]
<1>1. CASE Continue(c)
  BY <1>1 DEF GovTypeOK, Continue, banCreate_Insert, GenTokensAndSend, banApprove_Commit,
    approveDo_Reject, approveDo_Approve, approveDo_Conflict, CreateDispatch_Veto, CreateDispatch,
    recordLadder, recordLadder_Write, banReject_Commit, lookupRollback_Reject,
    lookupRollback_Delete, lookupRollback_Revoke, Goto, Return, Conflict
<1>2. CASE Abort(c)
  BY <1>2 DEF GovTypeOK, Abort, Return
<1>3. CASE \E r \in Requests : Arrive(c, r)
  BY <1>3 DEF GovTypeOK, Arrive, banCreate, banApprove, approveDo, banReject, lookupRollback, Begin
<1> QED
  BY <1>1, <1>2, <1>3

\* What a step of a handler may do to decideMu: keep it, take it when it is
\* free, or let go of its own.
LEMMA OwnLock ==
  ASSUME GovTypeOK, LockDiscipline, NEW c \in Clerks,
         Continue(c) \/ Abort(c) \/ \E r \in Requests : Arrive(c, r)
  PROVE  /\ clerk'[c].pc \in LockedSteps <=> mu' = c
         /\ mu' # mu => mu \in {c, NoClerk} /\ mu' \in {c, NoClerk}
<1> USE DEF GovTypeOK, ClerkRecords, LockDiscipline, At, LockedSteps
<1>1. c # NoClerk /\ Idle.pc = "idle" /\ NoClerk \notin Clerks
  BY GovernanceAssumption DEF GovernanceAssumption, Idle
<1>2. ASSUME Return(c)
      PROVE  /\ clerk'[c].pc = "idle" /\ mu' # c
             /\ mu' # mu => mu \in {c, NoClerk} /\ mu' \in {c, NoClerk}
  BY <1>1, <1>2 DEF Return
<1>3. ASSUME NEW step, Goto(c, step) PROVE clerk'[c].pc = step
  BY <1>3 DEF Goto
<1>4. ASSUME NEW step, NEW r, Begin(c, step, r) PROVE clerk'[c].pc = step
  BY <1>4, IdleType DEF Begin
<1>5. CASE Continue(c)
  <2>1. CASE banCreate_Insert(c)
    BY <2>1, <1>3 DEF banCreate_Insert
  <2>2. CASE banApprove_Commit(c)
    BY <2>2, <1>2, <1>3 DEF banApprove_Commit, Conflict
  <2>3. CASE approveDo_Approve(c)
    BY <2>3, <1>3 DEF approveDo_Approve, Lock
  <2>4. CASE CreateDispatch(c)
    BY <2>4, <1>3 DEF CreateDispatch
  <2>5. CASE recordLadder(c)
    BY <2>5 DEF recordLadder
  <2>6. CASE lookupRollback_Delete(c)
    BY <2>6, <1>2, <1>3 DEF lookupRollback_Delete
  <2>7. CASE Return(c)
    BY <2>7, <1>2
  <2> QED
    BY <1>5, <2>1, <2>2, <2>3, <2>4, <2>5, <2>6, <2>7 DEF Continue, GenTokensAndSend, Conflict,
      approveDo_Reject, approveDo_Conflict, CreateDispatch_Veto, recordLadder_Write,
      banReject_Commit, lookupRollback_Reject, lookupRollback_Revoke
<1>6. CASE Abort(c)
  BY <1>6, <1>2 DEF Abort
<1>7. ASSUME NEW r \in Requests, Arrive(c, r)
      PROVE  /\ clerk'[c].pc \in LockedSteps <=> mu' = c
             /\ mu' # mu => mu \in {c, NoClerk} /\ mu' \in {c, NoClerk}
  <2>1. CASE banCreate(c, r)
    BY <2>1, IdleType DEF banCreate
  <2>2. CASE banApprove(c, r) \/ banReject(c, r)
    BY <2>2, <1>4 DEF banApprove, banReject, Lock
  <2>3. CASE approveDo(c, r, "mail_approve") \/ approveDo(c, r, "mail_reject")
    BY <2>3, <1>4 DEF approveDo
  <2>4. CASE lookupRollback(c, r)
    BY <2>4, <1>4 DEF lookupRollback
  <2> QED
    BY <1>7, <2>1, <2>2, <2>3, <2>4 DEF Arrive
<1> QED
  BY <1>5, <1>6, <1>7

\* Nobody holds the lock at the start.
LEMMA LockInit == GovInit => LockDiscipline
BY GovernanceAssumption DEF GovernanceAssumption, GovInit, LockDiscipline, Idle, LockedSteps

\* A handler takes the lock as it enters its decision and lets it go as it leaves.
LEMMA LockStep == GovTypeOK /\ LockDiscipline /\ [GovNext]_govVars => LockDiscipline'
<1> SUFFICES ASSUME GovTypeOK, LockDiscipline, [GovNext]_govVars PROVE LockDiscipline'
  OBVIOUS
<1>1. ASSUME NEW c \in Clerks, Continue(c) \/ Abort(c) \/ \E r \in Requests : Arrive(c, r)
      PROVE  LockDiscipline'
  <2>1. ASSUME NEW d \in Clerks, d # c PROVE clerk'[d].pc \in LockedSteps <=> mu' = d
    BY <1>1, <2>1, OwnRecord, OwnLock, GovernanceAssumption DEF GovernanceAssumption, LockDiscipline
  <2> QED
    BY <1>1, <2>1, OwnLock DEF LockDiscipline
<1>2. CASE UNCHANGED <<clerk, mu>>
  BY <1>2 DEF LockDiscipline
<1> QED
  BY <1>1, <1>2 DEF GovNext, TokenExpires, ObserveEnds, Protect, govVars

\* decideMu is held exactly by the handler that is between its read and the end
\* of its decision, for any number of handlers, so the two decisions on one
\* request never overlap and no early return leaves the lock behind.
THEOREM LockHeldByDecider == GovSpec => []LockDiscipline
BY GovTypeInit, GovTypeStep, LockInit, LockStep, PTL DEF GovSpec

-----------------------------------------------------------------------------
(* Requests, their rows and their links.                                    *)

\* The part of GovInv that is about more than types and the lock.
DataInv ==
  /\ InsertingOnce
  /\ RollbackOfRow
  /\ DispatchingOnce
  /\ ApprovedFirst
  /\ VetoedNeverDispatched
  /\ SpentLinkDecided

\* There are no requests at the start.
LEMMA DataInit == GovInit => DataInv
BY DEF GovInit, DataInv, InsertingOnce, RollbackOfRow, DispatchingOnce, ApprovedFirst,
  VetoedNeverDispatched, SpentLinkDecided, HasRow, At, Idle

\* A step that writes none of the columns GovInv is about, and does not bring
\* the handler where GovInv says something of it.
LEMMA QuietStep ==
  ASSUME DataInv, GovTypeOK, NEW c \in Clerks,
         \A d \in Clerks \ {c} : clerk'[d] = clerk[d],
         clerk'[c].pc \notin {"insert", "dispatch", "roll_reject", "roll_delete", "roll_revoke"},
         UNCHANGED <<reqState, effective, token, dispatches>>
  PROVE  DataInv'
BY DEF DataInv, InsertingOnce, RollbackOfRow, DispatchingOnce, ApprovedFirst,
  VetoedNeverDispatched, SpentLinkDecided, HasRow, At

\* A decided request stays decided: a step that writes a closed state over a
\* request that has a row in ban_requests, and nothing else.
LEMMA CloseStep ==
  ASSUME DataInv, GovTypeOK, NEW c \in Clerks, NEW r \in Requests, NEW s,
         s \in {"rejected", "revoked"}, reqState[r] # "none",
         \A d \in Clerks \ {c} : clerk'[d] = clerk[d],
         clerk'[c].pc = "idle",
         reqState' = [reqState EXCEPT ![r] = s],
         \A q \in Requests \ {r} : token'[q] = "used" => token[q] = "used",
         UNCHANGED <<effective, dispatches>>
  PROVE  DataInv'
<1>1. reqState'[r] = s /\ \A q \in Requests \ {r} : reqState'[q] = reqState[q]
  BY DEF GovTypeOK
<1>2. \A d \in Clerks : clerk[d].req \in Requests
  BY DEF GovTypeOK, ClerkRecords
<1> USE <1>1, <1>2 DEF DataInv, At
<1>3. InsertingOnce' /\ RollbackOfRow'
  BY DEF InsertingOnce, RollbackOfRow
<1>4. DispatchingOnce'
  BY DEF DispatchingOnce, HasRow
<1>5. ApprovedFirst' /\ VetoedNeverDispatched'
  BY DEF ApprovedFirst, VetoedNeverDispatched, HasRow
<1>6. SpentLinkDecided'
  BY DEF SpentLinkDecided
<1> QED
  BY <1>3, <1>4, <1>5, <1>6

\* The conditional update to active: the request was never approved before and
\* has no row.
LEMMA ActivateStep ==
  ASSUME DataInv, GovTypeOK, NEW c \in Clerks, NEW r \in Requests,
         clerk[c].req = r, Activate(r), Goto(c, "dispatch"),
         \A q \in Requests \ {r} : token'[q] = "used" => token[q] = "used",
         UNCHANGED dispatches
  PROVE  DataInv'
<1>1. reqState'[r] = "active" /\ \A q \in Requests \ {r} : reqState'[q] = reqState[q]
  BY DEF GovTypeOK, Activate
<1>2. \A d \in Clerks : clerk[d].req \in Requests
  BY DEF GovTypeOK, ClerkRecords
<1>3. /\ clerk'[c].pc = "dispatch" /\ clerk'[c].req = r
      /\ \A d \in Clerks \ {c} : clerk'[d] = clerk[d]
  BY DEF GovTypeOK, ClerkRecords, Goto
<1>4. reqState[r] = "pending" /\ r \notin effective /\ ~HasRow(r)
  BY DEF Activate, DataInv, ApprovedFirst
<1> USE <1>1, <1>2, <1>3, <1>4 DEF DataInv, At, Activate
<1>5. InsertingOnce' /\ RollbackOfRow'
  BY DEF InsertingOnce, RollbackOfRow
<1>6. DispatchingOnce'
  BY DEF DispatchingOnce, HasRow
<1>7. ApprovedFirst' /\ VetoedNeverDispatched'
  BY DEF ApprovedFirst, VetoedNeverDispatched, HasRow
<1>8. SpentLinkDecided'
  BY DEF SpentLinkDecided
<1> QED
  BY <1>5, <1>6, <1>7, <1>8

\* The step of one handler.
LEMMA HandlerStep ==
  ASSUME GovInv, NEW c \in Clerks, Continue(c)
  PROVE  DataInv'
<1> DEFINE r == clerk[c].req
<1>1. GovTypeOK /\ DataInv /\ LockDiscipline
  BY DEF GovInv, DataInv
<1>2. /\ \A d \in Clerks \ {c} : clerk'[d] = clerk[d]
      /\ \A d \in Clerks : clerk[d].req \in Requests
      /\ clerk[c].pc \in Steps
  BY <1>1, OwnRecord DEF GovTypeOK, ClerkRecords
<1>3. Return(c) => clerk'[c].pc = "idle"
  BY <1>1 DEF Return, GovTypeOK, Idle
<1>4. ASSUME NEW step, Goto(c, step) PROVE clerk'[c].pc = step /\ clerk'[c].req = r
  BY <1>1, <1>4 DEF Goto, GovTypeOK, ClerkRecords
<1> USE <1>1
<1>5. CASE banCreate_Insert(c)
  <2>1. /\ reqState[r] = "none" /\ r \notin effective /\ token[r] # "used"
        /\ \A d \in Clerks \ {c} : At(d, "insert") => clerk[d].req # r
    BY <1>2, <1>5 DEF banCreate_Insert, DataInv, InsertingOnce, ApprovedFirst, SpentLinkDecided
  <2>2. reqState'[r] = "pending" /\ \A q \in Requests \ {r} : reqState'[q] = reqState[q]
    BY <1>2, <1>5 DEF banCreate_Insert, GovTypeOK
  <2>3. clerk'[c].pc = "mail" /\ UNCHANGED <<effective, token, dispatches>>
    BY <1>4, <1>5 DEF banCreate_Insert
  <2> USE <1>2, <2>1, <2>2, <2>3 DEF DataInv, At
  <2>4. InsertingOnce' /\ RollbackOfRow'
    BY DEF InsertingOnce, RollbackOfRow
  <2>5. DispatchingOnce'
    BY DEF DispatchingOnce, HasRow
  <2>6. ApprovedFirst' /\ VetoedNeverDispatched' /\ SpentLinkDecided'
    BY DEF ApprovedFirst, VetoedNeverDispatched, SpentLinkDecided, HasRow
  <2> QED
    BY <2>4, <2>5, <2>6
<1>6. CASE GenTokensAndSend(c)
  <2>1. /\ clerk'[c].pc = "idle"
        /\ \A q \in Requests : token'[q] = "used" => token[q] = "used"
        /\ UNCHANGED <<reqState, effective, dispatches>>
    BY <1>2, <1>3, <1>6 DEF GenTokensAndSend, GovTypeOK
  <2> QED
    BY <1>2, <2>1 DEF DataInv, InsertingOnce, RollbackOfRow, DispatchingOnce, ApprovedFirst,
      VetoedNeverDispatched, SpentLinkDecided, HasRow, At
<1>7. CASE banApprove_Commit(c)
  <2>1. CASE Activate(r) /\ Goto(c, "dispatch")
    BY <1>2, <1>7, <2>1, ActivateStep DEF banApprove_Commit
  <2>2. CASE Conflict(c) /\ UNCHANGED <<reqState, effective>>
    BY <1>2, <1>3, <1>7, <2>2, QuietStep DEF banApprove_Commit, Conflict
  <2> QED
    BY <1>7, <2>1, <2>2 DEF banApprove_Commit
<1>8. CASE approveDo_Reject(c)
  <2>1. \A q \in Requests \ {r} : token'[q] = token[q]
    BY <1>8 DEF approveDo_Reject, GovTypeOK
  <2>2. /\ clerk'[c].pc = "idle" /\ reqState[r] # "none"
        /\ reqState' = [reqState EXCEPT ![r] = "rejected"]
        /\ UNCHANGED <<effective, dispatches>>
    BY <1>3, <1>8 DEF approveDo_Reject, LinkUsable
  <2> QED
    BY <1>2, <2>1, <2>2, CloseStep
<1>9. CASE approveDo_Approve(c)
  <2>1. \A q \in Requests \ {r} : token'[q] = token[q]
    BY <1>9 DEF approveDo_Approve, GovTypeOK
  <2> QED
    BY <1>2, <1>9, <2>1, ActivateStep DEF approveDo_Approve
<1>10. CASE approveDo_Conflict(c)
  BY <1>2, <1>3, <1>10, QuietStep DEF approveDo_Conflict, Conflict, tableVars
<1>11. CASE CreateDispatch_Veto(c)
  <2>1. /\ r \in effective /\ ~HasRow(r)
        /\ \A d \in Clerks \ {c} : ~At(d, "dispatch")
    BY <1>2, <1>11, GovernanceAssumption DEF GovernanceAssumption, CreateDispatch_Veto, DataInv,
      DispatchingOnce, LockDiscipline, LockedSteps, At
  <2>2. reqState'[r] = "safety_blocked" /\ \A q \in Requests \ {r} : reqState'[q] = reqState[q]
    BY <1>2, <1>11 DEF CreateDispatch_Veto, GovTypeOK
  <2>3. reqState[r] # "none"
    BY <1>2, <2>1 DEF DataInv, ApprovedFirst
  <2>4. clerk'[c].pc = "idle" /\ UNCHANGED <<effective, token, dispatches>>
    BY <1>3, <1>11 DEF CreateDispatch_Veto
  <2> USE <1>2, <2>1, <2>2, <2>3, <2>4 DEF DataInv, At
  <2>5. InsertingOnce' /\ RollbackOfRow'
    BY DEF InsertingOnce, RollbackOfRow
  <2>6. DispatchingOnce'
    BY DEF DispatchingOnce, HasRow
  <2>7. ApprovedFirst' /\ VetoedNeverDispatched' /\ SpentLinkDecided'
    BY DEF ApprovedFirst, VetoedNeverDispatched, SpentLinkDecided, HasRow
  <2> QED
    BY <2>5, <2>6, <2>7
<1>12. CASE CreateDispatch(c)
  <2>1. /\ r \in effective /\ reqState[r] # "safety_blocked"
        /\ \A d \in Clerks \ {c} : ~At(d, "dispatch")
    BY <1>2, <1>12, GovernanceAssumption DEF GovernanceAssumption, CreateDispatch, DataInv,
      DispatchingOnce, LockDiscipline, LockedSteps, At
  <2>2. \A q \in Requests : HasRow(q)' => HasRow(q) \/ q = r
    <3>1. CASE HasRow(r)
      BY <1>12, <3>1 DEF CreateDispatch, HasRow
    <3>2. CASE ~HasRow(r)
      <4>1. dispatches' = Append(dispatches, [req |-> r, ttl |-> reqTTL[r]])
        BY <1>12, <3>2 DEF CreateDispatch
      <4>2. dispatches \in Seq(DispatchRows) /\ [req |-> r, ttl |-> reqTTL[r]] \in DispatchRows
        BY <1>2 DEF GovTypeOK, DispatchRows
      <4>3. \A i \in DOMAIN dispatches' :
              (i \in DOMAIN dispatches /\ dispatches'[i] = dispatches[i]) \/ dispatches'[i].req = r
        BY <4>1, <4>2
      <4> QED
        BY <4>3 DEF HasRow
    <3> QED
      BY <3>1, <3>2
  <2>3. clerk'[c].pc = "ladder" /\ UNCHANGED <<reqState, effective, token>>
    BY <1>4, <1>12 DEF CreateDispatch
  <2> USE <1>2, <2>1, <2>2, <2>3 DEF DataInv, At
  <2>4. InsertingOnce' /\ RollbackOfRow'
    BY DEF InsertingOnce, RollbackOfRow
  <2>5. DispatchingOnce'
    BY DEF DispatchingOnce
  <2>6. ApprovedFirst' /\ VetoedNeverDispatched' /\ SpentLinkDecided'
    BY DEF ApprovedFirst, VetoedNeverDispatched, SpentLinkDecided
  <2> QED
    BY <2>4, <2>5, <2>6
<1>13. CASE recordLadder(c)
  <2>1. clerk'[c].pc = "ladder_write"
    BY <1>13 DEF recordLadder, GovTypeOK, ClerkRecords
  <2> QED
    BY <1>2, <1>13, <2>1, QuietStep DEF recordLadder, tableVars
<1>14. CASE recordLadder_Write(c)
  BY <1>2, <1>3, <1>14, QuietStep DEF recordLadder_Write
<1>15. CASE banReject_Commit(c)
  <2>1. CASE reqState[r] = "pending"
    BY <1>2, <1>3, <1>15, <2>1, CloseStep DEF banReject_Commit
  <2>2. CASE reqState[r] # "pending"
    BY <1>2, <1>3, <1>15, <2>2, QuietStep DEF banReject_Commit
  <2> QED
    BY <2>1, <2>2
<1>16. CASE lookupRollback_Reject(c) \/ lookupRollback_Revoke(c)
  <2>1. reqState[r] # "none"
    BY <1>16 DEF lookupRollback_Reject, lookupRollback_Revoke, DataInv, RollbackOfRow, At
  <2> QED
    BY <1>2, <1>3, <1>16, <2>1, CloseStep DEF lookupRollback_Reject, lookupRollback_Revoke
<1>17. CASE lookupRollback_Delete(c)
  <2>1. CASE Goto(c, "roll_revoke")
    <3>1. /\ clerk'[c].pc = "roll_revoke" /\ clerk'[c].req = r /\ reqState[r] # "none"
          /\ UNCHANGED <<reqState, effective, token, dispatches>>
      BY <1>4, <1>17, <2>1 DEF lookupRollback_Delete, tableVars, DataInv, RollbackOfRow, At
    <3> QED
      BY <1>2, <3>1 DEF DataInv, InsertingOnce, RollbackOfRow, DispatchingOnce, ApprovedFirst,
        VetoedNeverDispatched, SpentLinkDecided, HasRow, At
  <2>2. CASE Return(c)
    BY <1>2, <1>3, <1>17, <2>2, QuietStep DEF lookupRollback_Delete, tableVars
  <2> QED
    BY <1>17, <2>1, <2>2 DEF lookupRollback_Delete
<1> QED
  BY <1>5, <1>6, <1>7, <1>8, <1>9, <1>10, <1>11, <1>12, <1>13, <1>14, <1>15, <1>16, <1>17
  DEF Continue

\* The beginning of a handler.
LEMMA ArriveStep ==
  ASSUME GovInv, NEW c \in Clerks, NEW r \in Requests, Arrive(c, r)
  PROVE  DataInv'
<1>1. GovTypeOK /\ DataInv
  BY DEF GovInv, DataInv
<1>2. \A d \in Clerks \ {c} : clerk'[d] = clerk[d]
  BY <1>1, OwnRecord
<1>3. ASSUME NEW step, Begin(c, step, r) PROVE clerk'[c].pc = step /\ clerk'[c].req = r
  BY <1>1, <1>3, IdleType DEF Begin, GovTypeOK, ClerkRecords
<1>4. CASE banCreate(c, r)
  <2>1. /\ clerk'[c].pc = "insert" /\ clerk'[c].req = r /\ reqState[r] = "none"
        /\ \A d \in Clerks : At(d, "insert") => clerk[d].req # r
        /\ UNCHANGED <<reqState, effective, token, dispatches>>
    BY <1>1, <1>4, IdleType DEF banCreate, tableVars, GovTypeOK, ClerkRecords
  <2> QED
    BY <1>1, <1>2, <2>1 DEF DataInv, InsertingOnce, RollbackOfRow, DispatchingOnce, ApprovedFirst,
      VetoedNeverDispatched, SpentLinkDecided, HasRow, At
<1>5. CASE banApprove(c, r) \/ banReject(c, r)
  BY <1>1, <1>2, <1>3, <1>5, QuietStep DEF banApprove, banReject, tableVars
<1>6. CASE approveDo(c, r, "mail_approve") \/ approveDo(c, r, "mail_reject")
  BY <1>1, <1>2, <1>3, <1>6, QuietStep DEF approveDo, tableVars
<1>7. CASE lookupRollback(c, r)
  <2>1. /\ clerk'[c].pc \in {"roll_reject", "roll_delete"} /\ clerk'[c].req = r
        /\ reqState[r] # "none"
        /\ UNCHANGED <<reqState, effective, token, dispatches>>
    BY <1>3, <1>7 DEF lookupRollback, tableVars
  <2> QED
    BY <1>1, <1>2, <2>1 DEF DataInv, InsertingOnce, RollbackOfRow, DispatchingOnce, ApprovedFirst,
      VetoedNeverDispatched, SpentLinkDecided, HasRow, At
<1> QED
  BY <1>4, <1>5, <1>6, <1>7 DEF Arrive

\* All steps keep what handlers rely on.
LEMMA DataStep == GovInv /\ [GovNext]_govVars => DataInv'
<1> SUFFICES ASSUME GovInv, [GovNext]_govVars PROVE DataInv'
  OBVIOUS
<1>1. GovTypeOK /\ DataInv
  BY DEF GovInv, DataInv
<1>2. ASSUME NEW c \in Clerks, Abort(c) PROVE DataInv'
  <2>1. clerk'[c].pc = "idle"
    BY <1>1, <1>2 DEF Abort, Return, GovTypeOK, Idle
  <2> QED
    BY <1>1, <1>2, <2>1, OwnRecord, QuietStep DEF Abort, tableVars
<1>3. ASSUME NEW r \in Requests, TokenExpires(r) PROVE DataInv'
  <2>1. \A q \in Requests : token'[q] = "used" => token[q] = "used"
    BY <1>1, <1>3 DEF TokenExpires, GovTypeOK
  <2> QED
    BY <1>1, <1>3, <2>1 DEF TokenExpires, DataInv, InsertingOnce, RollbackOfRow, DispatchingOnce,
      ApprovedFirst, VetoedNeverDispatched, SpentLinkDecided, HasRow, At
<1>4. CASE UNCHANGED <<reqState, effective, token, dispatches, clerk>>
  BY <1>1, <1>4 DEF DataInv, InsertingOnce, RollbackOfRow, DispatchingOnce, ApprovedFirst,
    VetoedNeverDispatched, SpentLinkDecided, HasRow, At
<1> QED
  BY <1>2, <1>3, <1>4, HandlerStep, ArriveStep DEF GovNext, ObserveEnds, Protect, govVars, tableVars

\* So GovInv always holds.
LEMMA GovInvariant == GovSpec => []GovInv
<1>1. GovInit => GovInv
  BY GovTypeInit, LockInit, DataInit DEF GovInv, DataInv
<1>2. GovInv /\ [GovNext]_govVars => GovInv'
  BY GovTypeStep, LockStep, DataStep DEF GovInv, DataInv
<1> QED
  BY <1>1, <1>2, PTL DEF GovSpec

\* Whatever handlers run at once, and however often the protected set is edited
\* from outside: a request the veto closed has no row for the executor.
THEOREM VetoHolds == GovSpec => []VetoedNeverDispatched
BY GovInvariant, PTL DEF GovInv

\* A spent link has decided its request: no interleaving of the mail handlers,
\* the web handlers and the unlocked rollback spends a link and leaves the
\* request open.
THEOREM SpentLinkHolds == GovSpec => []SpentLinkDecided
BY GovInvariant, PTL DEF GovInv

-----------------------------------------------------------------------------
(* The ladder loses no offence.                                             *)

\* The row a handler is about to write back is still the one in the table:
\* only a holder of decideMu writes offences.
RowIsFresh ==
  \A c \in Clerks : At(c, "ladder_write") =>
    clerk[c].row.offenses = ladder[TargetOf[clerk[c].req]].offenses

LadderInv == RowIsFresh /\ LadderCountsDispatches

\* A handler that is in the ladder holds decideMu, so there is one at most.
LEMMA OneInLadder ==
  ASSUME GovTypeOK, LockDiscipline, NEW t \in Targets, NEW c \in InLadder(t)
  PROVE  /\ mu = c /\ InLadder(t) = {c}
         /\ \A u \in Targets \ {t} : InLadder(u) = {}
BY DEF InLadder, LockDiscipline, LockedSteps

\* The rows of a target can be counted.
LEMMA RowsCounted ==
  ASSUME GovTypeOK, NEW t \in Targets
  PROVE  IsFiniteSet(RowsFor(t)) /\ Cardinality(RowsFor(t)) \in Nat
<1>1. dispatches \in Seq(DispatchRows)
  BY DEF GovTypeOK
<1>2. RowsFor(t) \subseteq 1..Len(dispatches) /\ Len(dispatches) \in Nat
  BY <1>1 DEF RowsFor
<1>3. IsFiniteSet(1..Len(dispatches))
  BY <1>2, FS_Interval
<1> QED
  BY <1>2, <1>3, FS_Subset, FS_CardinalityType

\* A new row counts once, and for the target of its request.
LEMMA RowAdded ==
  ASSUME GovTypeOK, NEW row \in DispatchRows, dispatches' = Append(dispatches, row),
         NEW t \in Targets
  PROVE  Cardinality(RowsFor(t)') =
           Cardinality(RowsFor(t)) + (IF t = TargetOf[row.req] THEN 1 ELSE 0)
<1> DEFINE last == Len(dispatches) + 1
<1>1. dispatches \in Seq(DispatchRows) /\ Len(dispatches) \in Nat
  BY DEF GovTypeOK
<1>2. last \notin RowsFor(t)
  BY <1>1 DEF RowsFor
<1>3. CASE t = TargetOf[row.req]
  <2>1. RowsFor(t)' = RowsFor(t) \union {last}
    BY <1>1, <1>3 DEF RowsFor
  <2> QED
    BY <1>2, <1>3, <2>1, RowsCounted, FS_AddElement
<1>4. CASE t # TargetOf[row.req]
  <2>1. RowsFor(t)' = RowsFor(t)
    BY <1>1, <1>4 DEF RowsFor
  <2> QED
    BY <1>4, <2>1, RowsCounted
<1> QED
  BY <1>3, <1>4

\* A step that orders nothing, writes no offence and neither enters the ladder
\* nor leaves it.
LEMMA OffLadderStep ==
  ASSUME GovTypeOK, LadderInv, NEW c \in Clerks,
         \A d \in Clerks \ {c} : clerk'[d] = clerk[d],
         clerk[c].pc \notin {"ladder", "ladder_write"},
         clerk'[c].pc \notin {"ladder", "ladder_write"},
         UNCHANGED <<dispatches, ladder, stops>>
  PROVE  LadderInv'
<1>1. \A t \in Targets : InLadder(t)' = InLadder(t)
  BY DEF InLadder
<1>2. \A t \in Targets : RowsFor(t)' = RowsFor(t)
  BY DEF RowsFor
<1>3. RowIsFresh'
  BY DEF LadderInv, RowIsFresh, At
<1> QED
  BY <1>1, <1>2, <1>3 DEF LadderInv, LadderCountsDispatches

\* The dispatch that is created is one that its handler still has to count.
LEMMA DispatchCounts ==
  ASSUME GovInv, LadderInv, NEW c \in Clerks, CreateDispatch(c)
  PROVE  LadderInv'
<1> DEFINE r == clerk[c].req
           row == [req |-> r, ttl |-> reqTTL[r]]
<1>1. GovTypeOK /\ LockDiscipline /\ r \in Requests /\ row \in DispatchRows /\ ~HasRow(r)
  BY DEF GovInv, GovTypeOK, ClerkRecords, DispatchRows, DispatchingOnce, CreateDispatch
<1>2. /\ dispatches' = Append(dispatches, row) /\ UNCHANGED <<ladder, stops>>
      /\ clerk' = [clerk EXCEPT ![c].pc = "ladder"]
  BY <1>1 DEF CreateDispatch, Goto
<1>3. \A d \in Clerks : clerk[d].pc \notin {"ladder", "ladder_write"}
  BY <1>1 DEF CreateDispatch, At, LockDiscipline, LockedSteps
<1>4. /\ clerk'[c].pc = "ladder" /\ clerk'[c].req = r
      /\ \A d \in Clerks \ {c} : clerk'[d] = clerk[d]
  BY <1>1, <1>2 DEF GovTypeOK, ClerkRecords
<1>5. RowIsFresh'
  BY <1>3, <1>4 DEF RowIsFresh, At
<1>6. ASSUME NEW t \in Targets, stops' = 0
      PROVE  ladder'[t].offenses + Cardinality(InLadder(t)') = Cardinality(RowsFor(t)')
  <2>1. InLadder(t) = {} /\ InLadder(t)' = IF t = TargetOf[r] THEN {c} ELSE {}
    BY <1>3, <1>4 DEF InLadder
  <2>2. Cardinality(InLadder(t)) = 0 /\ Cardinality(InLadder(t)') = IF t = TargetOf[r] THEN 1 ELSE 0
    BY <2>1, FS_EmptySet, FS_Singleton
  <2>3. Cardinality(RowsFor(t)') = Cardinality(RowsFor(t)) + (IF t = TargetOf[r] THEN 1 ELSE 0)
    BY <1>1, <1>2, RowAdded
  <2>4. ladder[t].offenses + Cardinality(InLadder(t)) = Cardinality(RowsFor(t))
    BY <1>2, <1>6 DEF LadderInv, LadderCountsDispatches
  <2>5. ladder[t].offenses \in Nat /\ ladder'[t] = ladder[t]
    BY <1>1, <1>2 DEF GovTypeOK, LadderRows
  <2> QED
    BY <2>2, <2>3, <2>4, <2>5
<1> QED
  BY <1>5, <1>6 DEF LadderInv, LadderCountsDispatches

\* The write of the ladder counts the dispatch its handler owed.
LEMMA WriteCounts ==
  ASSUME GovInv, LadderInv, NEW c \in Clerks, recordLadder_Write(c)
  PROVE  LadderInv'
<1> DEFINE u == TargetOf[clerk[c].req]
           row == clerk[c].row
<1>1. /\ GovTypeOK /\ LockDiscipline /\ u \in Targets /\ row \in LadderRows
      /\ clerk[c].pc = "ladder_write"
  BY GovernanceAssumption DEF GovernanceAssumption, GovInv, GovTypeOK, ClerkRecords,
    recordLadder_Write, At
<1>2. /\ ladder' = [ladder EXCEPT ![u] = RegisterBan(row)] /\ UNCHANGED <<dispatches, stops>>
      /\ clerk' = [clerk EXCEPT ![c] = Idle]
  BY DEF recordLadder_Write, Return
<1>3. row.offenses = ladder[u].offenses /\ row.offenses \in Nat
  BY <1>1 DEF LadderInv, RowIsFresh, At, LadderRows
<1>4. RegisterBan(row).offenses = row.offenses + 1
  BY DEF RegisterBan
<1>5. c \in InLadder(u)
  BY <1>1 DEF InLadder
<1>6. \A d \in Clerks : clerk'[d].pc \notin {"ladder", "ladder_write"}
  BY <1>1, <1>2 DEF GovTypeOK, LockDiscipline, LockedSteps, Idle
<1>7. RowIsFresh'
  BY <1>6 DEF RowIsFresh, At
<1>8. ASSUME NEW t \in Targets, stops' = 0
      PROVE  ladder'[t].offenses + Cardinality(InLadder(t)') = Cardinality(RowsFor(t)')
  <2>1. InLadder(t)' = {} /\ InLadder(t) = IF t = u THEN {c} ELSE {}
    BY <1>1, <1>5, <1>6, OneInLadder DEF InLadder
  <2>2. Cardinality(InLadder(t)') = 0 /\ Cardinality(InLadder(t)) = IF t = u THEN 1 ELSE 0
    BY <2>1, FS_EmptySet, FS_Singleton
  <2>3. RowsFor(t)' = RowsFor(t)
    BY <1>2 DEF RowsFor
  <2>4. ladder[t].offenses + Cardinality(InLadder(t)) = Cardinality(RowsFor(t))
    BY <1>2, <1>8 DEF LadderInv, LadderCountsDispatches
  <2>5. ladder[t].offenses \in Nat /\ ladder'[t] = IF t = u THEN RegisterBan(row) ELSE ladder[t]
    BY <1>1, <1>2 DEF GovTypeOK, LadderRows
  <2>6. ladder'[t].offenses = ladder[t].offenses + (IF t = u THEN 1 ELSE 0)
    BY <1>3, <1>4, <2>5
  <2> QED
    BY <2>2, <2>3, <2>4, <2>5, <2>6
<1> QED
  BY <1>7, <1>8 DEF LadderInv, LadderCountsDispatches

\* The read of the ladder takes the row as it is.
LEMMA ReadIsFresh ==
  ASSUME GovInv, LadderInv, NEW c \in Clerks, recordLadder(c)
  PROVE  LadderInv'
<1>1. GovTypeOK /\ clerk[c] \in ClerkRecords /\ clerk[c].pc = "ladder"
  BY DEF GovInv, GovTypeOK, recordLadder, At
<1>2. /\ clerk'[c].pc = "ladder_write" /\ clerk'[c].req = clerk[c].req
      /\ clerk'[c].row = ladder[TargetOf[clerk[c].req]]
      /\ \A d \in Clerks \ {c} : clerk'[d] = clerk[d]
      /\ UNCHANGED <<dispatches, ladder, stops>>
  BY <1>1 DEF recordLadder, tableVars, GovTypeOK, ClerkRecords
<1>3. RowIsFresh'
  BY <1>2 DEF LadderInv, RowIsFresh, At
<1>4. \A t \in Targets : InLadder(t)' = InLadder(t)
  BY <1>1, <1>2 DEF InLadder
<1>5. \A t \in Targets : RowsFor(t)' = RowsFor(t)
  BY <1>2 DEF RowsFor
<1> QED
  BY <1>2, <1>3, <1>4, <1>5 DEF LadderInv, LadderCountsDispatches

\* Nobody has been banned and nobody is in the ladder at the start.
LEMMA LadderInit == GovInit => LadderInv
<1> SUFFICES ASSUME GovInit PROVE LadderInv
  OBVIOUS
<1>1. RowIsFresh
  BY DEF GovInit, RowIsFresh, At, Idle
<1>2. \A t \in Targets : InLadder(t) = {} /\ RowsFor(t) = {} /\ ladder[t].offenses = 0
  BY DEF GovInit, InLadder, RowsFor, Idle, NoRow
<1> QED
  BY <1>1, <1>2, FS_EmptySet DEF LadderInv, LadderCountsDispatches

\* All steps keep the count of the ladder.
LEMMA LadderStep == GovInv /\ LadderInv /\ [GovNext]_govVars => LadderInv'
<1> SUFFICES ASSUME GovInv, LadderInv, [GovNext]_govVars PROVE LadderInv'
  OBVIOUS
<1>1. GovTypeOK /\ LockDiscipline
  BY DEF GovInv
<1>2. ASSUME NEW c \in Clerks, Return(c)
      PROVE  clerk'[c].pc = "idle"
  BY <1>1, <1>2 DEF Return, GovTypeOK, Idle
<1>3. ASSUME NEW c \in Clerks, NEW step, Goto(c, step)
      PROVE  clerk'[c].pc = step
  BY <1>1, <1>3 DEF Goto, GovTypeOK, ClerkRecords
<1>4. ASSUME NEW c \in Clerks, Continue(c) PROVE LadderInv'
  <2>1. \A d \in Clerks \ {c} : clerk'[d] = clerk[d]
    BY <1>1, <1>4, OwnRecord
  <2>2. CASE CreateDispatch(c)
    BY <2>2, DispatchCounts
  <2>3. CASE recordLadder(c)
    BY <2>3, ReadIsFresh
  <2>4. CASE recordLadder_Write(c)
    BY <2>4, WriteCounts
  <2>5. CASE banCreate_Insert(c) \/ banApprove_Commit(c) \/ approveDo_Approve(c) \/ lookupRollback_Delete(c)
    <3>1. /\ clerk[c].pc \notin {"ladder", "ladder_write"}
          /\ clerk'[c].pc \notin {"ladder", "ladder_write"}
      BY <1>2, <1>3, <2>5 DEF banCreate_Insert, banApprove_Commit, approveDo_Approve,
        lookupRollback_Delete, At, Conflict
    <3> QED
      BY <1>1, <2>1, <2>5, <3>1, OffLadderStep DEF banCreate_Insert, banApprove_Commit,
        approveDo_Approve, lookupRollback_Delete, tableVars
  <2>6. CASE GenTokensAndSend(c) \/ approveDo_Reject(c) \/ approveDo_Conflict(c)
             \/ CreateDispatch_Veto(c) \/ banReject_Commit(c) \/ lookupRollback_Reject(c)
             \/ lookupRollback_Revoke(c)
    <3>1. /\ clerk[c].pc \notin {"ladder", "ladder_write"} /\ Return(c)
          /\ UNCHANGED <<dispatches, ladder, stops>>
      BY <2>6 DEF GenTokensAndSend, approveDo_Reject, approveDo_Conflict, Conflict,
        CreateDispatch_Veto, banReject_Commit, lookupRollback_Reject, lookupRollback_Revoke, At, tableVars
    <3> QED
      BY <1>1, <1>2, <2>1, <3>1, OffLadderStep
  <2> QED
    BY <1>4, <2>2, <2>3, <2>4, <2>5, <2>6 DEF Continue
<1>5. ASSUME NEW c \in Clerks, NEW r \in Requests, Arrive(c, r) PROVE LadderInv'
  <2>1. \A d \in Clerks \ {c} : clerk'[d] = clerk[d]
    BY <1>1, <1>5, OwnRecord
  <2>2. ASSUME NEW step, Begin(c, step, r) PROVE clerk'[c].pc = step
    BY <1>1, <2>2, IdleType DEF Begin, GovTypeOK, ClerkRecords
  <2>3. clerk[c].pc = "idle" /\ UNCHANGED <<dispatches, ladder, stops>>
    BY <1>5 DEF Arrive, banCreate, banApprove, approveDo, banReject, lookupRollback, At, tableVars
  <2>4. clerk'[c].pc \notin {"ladder", "ladder_write"}
    <3>1. CASE banCreate(c, r)
      BY <1>1, <3>1, IdleType DEF banCreate, GovTypeOK, ClerkRecords
    <3>2. CASE banApprove(c, r) \/ banReject(c, r) \/ lookupRollback(c, r)
               \/ approveDo(c, r, "mail_approve") \/ approveDo(c, r, "mail_reject")
      BY <2>2, <3>2 DEF banApprove, approveDo, banReject, lookupRollback
    <3> QED
      BY <1>5, <3>1, <3>2 DEF Arrive
  <2> QED
    BY <1>1, <2>1, <2>3, <2>4, OffLadderStep
<1>6. ASSUME NEW c \in Clerks, Abort(c) PROVE LadderInv'
  <2>1. stops' # 0 /\ clerk'[c].pc = "idle" /\ UNCHANGED ladder
    BY <1>1, <1>2, <1>6 DEF Abort, GovTypeOK, tableVars
  <2>2. \A d \in Clerks \ {c} : clerk'[d] = clerk[d]
    BY <1>1, <1>6, OwnRecord
  <2> QED
    BY <2>1, <2>2 DEF LadderInv, LadderCountsDispatches, RowIsFresh, At
<1>7. ASSUME NEW t \in Targets, ObserveEnds(t) PROVE LadderInv'
  <2>1. /\ \A u \in Targets : ladder'[u].offenses = ladder[u].offenses
        /\ UNCHANGED <<clerk, dispatches, stops>>
    BY <1>1, <1>7 DEF ObserveEnds, GovTypeOK, LadderRows
  <2>2. \A c \in Clerks : TargetOf[clerk[c].req] \in Targets
    BY <1>1, GovernanceAssumption DEF GovernanceAssumption, GovTypeOK, ClerkRecords
  <2>3. RowIsFresh'
    BY <2>1, <2>2 DEF LadderInv, RowIsFresh, At
  <2>4. \A u \in Targets : InLadder(u)' = InLadder(u) /\ RowsFor(u)' = RowsFor(u)
    BY <2>1 DEF InLadder, RowsFor
  <2> QED
    BY <2>1, <2>3, <2>4 DEF LadderInv, LadderCountsDispatches
<1>8. CASE UNCHANGED <<clerk, dispatches, ladder, stops>>
  <2>1. \A u \in Targets : InLadder(u)' = InLadder(u) /\ RowsFor(u)' = RowsFor(u)
    BY <1>8 DEF InLadder, RowsFor
  <2>2. RowIsFresh'
    BY <1>8 DEF LadderInv, RowIsFresh, At
  <2> QED
    BY <1>8, <2>1, <2>2 DEF LadderInv, LadderCountsDispatches
<1> QED
  BY <1>4, <1>5, <1>6, <1>7, <1>8 DEF GovNext, TokenExpires, Protect, govVars, tableVars

\* As long as no handler stopped halfway, the ladder of a target counts every
\* dispatch against it, but for the one that the holder of decideMu is about to
\* count: the read and the write back of recordLadder lose no offence.
THEOREM LadderIsComplete == GovSpec => []LadderCountsDispatches
BY LadderInit, LadderStep, GovInvariant, PTL DEF GovSpec, LadderInv

-----------------------------------------------------------------------------
(* Governance implements BanLifecycle.                                     *)

PhaseOf == [r \in Requests |-> Phase(reqState[r])]

OrdersOf == [r \in Requests |-> Cardinality(RowsOf(r))]

\* One update of a state is one update of a phase.
LEMMA PhaseUpdate ==
  ASSUME GovTypeOK, NEW r \in Requests, NEW s, reqState' = [reqState EXCEPT ![r] = s]
  PROVE  PhaseOf' = [PhaseOf EXCEPT ![r] = Phase(s)]
BY DEF PhaseOf, GovTypeOK

\* The first row of a request takes its count from none to one, and that of no
\* other request.
LEMMA FirstRow ==
  ASSUME GovTypeOK, NEW r \in Requests, NEW row \in DispatchRows, row.req = r,
         ~HasRow(r), dispatches' = Append(dispatches, row)
  PROVE  OrdersOf[r] = 0 /\ OrdersOf' = [OrdersOf EXCEPT ![r] = 1]
<1>1. dispatches \in Seq(DispatchRows)
  BY DEF GovTypeOK
<1>2. RowsOf(r) = {}
  BY DEF RowsOf, HasRow
<1>3. RowsOf(r)' = {Len(dispatches) + 1}
  <2>1. \A i \in DOMAIN dispatches : dispatches[i].req # r
    BY DEF HasRow
  <2> QED
    BY <1>1, <2>1 DEF RowsOf
<1>4. \A q \in Requests \ {r} : RowsOf(q)' = RowsOf(q)
  BY <1>1 DEF RowsOf
<1>5. Cardinality({}) = 0 /\ Cardinality({Len(dispatches) + 1}) = 1
  BY FS_EmptySet, FS_Singleton
<1> QED
  BY <1>2, <1>3, <1>4, <1>5 DEF OrdersOf

\* The abstract step a change of state amounts to.
LEMMA CloseIsClose ==
  ASSUME GovTypeOK, NEW r \in Requests, NEW s \in {"rejected", "revoked", "safety_blocked"},
         reqState[r] # "none", reqState' = [reqState EXCEPT ![r] = s],
         UNCHANGED <<effective, dispatches>>
  PROVE  [Lifecycle!LifecycleNext]_(Lifecycle!lifecycleVars)
<1>1. PhaseOf' = [PhaseOf EXCEPT ![r] = "closed"]
  BY PhaseUpdate DEF Phase
<1>2. OrdersOf' = OrdersOf
  BY DEF OrdersOf, RowsOf
<1>3. reqState[r] \in ReqStates
  BY DEF GovTypeOK
<1>4. CASE reqState[r] \in {"pending", "active"}
  <2>1. PhaseOf[r] \in {"pending", "active"}
    BY <1>4 DEF PhaseOf, Phase
  <2>2. Lifecycle!Close(r)
    BY <1>1, <1>2, <2>1 DEF Lifecycle!Close, PhaseOf, OrdersOf
  <2> QED
    BY <2>2 DEF Lifecycle!LifecycleNext
<1>5. CASE reqState[r] \notin {"pending", "active"}
  <2>1. PhaseOf[r] = "closed"
    BY <1>3, <1>5 DEF PhaseOf, Phase, ReqStates
  <2>2. PhaseOf' = PhaseOf
    BY <1>1, <2>1 DEF PhaseOf
  <2> QED
    BY <1>2, <2>2 DEF Lifecycle!lifecycleVars, PhaseOf, OrdersOf
<1> QED
  BY <1>4, <1>5

\* The conditional update is the approval.
LEMMA ActivateIsApprove ==
  ASSUME GovTypeOK, NEW r \in Requests, Activate(r), UNCHANGED dispatches
  PROVE  [Lifecycle!LifecycleNext]_(Lifecycle!lifecycleVars)
<1>1. PhaseOf' = [PhaseOf EXCEPT ![r] = "active"]
  BY PhaseUpdate DEF Phase, Activate
<1>2. OrdersOf' = OrdersOf
  BY DEF OrdersOf, RowsOf
<1>3. PhaseOf[r] = "pending"
  BY DEF PhaseOf, Phase, Activate
<1>4. Lifecycle!Approve(r)
  BY <1>1, <1>2, <1>3 DEF Lifecycle!Approve, PhaseOf, OrdersOf, Activate
<1> QED
  BY <1>4 DEF Lifecycle!LifecycleNext

\* The insertion of the request is its submission.
LEMMA InsertIsSubmit ==
  ASSUME GovInv, NEW c \in Clerks, banCreate_Insert(c)
  PROVE  [Lifecycle!LifecycleNext]_(Lifecycle!lifecycleVars)
<1> DEFINE r == clerk[c].req
<1>1. GovTypeOK /\ r \in Requests
  BY DEF GovInv, GovTypeOK, ClerkRecords
<1>2. PhaseOf' = [PhaseOf EXCEPT ![r] = "pending"]
  BY <1>1, PhaseUpdate DEF Phase, banCreate_Insert
<1>3. OrdersOf' = OrdersOf
  BY DEF OrdersOf, RowsOf, banCreate_Insert
<1>4. PhaseOf[r] = "none"
  BY <1>1 DEF GovInv, InsertingOnce, banCreate_Insert, PhaseOf, Phase
<1>5. Lifecycle!Submit(r)
  BY <1>2, <1>3, <1>4 DEF Lifecycle!Submit, PhaseOf, OrdersOf, banCreate_Insert
<1> QED
  BY <1>1, <1>5 DEF Lifecycle!LifecycleNext

\* The new row is the one order of its request.
LEMMA DispatchIsOrder ==
  ASSUME GovInv, NEW c \in Clerks, CreateDispatch(c)
  PROVE  [Lifecycle!LifecycleNext]_(Lifecycle!lifecycleVars)
<1> DEFINE r == clerk[c].req
           row == [req |-> r, ttl |-> reqTTL[r]]
<1>1. GovTypeOK /\ r \in Requests /\ row \in DispatchRows
  BY DEF GovInv, GovTypeOK, ClerkRecords, DispatchRows
<1>2. r \in effective /\ ~HasRow(r)
  BY DEF GovInv, DispatchingOnce, CreateDispatch
<1>3. dispatches' = Append(dispatches, row) /\ UNCHANGED <<reqState, effective>>
  BY <1>2 DEF CreateDispatch
<1>4. OrdersOf[r] = 0 /\ OrdersOf' = [OrdersOf EXCEPT ![r] = 1]
  BY <1>1, <1>2, <1>3, FirstRow
<1>5. Lifecycle!Order(r)
  BY <1>2, <1>3, <1>4 DEF Lifecycle!Order, OrdersOf
<1> QED
  BY <1>1, <1>5 DEF Lifecycle!LifecycleNext

\* Every step of a handler is a step of the lifecycle, or none.
LEMMA LifecycleStep ==
  GovInv /\ [GovNext]_govVars => [Lifecycle!LifecycleNext]_(Lifecycle!lifecycleVars)
<1> SUFFICES ASSUME GovInv, [GovNext]_govVars
             PROVE  [Lifecycle!LifecycleNext]_(Lifecycle!lifecycleVars)
  OBVIOUS
<1>1. GovTypeOK /\ RollbackOfRow /\ DispatchingOnce /\ ApprovedFirst
  BY DEF GovInv
<1>2. ASSUME UNCHANGED <<reqState, effective, dispatches>>
      PROVE  UNCHANGED Lifecycle!lifecycleVars
  BY <1>2 DEF Lifecycle!lifecycleVars, RowsOf
<1>3. ASSUME NEW c \in Clerks, Continue(c)
      PROVE  [Lifecycle!LifecycleNext]_(Lifecycle!lifecycleVars)
  <2>1. clerk[c].req \in Requests
    BY <1>1 DEF GovTypeOK, ClerkRecords
  <2>2. CASE banCreate_Insert(c)
    BY <2>2, InsertIsSubmit
  <2>3. CASE banApprove_Commit(c)
    BY <1>1, <1>2, <2>1, <2>3, ActivateIsApprove DEF banApprove_Commit
  <2>4. CASE approveDo_Approve(c)
    BY <1>1, <2>1, <2>4, ActivateIsApprove DEF approveDo_Approve
  <2>5. CASE approveDo_Reject(c)
    BY <1>1, <2>1, <2>5, CloseIsClose DEF approveDo_Reject, LinkUsable
  <2>6. CASE CreateDispatch_Veto(c)
    <3>1. reqState[clerk[c].req] # "none"
      BY <1>1, <2>1, <2>6 DEF CreateDispatch_Veto, DispatchingOnce, ApprovedFirst
    <3> QED
      BY <1>1, <2>1, <2>6, <3>1, CloseIsClose DEF CreateDispatch_Veto
  <2>7. CASE CreateDispatch(c)
    BY <2>7, DispatchIsOrder
  <2>8. CASE banReject_Commit(c)
    BY <1>1, <1>2, <2>1, <2>8, CloseIsClose DEF banReject_Commit
  <2>9. CASE lookupRollback_Reject(c) \/ lookupRollback_Revoke(c)
    BY <1>1, <2>1, <2>9, CloseIsClose DEF RollbackOfRow, lookupRollback_Reject, lookupRollback_Revoke, At
  <2>10. CASE UNCHANGED <<reqState, effective, dispatches>>
    BY <1>2, <2>10
  <2> QED
    BY <1>3, <2>2, <2>3, <2>4, <2>5, <2>6, <2>7, <2>8, <2>9, <2>10 DEF Continue, GenTokensAndSend,
      approveDo_Conflict, recordLadder, recordLadder_Write, lookupRollback_Delete, tableVars
<1>4. CASE UNCHANGED <<reqState, effective, dispatches>>
  BY <1>2, <1>4
<1> QED
  BY <1>3, <1>4 DEF GovNext, Arrive, banCreate, banApprove, approveDo, banReject, lookupRollback,
    Abort, TokenExpires, ObserveEnds, Protect, govVars, tableVars

\* Both start without requests.
LEMMA LifecycleStart == GovInit => Lifecycle!LifecycleInit
<1> SUFFICES ASSUME GovInit PROVE Lifecycle!LifecycleInit
  OBVIOUS
<1>1. \A r \in Requests : Phase(reqState[r]) = "none" /\ RowsOf(r) = {}
  BY DEF GovInit, Phase, RowsOf
<1> QED
  BY <1>1, FS_EmptySet DEF GovInit, Lifecycle!LifecycleInit

\* The handlers, with the lock that some take and the rollback that takes none,
\* implement the lifecycle: approved once and from pending only, never reopened,
\* one row for the executor and only after an approval.
THEOREM LifecycleImplemented == GovSpec => ImplementsLifecycle
BY LifecycleStart, LifecycleStep, GovInvariant, PTL DEF GovSpec, ImplementsLifecycle, Lifecycle!LifecycleSpec

=============================================================================
