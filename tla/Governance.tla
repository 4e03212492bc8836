----------------------------- MODULE Governance -----------------------------
(***************************************************************************)
(* The control plane for plain ban requests: the HTTP handlers that create, *)
(* approve, reject and roll back a request (internal/web), the one-time     *)
(* approval link (internal/approval), the protected-set veto and the        *)
(* dispatch row (internal/dispatch, internal/safety) and the escalation     *)
(* ladder (internal/escalation).                                            *)
(*                                                                         *)
(* Every handler runs in a goroutine of its own, a clerk here, and is cut   *)
(* at its database statements and at decideMu: a step is one transaction or *)
(* one statement, and what the handler has read so far is in its record.    *)
(* Any handler may stop at any of its steps (Abort): an error of the        *)
(* database, a panic that gin recovers, or the end of the process.          *)
(***************************************************************************)
EXTENDS Escalation, DispatchTable, FiniteSets

CONSTANTS Requests,   \* ids of ban requests
          Targets,    \* addresses or prefixes a request may name
          TargetOf,   \* the target each request is created with
          Clerks,     \* handler goroutines
          NoClerk,
          MaxStops   \* bound on the number of handlers that stop halfway

ASSUME GovernanceAssumption ==
  /\ Requests # {}
  /\ TargetOf \in [Requests -> Targets]
  /\ NoClerk \notin Clerks
  /\ MaxStops \in Nat

VARIABLES
  reqState,    \* ban_requests.state; "none" before the row exists
  reqTTL,      \* ban_requests.ttl_seconds; 0 stands for NULL, permanent
  effective,   \* ban_requests.effective_at is set
  token,       \* approval_tokens: the one link mailed for the request
  ladder,      \* ban_ladders: the row of each target
  protected,   \* protected_targets: edited from outside the program
  mu,          \* the clerk that holds decideMu
  clerk,       \* what each handler is doing
  stops       \* handlers that stopped halfway so far

tableVars == <<reqState, reqTTL, effective, token, dispatches, ladder, protected>>
govVars == <<tableVars, mu, clerk, stops>>

-----------------------------------------------------------------------------
(* Rows and records.                                                       *)

ReqStates == {"none", "pending", "active", "rejected", "revoked", "safety_blocked"}

Tokens == {"none", "open", "expired", "used"}

DispatchRows == [req : Requests, ttl : Nat]

\* Steps taken with decideMu held.
LockedSteps == {"approve", "dispatch", "ladder", "ladder_write", "reject"}

Steps == LockedSteps \union
  {"idle", "insert", "mail", "mail_approve", "mail_reject", "roll_reject", "roll_delete", "roll_revoke"}

Idle == [pc |-> "idle", req |-> CHOOSE r \in Requests : TRUE, ttl |-> 0, row |-> NoRow]

ClerkRecords == [pc : Steps, req : Requests, ttl : Nat, row : LadderRows]

At(c, step) == clerk[c].pc = step

Goto(c, step) == clerk' = [clerk EXCEPT ![c].pc = step]

Begin(c, step, r) == clerk' = [clerk EXCEPT ![c] = [Idle EXCEPT !.pc = step, !.req = r]]

\* The handler returns; `defer decideMu.Unlock()` runs if it took the lock.
Return(c) ==
  /\ clerk' = [clerk EXCEPT ![c] = Idle]
  /\ mu' = IF mu = c THEN NoClerk ELSE mu

Lock(c) == mu = NoClerk /\ mu' = c

-----------------------------------------------------------------------------
(* POST /bans: the protected set and the ladder are read, then the row is   *)
(* inserted, then the link is mailed.                                       *)

banCreate(c, r) ==
  /\ At(c, "idle")
  /\ reqState[r] = "none"
  /\ \A d \in Clerks : clerk[d].req = r => ~At(d, "insert")
  /\ TargetOf[r] \notin protected
  /\ clerk' = [clerk EXCEPT ![c] =
       [Idle EXCEPT !.pc = "insert", !.req = r, !.ttl = NextTTL(ladder[TargetOf[r]])]]
  /\ UNCHANGED <<tableVars, mu, stops>>

banCreate_Insert(c) ==
  LET r == clerk[c].req IN
  /\ At(c, "insert")
  /\ reqState' = [reqState EXCEPT ![r] = "pending"]
  /\ reqTTL' = [reqTTL EXCEPT ![r] = clerk[c].ttl]
  /\ Goto(c, "mail")
  /\ UNCHANGED <<effective, token, dispatches, ladder, protected, mu, stops>>

\* Without an active account to mail to, there is no link.
GenTokensAndSend(c) ==
  /\ At(c, "mail")
  /\ token' = [token EXCEPT ![clerk[c].req] = "open"] \/ UNCHANGED token
  /\ Return(c)
  /\ UNCHANGED <<reqState, reqTTL, effective, dispatches, ladder, protected, stops>>

-----------------------------------------------------------------------------
(* POST /bans/:id/approve and POST /approve/:token.                         *)

\* A fault: the handler answers "already decided" without the deferred unlock.
ForgetsUnlock(c) == clerk' = [clerk EXCEPT ![c] = Idle] /\ UNCHANGED mu

\* The state is no longer pending: 409, and nothing else changes.
Conflict(c) == Return(c)

\* The conditional update to active, shared by both handlers.
Activate(r) ==
  /\ reqState[r] = "pending"
  /\ reqState' = [reqState EXCEPT ![r] = "active"]
  /\ effective' = effective \union {r}

banApprove(c, r) ==
  /\ At(c, "idle")
  /\ Lock(c)
  /\ reqState[r] = "pending"
  /\ Begin(c, "approve", r)
  /\ UNCHANGED <<tableVars, stops>>

\* A fault: the update is not conditional on the state being pending still.
CommitUnchecked(c) ==
  /\ At(c, "approve")
  /\ reqState' = [reqState EXCEPT ![clerk[c].req] = "active"]
  /\ effective' = effective \union {clerk[c].req}
  /\ Goto(c, "dispatch")
  /\ UNCHANGED <<reqTTL, token, dispatches, ladder, protected, mu, stops>>

\* A fault: a conflict is answered, and the handler goes on to the dispatch.
DispatchesAnyway(c) ==
  /\ At(c, "approve")
  /\ IF reqState[clerk[c].req] = "pending"
     THEN Activate(clerk[c].req) ELSE UNCHANGED <<reqState, effective>>
  /\ Goto(c, "dispatch")
  /\ UNCHANGED <<reqTTL, token, dispatches, ladder, protected, mu, stops>>

\* A fault: the update is committed and the dispatch is left to somebody else.
CommitOnly(c) ==
  /\ At(c, "approve")
  /\ IF reqState[clerk[c].req] = "pending"
     THEN Activate(clerk[c].req) ELSE UNCHANGED <<reqState, effective>>
  /\ Return(c)
  /\ UNCHANGED <<reqTTL, token, dispatches, ladder, protected, stops>>

banApprove_Commit(c) ==
  /\ At(c, "approve")
  /\ \/ Activate(clerk[c].req) /\ Goto(c, "dispatch") /\ UNCHANGED mu
     \/ /\ reqState[clerk[c].req] # "pending"
        /\ Conflict(c)
        /\ UNCHANGED <<reqState, effective>>
  /\ UNCHANGED <<reqTTL, token, dispatches, ladder, protected, stops>>

\* approveDo reads the clock before it waits for decideMu, so a link that
\* expires while it waits is still good.
approveDo(c, r, step) ==
  /\ At(c, "idle")
  /\ token[r] = "open"
  /\ Begin(c, step, r)
  /\ UNCHANGED <<tableVars, mu, stops>>

LinkUsable(r) == token[r] \in {"open", "expired"} /\ reqState[r] = "pending"

\* A fault: the link is spent by its own statement, before the state is read
\* and outside the transaction that a conflict rolls back.
SpendsLinkFirst(c) ==
  LET r == clerk[c].req IN
  /\ At(c, "mail_reject")
  /\ mu = NoClerk
  /\ token' = [token EXCEPT ![r] = "used"]
  /\ Return(c)
  /\ UNCHANGED <<reqState, reqTTL, effective, dispatches, ladder, protected, stops>>

approveDo_Reject(c) ==
  LET r == clerk[c].req IN
  /\ At(c, "mail_reject")
  /\ mu = NoClerk
  /\ LinkUsable(r)
  /\ token' = [token EXCEPT ![r] = "used"]
  /\ reqState' = [reqState EXCEPT ![r] = "rejected"]
  /\ Return(c)
  /\ UNCHANGED <<reqTTL, effective, dispatches, ladder, protected, stops>>

approveDo_Approve(c) ==
  LET r == clerk[c].req IN
  /\ At(c, "mail_approve")
  /\ LinkUsable(r)
  /\ Lock(c)
  /\ token' = [token EXCEPT ![r] = "used"]
  /\ Activate(r)
  /\ Goto(c, "dispatch")
  /\ UNCHANGED <<reqTTL, dispatches, ladder, protected, stops>>

approveDo_Conflict(c) ==
  /\ clerk[c].pc \in {"mail_approve", "mail_reject"}
  /\ mu = NoClerk
  /\ ~LinkUsable(clerk[c].req)
  /\ Conflict(c)
  /\ UNCHANGED <<tableVars, stops>>

-----------------------------------------------------------------------------
(* dispatch.CreateDispatch and Handler.recordLadder, under decideMu.        *)

CreateDispatch_Veto(c) ==
  LET r == clerk[c].req IN
  /\ At(c, "dispatch")
  /\ TargetOf[r] \in protected
  /\ reqState' = [reqState EXCEPT ![r] = "safety_blocked"]
  /\ Return(c)
  /\ UNCHANGED <<reqTTL, effective, token, dispatches, ladder, protected, stops>>

\* CreateDispatch reads the protected set and inserts the row in one step: only
\* an edit of the set from outside the program could come between the two.
\*
\* A fault: the lock is let go before the ladder is updated.
UnlocksBeforeLadder(c) ==
  LET r == clerk[c].req IN
  /\ At(c, "dispatch")
  /\ TargetOf[r] \notin protected
  /\ dispatches' = IF HasRow(r) THEN dispatches
                   ELSE Append(dispatches, [req |-> r, ttl |-> reqTTL[r]])
  /\ mu' = NoClerk
  /\ Goto(c, "ladder")
  /\ UNCHANGED <<reqState, reqTTL, effective, token, ladder, protected, stops>>

CreateDispatch(c) ==
  LET r == clerk[c].req IN
  /\ At(c, "dispatch")
  /\ TargetOf[r] \notin protected
  /\ dispatches' = IF HasRow(r) THEN dispatches
                   ELSE Append(dispatches, [req |-> r, ttl |-> reqTTL[r]])
  /\ Goto(c, "ladder")
  /\ UNCHANGED <<reqState, reqTTL, effective, token, ladder, protected, mu, stops>>

recordLadder(c) ==
  /\ At(c, "ladder")
  /\ clerk' = [clerk EXCEPT ![c].pc = "ladder_write",
                            ![c].row = ladder[TargetOf[clerk[c].req]]]
  /\ UNCHANGED <<tableVars, mu, stops>>

recordLadder_Write(c) ==
  /\ At(c, "ladder_write")
  /\ ladder' = [ladder EXCEPT ![TargetOf[clerk[c].req]] = RegisterBan(clerk[c].row)]
  /\ Return(c)
  /\ UNCHANGED <<reqState, reqTTL, effective, token, dispatches, protected, stops>>

-----------------------------------------------------------------------------
(* POST /bans/:id/reject.                                                  *)

banReject(c, r) ==
  /\ At(c, "idle")
  /\ Lock(c)
  /\ reqState[r] = "pending"
  /\ Begin(c, "reject", r)
  /\ UNCHANGED <<tableVars, stops>>

banReject_Commit(c) ==
  LET r == clerk[c].req IN
  /\ At(c, "reject")
  /\ reqState' = IF reqState[r] = "pending" THEN [reqState EXCEPT ![r] = "rejected"] ELSE reqState
  /\ Return(c)
  /\ UNCHANGED <<reqTTL, effective, token, dispatches, ladder, protected, stops>>

-----------------------------------------------------------------------------
(* POST /lookup/ban/:id/rollback: no lock, and no condition on its updates. *)

lookupRollback(c, r) ==
  /\ At(c, "idle")
  /\ \/ reqState[r] = "pending" /\ Begin(c, "roll_reject", r)
     \/ reqState[r] = "active" /\ Begin(c, "roll_delete", r)
  /\ UNCHANGED <<tableVars, mu, stops>>

lookupRollback_Reject(c) ==
  /\ At(c, "roll_reject")
  /\ reqState' = [reqState EXCEPT ![clerk[c].req] = "rejected"]
  /\ Return(c)
  /\ UNCHANGED <<reqTTL, effective, token, dispatches, ladder, protected, stops>>

\* The kernel entry of the target is deleted (Enforcement says what that does);
\* where the map is closed the answer is 500 and the request stays active.
lookupRollback_Delete(c) ==
  /\ At(c, "roll_delete")
  /\ \/ Goto(c, "roll_revoke") /\ UNCHANGED mu
     \/ Return(c)
  /\ UNCHANGED <<tableVars, stops>>

\* A fault: after the delete the request goes back to the queue.
RevokeReopens(c) ==
  /\ At(c, "roll_revoke")
  /\ reqState' = [reqState EXCEPT ![clerk[c].req] = "pending"]
  /\ Return(c)
  /\ UNCHANGED <<reqTTL, effective, token, dispatches, ladder, protected, stops>>

lookupRollback_Revoke(c) ==
  /\ At(c, "roll_revoke")
  /\ reqState' = [reqState EXCEPT ![clerk[c].req] = "revoked"]
  /\ Return(c)
  /\ UNCHANGED <<reqTTL, effective, token, dispatches, ladder, protected, stops>>

-----------------------------------------------------------------------------
(* What the handlers do not decide.                                        *)

\* A handler stops between two statements; the tables keep what it wrote.
Abort(c) ==
  /\ ~At(c, "idle")
  /\ stops < MaxStops
  /\ stops' = stops + 1
  /\ Return(c)
  /\ UNCHANGED tableVars

TokenExpires(r) ==
  /\ token[r] = "open"
  /\ token' = [token EXCEPT ![r] = "expired"]
  /\ UNCHANGED <<reqState, reqTTL, effective, dispatches, ladder, protected, mu, clerk, stops>>

ObserveEnds(t) ==
  /\ ladder[t].observing
  /\ ladder' = [ladder EXCEPT ![t].observing = FALSE]
  /\ UNCHANGED <<reqState, reqTTL, effective, token, dispatches, protected, mu, clerk, stops>>

\* A row of protected_targets is added; no page of the program does it.
Protect(t) ==
  /\ t \notin protected
  /\ protected' = protected \union {t}
  /\ UNCHANGED <<reqState, reqTTL, effective, token, dispatches, ladder, mu, clerk, stops>>

-----------------------------------------------------------------------------
(* The specification.                                                      *)

GovInit ==
  /\ reqState = [r \in Requests |-> "none"]
  /\ reqTTL = [r \in Requests |-> 0]
  /\ effective = {}
  /\ token = [r \in Requests |-> "none"]
  /\ dispatches = << >>
  /\ ladder = [t \in Targets |-> NoRow]
  /\ protected = {}
  /\ mu = NoClerk
  /\ clerk = [c \in Clerks |-> Idle]
  /\ stops = 0

\* The next step of a handler that has begun, other than giving up.
Continue(c) ==
  \/ banCreate_Insert(c)
  \/ GenTokensAndSend(c)
  \/ banApprove_Commit(c)
  \/ approveDo_Reject(c)
  \/ approveDo_Approve(c)
  \/ approveDo_Conflict(c)
  \/ CreateDispatch_Veto(c)
  \/ CreateDispatch(c)
  \/ recordLadder(c)
  \/ recordLadder_Write(c)
  \/ banReject_Commit(c)
  \/ lookupRollback_Reject(c)
  \/ lookupRollback_Delete(c)
  \/ lookupRollback_Revoke(c)

Arrive(c, r) ==
  \/ banCreate(c, r)
  \/ banApprove(c, r)
  \/ approveDo(c, r, "mail_approve")
  \/ approveDo(c, r, "mail_reject")
  \/ banReject(c, r)
  \/ lookupRollback(c, r)

GovNext ==
  \/ \E c \in Clerks : Continue(c)
  \/ \E c \in Clerks, r \in Requests : Arrive(c, r)
  \/ \E c \in Clerks : Abort(c)
  \/ \E r \in Requests : TokenExpires(r)
  \/ \E t \in Targets : ObserveEnds(t)
  \/ \E t \in Targets : Protect(t)

GovSpec == GovInit /\ [][GovNext]_govVars

-----------------------------------------------------------------------------
(* Properties.                                                             *)

GovTypeOK ==
  /\ reqState \in [Requests -> ReqStates]
  /\ reqTTL \in [Requests -> Nat]
  /\ effective \subseteq Requests
  /\ token \in [Requests -> Tokens]
  /\ dispatches \in Seq(DispatchRows)
  /\ ladder \in [Targets -> LadderRows]
  /\ protected \subseteq Targets
  /\ mu \in Clerks \union {NoClerk}
  /\ clerk \in [Clerks -> ClerkRecords]
  /\ stops \in Nat

\* decideMu is held exactly by the handler that is between its read and the
\* end of its decision: every way out of the approving and rejecting handlers,
\* conflicts, vetoes and panics included, lets it go.
LockDiscipline == \A c \in Clerks : clerk[c].pc \in LockedSteps <=> mu = c

\* The lifecycle of BanLifecycle, as the tables record it.
Phase(s) ==
  CASE s \in {"none", "pending", "active"} -> s
    [] s \in {"rejected", "revoked", "safety_blocked"} -> "closed"

RowsOf(r) == { i \in DOMAIN dispatches : dispatches[i].req = r }

Lifecycle == INSTANCE BanLifecycle WITH
  phase    <- [r \in Requests |-> Phase(reqState[r])],
  approved <- effective,
  orders   <- [r \in Requests |-> Cardinality(RowsOf(r))]

\* Whatever handlers run at once, and lookupRollback writes without the lock:
\* a request is approved at most once and only from pending, never leaves a
\* closed state, and has at most one dispatch row, only after its approval.
ImplementsLifecycle == Lifecycle!LifecycleSpec

\* A request the protected set blocked never has a dispatch row, so what the
\* audit calls blocked is not being enforced.
VetoedNeverDispatched ==
  \A r \in Requests : reqState[r] = "safety_blocked" => ~HasRow(r)

\* A spent approval link has decided its request: the link is marked in the
\* transaction that decides, and a conflict rolls the mark back.
SpentLinkDecided ==
  \A r \in Requests : token[r] = "used" => reqState[r] \notin {"none", "pending"}

RowsFor(t) == { i \in DOMAIN dispatches : TargetOf[dispatches[i].req] = t }

InLadder(t) ==
  { c \in Clerks : clerk[c].pc \in {"ladder", "ladder_write"} /\ TargetOf[clerk[c].req] = t }

\* recordLadder reads a row and writes it back, and loses no offence: as long
\* as no handler stopped halfway, the ladder of a target counts every dispatch
\* ordered against it.
LadderCountsDispatches ==
  stops = 0 => \A t \in Targets :
    ladder[t].offenses + Cardinality(InLadder(t)) = Cardinality(RowsFor(t))

=============================================================================
