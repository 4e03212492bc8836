---------------------------- MODULE Enforcement ----------------------------
(***************************************************************************)
(* The whole path of a plain (global) ban, from the form to the packet: the *)
(* handlers of Governance and the loop, the maps and the process of         *)
(* Executor, in one process and over one database.                          *)
(*                                                                         *)
(* The two meet at three points: CreateDispatch inserts the row the loop    *)
(* polls; a rollback of an active request deletes its key from the map in   *)
(* the goroutine of its handler; and the handlers end with the process.     *)
(***************************************************************************)
EXTENDS Governance, Executor

\* A rule id is the id of a request, a target is the prefix that is banned, and
\* handlers are what revokes.
ASSUME EnforcementAssumption ==
  /\ Requests = Rules
  /\ Targets \subseteq Prefixes
  /\ \A r \in Rules : HostOf[r] = NoHost /\ PrefixesOf[r] = <<TargetOf[r]>>
  /\ Revokers = Clerks
  /\ { Ladder[n] : n \in DOMAIN Ladder } \subseteq TTLs

handlerVars == <<mu, clerk, stops>>
controlVars == <<reqState, reqTTL, effective, token, ladder, protected, handlerVars>>

\* What no handler touches, and what only a rollback touches.
executorOwn == <<now, acked, failed, loopVars, tableIds, procVars>>
rollbackOwn == <<kernelMaps, revVars>>

enfVars == <<execVars, controlVars>>

-----------------------------------------------------------------------------
(* The handlers, while the server runs.                                    *)

Receive(c, r) ==
  /\ process = "up"
  /\ Arrive(c, r)
  /\ IF At(c, "roll_delete")' THEN Revoke(c, r) ELSE UNCHANGED <<executorOwn, rollbackOwn>>

Handle(c) ==
  /\ Running
  /\ clerk[c].pc \notin {"roll_delete", "roll_revoke"}
  /\ Continue(c)
  /\ UNCHANGED <<executorOwn, rollbackOwn>>

Rollback(c) ==
  \/ /\ lookupRollback_Delete(c)
     /\ MapsOpen <=> At(c, "roll_revoke")'
     /\ Revoke_Delete(c)
  \/ lookupRollback_Revoke(c) /\ Revoke_Done(c)

HandlerStops(c) ==
  /\ Running
  /\ Abort(c)
  /\ IF revoker[c] # Free THEN Revoke_GivesUp(c) ELSE UNCHANGED <<executorOwn, rollbackOwn>>

\* Links and observation periods run out, and the protected set is edited.
Surroundings ==
  /\ \/ \E r \in Rules : TokenExpires(r)
     \/ \E t \in Targets : ObserveEnds(t) \/ Protect(t)
  /\ UNCHANGED <<executorOwn, rollbackOwn>>

\* The handlers die with the process; what is in the tables stays.
ProcessEnds ==
  /\ Exit
  /\ clerk' = [c \in Clerks |-> Idle]
  /\ mu' = NoClerk
  /\ UNCHANGED <<reqState, reqTTL, effective, token, ladder, protected, stops>>

-----------------------------------------------------------------------------
(* The specification.                                                      *)

EnfInit == ExecInit /\ GovInit

ExecutorSteps ==
  /\ \/ Loop
     \/ \E i \in batch : MarkFails(i)
     \/ Stop
     \/ CloseXDP
     \/ Reboot
     \/ \E pin \in BOOLEAN : Start(pin)
     \/ Tick
  /\ UNCHANGED controlVars

EnfNext ==
  \/ \E c \in Clerks, r \in Rules : Receive(c, r)
  \/ \E c \in Clerks : Handle(c) \/ Rollback(c) \/ HandlerStops(c)
  \/ Surroundings
  \/ ExecutorSteps
  \/ ProcessEnds

EnfSpec == EnfInit /\ [][EnfNext]_enfVars

\* Goroutines are scheduled, and a statement or a free mutex does not make a
\* handler that has begun wait for ever; nor does the loop stop polling.  Nobody
\* has to click, and nothing has to fail, stop or start.
FairEnfSpec ==
  /\ EnfSpec
  /\ \A c \in Clerks : WF_enfVars(Handle(c) \/ Rollback(c))
  /\ WF_enfVars(process = "up" /\ Loop /\ UNCHANGED controlVars)

-----------------------------------------------------------------------------
(* Properties.                                                             *)

\* No packet is dropped on the word of a request nobody approved or one that
\* the protected set blocked, whichever handlers, crashes and restarts lie
\* between the form and the map; and the prefix is the one that was asked for.
OnlyApprovedIsEnforced ==
  \A p \in DOMAIN globalBans :
    LET r == globalBans[p].rule IN
    r \in effective /\ reqState[r] # "safety_blocked" /\ TargetOf[r] = p

\* A request that says "revoked" and whose rollback began after the executor
\* was done with it no longer has its rule in the kernel, whatever crashes and
\* restarts come between: its row is not taken up again.
RevokedRuleIsGone ==
  \A r \in Rules : reqState[r] = "revoked" /\ rollback[r] = "clean" =>
    \A p \in DOMAIN globalBans : globalBans[p].rule # r

RolledBackByAnother(r) ==
  \E q \in Rules \ {r} : TargetOf[q] = TargetOf[r] /\ rollback[q] # "no"

RowFailed(r) == \E i \in failed : dispatches[i].req = r

\* An approved request reaches the kernel, or its row fails, or it is closed,
\* or somebody lifts another ban of the same target: as long as the process
\* stays up, and unless a handler stopped before it was through.
ApprovedIsEnforced ==
  [](process = "up") =>
    \A r \in Rules :
      reqState[r] = "active" ~>
        \/ TargetOf[r] \in DOMAIN globalBans
        \/ RowFailed(r)
        \/ reqState[r] # "active"
        \/ RolledBackByAnother(r)
        \/ stops > 0

\* decideMu is free again and again: whoever holds it lets it go, whichever way
\* its handler ends, the stop after a panic included.
DecideMuReleased == []<>(mu = NoClerk \/ process # "up")

\* What the button of the lookup page says of a rollback: the ban is lifted at
\* once, so a revoked request has no rule in the kernel.
RevokedIsLifted ==
  \A r \in Rules : reqState[r] = "revoked" =>
    \A p \in DOMAIN globalBans : globalBans[p].rule # r

=============================================================================
