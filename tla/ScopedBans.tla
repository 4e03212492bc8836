----------------------------- MODULE ScopedBans -----------------------------
(***************************************************************************)
(* The control plane for bans by country or AS (internal/web/scoped.go, the *)
(* scoped half of lookup.go): a selection is resolved to source prefixes    *)
(* against the prefix database, the prefixes are reserved in the quota      *)
(* (internal/quota), and the reservation is given back on the way out.      *)
(*                                                                         *)
(* The count of prefixes is in three places: ban.count is the column, the   *)
(* tracker holds the sums in memory, and a handler works with the count it  *)
(* read.  The database of prefixes may be reloaded at any moment, so what a *)
(* selection resolves to changes under all three.                           *)
(*                                                                         *)
(* A ban protects one host (scoped) or all of them (global): the two kinds  *)
(* have a quota of their own.                                               *)
(***************************************************************************)
EXTENDS Escalation, FiniteSetsExt

CONSTANTS Bans,         \* ids of scoped_bans
          NoBan,
          Hosts,        \* hosts to protect
          HostOf,       \* the host a ban names, if it names one
          Clerks,       \* handler goroutines
          NoClerk,
          Sizes,        \* how many prefixes a selection may resolve to
          HighWater,    \* [kind |-> prefixes that may be reserved]
          MaxEvents     \* bound on reloads, edits of the protected set and stops

ASSUME ScopedAssumption ==
  /\ IsFiniteSet(Bans)
  /\ HostOf \in [Bans -> Hosts]
  /\ NoBan \notin Bans
  /\ NoClerk \notin Clerks
  /\ Sizes \subseteq Nat
  /\ HighWater \in [{"scoped", "global"} -> Nat]
  /\ MaxEvents \in Nat

VARIABLES
  ban,        \* scoped_bans: state, global or not, count of prefixes and TTL
  effective,  \* scoped_bans.effective_at is set
  rows,       \* rows[b]: the dispatch rows of b, as their numbers of prefixes
  tracker,    \* quota.Tracker: reserved prefixes and rules of each kind
  ladder,     \* ban_ladders, by host
  size,       \* size[b]: how many prefixes the selection of b resolves to now
  protected,  \* hosts, and bans with prefixes, that the protected set covers
  mu,         \* the clerk that holds decideMu
  clerk,      \* what each handler is doing
  upsets,     \* history: what has put the tracker out since the start
  reloads, faults

dbVars == <<ban, effective, rows, ladder>>
outside == <<size, protected, reloads>>
scopedVars == <<dbVars, tracker, outside, mu, clerk, upsets, faults>>

-----------------------------------------------------------------------------
(* Rows and records.                                                       *)

Kinds == {"scoped", "global"}

Kind(row) == IF row.global THEN "global" ELSE "scoped"

BanStates == {"none", "pending", "active", "rejected", "revoked", "safety_blocked"}

BanRows == [state : BanStates, global : BOOLEAN, count : Nat, ttl : Nat]

Usages == [prefixes : Nat, rules : Nat]

\* Steps taken with decideMu held; "release_locked" is the end of a rejection.
LockedSteps == {"approve", "resolve", "rereserve", "restore", "recount", "dispatch",
                "rows", "ladder", "reject", "release_locked"}

UnlockedRollback == {"roll_reject", "roll_delete", "roll_revoke", "release"}

Steps == LockedSteps \union UnlockedRollback \union {"idle", "reserve", "insert"}

Idle == [pc |-> "idle", ban |-> NoBan, global |-> FALSE, count |-> 0, new |-> 0, ttl |-> 0]

ClerkRecords ==
  [pc : Steps, ban : Bans \union {NoBan}, global : BOOLEAN, count : Nat, new : Nat, ttl : Nat]

Upsets == {"overlap", "restore", "veto", "stop", "unsaved"}

At(c, step) == clerk[c].pc = step

Goto(c, step) == clerk' = [clerk EXCEPT ![c].pc = step]

Return(c) ==
  /\ clerk' = [clerk EXCEPT ![c] = Idle]
  /\ mu' = IF mu = c THEN NoClerk ELSE mu

\* AssertSafe of the host, or AssertSafeAll of the prefixes of a global ban.
Vetoed(b, global) == (IF global THEN b ELSE HostOf[b]) \in protected

Lock(c) == mu = NoClerk /\ mu' = c

SetState(b, s) == ban' = [ban EXCEPT ![b].state = s]

\* A handler begins on b with what it reads of the row.  The history notes
\* when it overlaps a rollback of b, or is one that overlaps another handler.
Begin(c, step, b) ==
  /\ clerk' = [clerk EXCEPT ![c] =
       [Idle EXCEPT !.pc = step, !.ban = b, !.global = ban[b].global, !.count = ban[b].count]]
  /\ upsets' = IF \E d \in Clerks \ {c} :
                    /\ clerk[d].ban = b
                    /\ {step, clerk[d].pc} \intersect UnlockedRollback # {}
               THEN upsets \union {"overlap"} ELSE upsets

\* What comes from outside the handlers is bounded.
Room == reloads + faults + Cardinality(protected) < MaxEvents

-----------------------------------------------------------------------------
(* The quota.                                                              *)

Fits(k, n) == tracker[k].prefixes + n <= HighWater[k]

Reserve(k, n) ==
  /\ Fits(k, n)
  /\ tracker' = [tracker EXCEPT ![k] = [prefixes |-> @.prefixes + n, rules |-> @.rules + 1]]

\* A fault: more is given back than was taken, and the sum goes below zero.
BelowZero(n) == n

AtLeastZero(n) == Max({0, n})

Release(k, n) ==
  tracker' = [tracker EXCEPT ![k] =
    [prefixes |-> AtLeastZero(@.prefixes - n), rules |-> AtLeastZero(@.rules - 1)]]

\* quota.Check: the usage it looks at is that of the scoped bans, whatever the
\* kind of the ban.
Allowed(n) == n > 0 /\ Fits("scoped", n)

Live(b) == ban[b].state \in {"pending", "active"}

LiveOf(k) == { b \in Bans : Kind(ban[b]) = k /\ Live(b) }

Counted(S) == SumFunction([b \in S |-> ban[b].count])

\* A fault: only the bans in force are counted.
CountsActiveOnly ==
  LET inForce(k) == { b \in LiveOf(k) : ban[b].state = "active" } IN
  [k \in Kinds |-> [prefixes |-> Counted(inForce(k)), rules |-> Cardinality(inForce(k))]]

restoreQuota ==
  [k \in Kinds |-> [prefixes |-> Counted(LiveOf(k)), rules |-> Cardinality(LiveOf(k))]]

-----------------------------------------------------------------------------
(* POST /scoped: resolve, check, reserve, then insert.                      *)

scopedBanCreate(c, b, global) ==
  /\ At(c, "idle")
  /\ ban[b].state = "none"
  /\ \A d \in Clerks : clerk[d].ban # b
  /\ ~Vetoed(b, global)
  /\ Allowed(size[b])
  /\ clerk' = [clerk EXCEPT ![c] =
       [Idle EXCEPT !.pc = "reserve", !.ban = b, !.global = global, !.count = size[b]]]
  /\ UNCHANGED <<dbVars, tracker, outside, mu, upsets, faults>>

scopedBanCreate_Reserve(c) ==
  LET b == clerk[c].ban IN
  /\ At(c, "reserve")
  /\ \/ /\ Reserve(Kind(clerk[c]), clerk[c].count)
        /\ clerk' = [clerk EXCEPT ![c].pc = "insert",
                       ![c].ttl = IF clerk[c].global THEN 0 ELSE NextTTL(ladder[HostOf[b]])]
        /\ UNCHANGED mu
     \/ /\ ~Fits(Kind(clerk[c]), clerk[c].count)
        /\ Return(c)
        /\ UNCHANGED tracker
  /\ UNCHANGED <<dbVars, outside, upsets, faults>>

scopedBanCreate_Insert(c) ==
  /\ At(c, "insert")
  /\ ban' = [ban EXCEPT ![clerk[c].ban] =
       [state |-> "pending", global |-> clerk[c].global,
        count |-> clerk[c].count, ttl |-> clerk[c].ttl]]
  /\ Return(c)
  /\ UNCHANGED <<effective, rows, ladder, tracker, outside, upsets, faults>>

scopedBanCreate_InsertFails(c) ==
  /\ At(c, "insert")
  /\ Room
  /\ faults' = faults + 1
  /\ Release(Kind(clerk[c]), clerk[c].count)
  /\ Return(c)
  /\ UNCHANGED <<dbVars, outside, upsets>>

-----------------------------------------------------------------------------
(* POST /scoped/:id/approve, under decideMu from here to its return.        *)

scopedBanApprove(c, b) ==
  /\ At(c, "idle")
  /\ Lock(c)
  /\ ban[b].state = "pending"
  /\ Begin(c, "approve", b)
  /\ UNCHANGED <<dbVars, tracker, outside, faults>>

\* A fault: the update is not conditional on the state being pending still.
CommitsUnchecked(c) ==
  /\ At(c, "approve")
  /\ SetState(clerk[c].ban, "active")
  /\ effective' = effective \union {clerk[c].ban}
  /\ Goto(c, "resolve")
  /\ UNCHANGED <<rows, ladder, tracker, outside, mu, upsets, faults>>

scopedBanApprove_Commit(c) ==
  LET b == clerk[c].ban IN
  /\ At(c, "approve")
  /\ \/ /\ ban[b].state = "pending"
        /\ SetState(b, "active")
        /\ effective' = effective \union {b}
        /\ clerk' = [clerk EXCEPT ![c].pc = "resolve", ![c].count = ban[b].count]
        /\ UNCHANGED mu
     \/ /\ ban[b].state # "pending"
        /\ Return(c)
        /\ UNCHANGED <<ban, effective>>
  /\ UNCHANGED <<rows, ladder, tracker, outside, upsets, faults>>

\* The selection is resolved again.  If its count has changed since it was
\* submitted, the reservation is given back before the new one is made.
scopedBanApprove_Resolve(c) ==
  LET b == clerk[c].ban IN
  /\ At(c, "resolve")
  /\ \/ /\ size[b] = clerk[c].count
        /\ clerk' = [clerk EXCEPT ![c].pc = "dispatch", ![c].new = size[b]]
        /\ UNCHANGED tracker
     \/ /\ size[b] # clerk[c].count
        /\ clerk' = [clerk EXCEPT ![c].pc = "rereserve", ![c].new = size[b]]
        /\ Release(Kind(clerk[c]), clerk[c].count)
  /\ UNCHANGED <<dbVars, outside, mu, upsets, faults>>

\* The database is not there after a restart: the ban is active, without rows.
scopedBanApprove_NoDatabase(c) ==
  /\ At(c, "resolve")
  /\ Room
  /\ faults' = faults + 1
  /\ Return(c)
  /\ UNCHANGED <<dbVars, tracker, outside, upsets>>

scopedBanApprove_Rereserve(c) ==
  LET b == clerk[c].ban IN
  /\ At(c, "rereserve")
  /\ \/ Reserve(Kind(clerk[c]), clerk[c].new) /\ Goto(c, "recount")
     \/ ~Fits(Kind(clerk[c]), clerk[c].new) /\ Goto(c, "restore") /\ UNCHANGED tracker
  /\ UNCHANGED <<dbVars, outside, mu, upsets, faults>>

\* The old reservation is made again, and nobody looks whether that succeeds.
scopedBanApprove_Restore(c) ==
  LET b == clerk[c].ban IN
  /\ At(c, "restore")
  /\ \/ Reserve(Kind(clerk[c]), clerk[c].count) /\ UNCHANGED upsets
     \/ /\ ~Fits(Kind(clerk[c]), clerk[c].count)
        /\ upsets' = upsets \union {"restore"}
        /\ UNCHANGED tracker
  /\ Return(c)
  /\ UNCHANGED <<dbVars, outside, faults>>

\* A fault: the column keeps the count of the submission.
KeepsOldCount(c) ==
  /\ At(c, "recount")
  /\ Goto(c, "dispatch")
  /\ UNCHANGED <<dbVars, tracker, outside, mu, upsets, faults>>

scopedBanApprove_Recount(c) ==
  /\ At(c, "recount")
  /\ ban' = [ban EXCEPT ![clerk[c].ban].count = clerk[c].new]
  /\ Goto(c, "dispatch")
  /\ UNCHANGED <<effective, rows, ladder, tracker, outside, mu, upsets, faults>>

\* The error of that update is not looked at either.
scopedBanApprove_RecountFails(c) ==
  /\ At(c, "recount")
  /\ Room
  /\ faults' = faults + 1
  /\ upsets' = upsets \union {"stop"}
  /\ Goto(c, "dispatch")
  /\ UNCHANGED <<dbVars, tracker, outside, mu>>

-----------------------------------------------------------------------------
(* dispatch.CreateScopedDispatch, CreateGlobalScopedDispatch, and the        *)
(* ladder.  A veto does not give the reservation back.                      *)

CreateDispatch_Veto(c) ==
  /\ At(c, "dispatch")
  /\ Vetoed(clerk[c].ban, clerk[c].global)
  /\ SetState(clerk[c].ban, "safety_blocked")
  /\ upsets' = upsets \union {"veto"}
  /\ Return(c)
  /\ UNCHANGED <<effective, rows, ladder, tracker, outside, faults>>

CreateScopedDispatch(c) ==
  LET b == clerk[c].ban IN
  /\ At(c, "dispatch")
  /\ ~clerk[c].global /\ ~Vetoed(b, FALSE)
  /\ rows' = IF rows[b] = << >> THEN [rows EXCEPT ![b] = <<clerk[c].new>>] ELSE rows
  /\ Goto(c, "ladder")
  /\ UNCHANGED <<ban, effective, ladder, tracker, outside, mu, upsets, faults>>

\* Every prefix of a global ban is a row, a statement and a BanID of its own.
\* The protected set is looked at once, before the first.
CreateGlobalScopedDispatch(c) ==
  LET b == clerk[c].ban IN
  /\ \/ At(c, "dispatch") /\ clerk[c].global /\ ~Vetoed(b, TRUE)
     \/ At(c, "rows")
  /\ \/ /\ Len(rows[b]) < clerk[c].new
        /\ rows' = [rows EXCEPT ![b] = Append(@, 1)]
        /\ Goto(c, "rows")
        /\ UNCHANGED mu
     \/ /\ Len(rows[b]) >= clerk[c].new
        /\ Return(c)
        /\ UNCHANGED rows
  /\ UNCHANGED <<ban, effective, ladder, tracker, outside, upsets, faults>>

\* Read and written under decideMu: one step here, two in Governance.
recordLadder(c) ==
  /\ At(c, "ladder")
  /\ ladder' = [ladder EXCEPT ![HostOf[clerk[c].ban]] = RegisterBan(@)]
  /\ Return(c)
  /\ UNCHANGED <<ban, effective, rows, tracker, outside, upsets, faults>>

-----------------------------------------------------------------------------
(* POST /scoped/:id/reject, under decideMu.                                 *)

scopedBanReject(c, b) ==
  /\ At(c, "idle")
  /\ Lock(c)
  /\ ban[b].state = "pending"
  /\ Begin(c, "reject", b)
  /\ UNCHANGED <<dbVars, tracker, outside, faults>>

scopedBanReject_Commit(c) ==
  /\ At(c, "reject")
  /\ \/ /\ ban[clerk[c].ban].state = "pending"
        /\ SetState(clerk[c].ban, "rejected")
        /\ Goto(c, "release_locked")
        /\ UNCHANGED mu
     \/ /\ ban[clerk[c].ban].state # "pending"
        /\ Return(c)
        /\ UNCHANGED ban
  /\ UNCHANGED <<effective, rows, ladder, tracker, outside, upsets, faults>>

\* The last step of a rejection and of every rollback.
ReleaseQuota(c) ==
  /\ clerk[c].pc \in {"release_locked", "release"}
  /\ Release(Kind(clerk[c]), clerk[c].count)
  /\ Return(c)
  /\ UNCHANGED <<dbVars, outside, upsets, faults>>

-----------------------------------------------------------------------------
(* POST /scoped/:id/revoke and /lookup/scoped/:id/rollback: no lock, and no *)
(* condition on their updates.  The second also takes back pending bans.    *)

scopedBanRevoke(c, b) ==
  /\ At(c, "idle")
  /\ ban[b].state = "active"
  /\ Begin(c, "roll_delete", b)
  /\ UNCHANGED <<dbVars, tracker, outside, mu, faults>>

lookupRollback(c, b) ==
  /\ At(c, "idle")
  /\ ban[b].state = "pending"
  /\ Begin(c, "roll_reject", b)
  /\ UNCHANGED <<dbVars, tracker, outside, mu, faults>>

lookupRollback_Reject(c) ==
  /\ At(c, "roll_reject")
  /\ SetState(clerk[c].ban, "rejected")
  /\ Goto(c, "release")
  /\ UNCHANGED <<effective, rows, ladder, tracker, outside, mu, upsets, faults>>

\* The keys of the rows it finds are deleted from the kernel (Executor); where
\* the maps are closed the answer is 500 and the ban stays active.
scopedBanRevoke_Delete(c) ==
  /\ At(c, "roll_delete")
  /\ \/ Goto(c, "roll_revoke") /\ UNCHANGED mu
     \/ Return(c)
  /\ UNCHANGED <<dbVars, tracker, outside, upsets, faults>>

scopedBanRevoke_Commit(c) ==
  /\ At(c, "roll_revoke")
  /\ SetState(clerk[c].ban, "revoked")
  /\ Goto(c, "release")
  /\ UNCHANGED <<effective, rows, ladder, tracker, outside, mu, upsets, faults>>

\* Nobody looks at the error of either update: the ban stays live and what it
\* reserved is given back all the same.
lookupRollback_UpdateFails(c) ==
  /\ clerk[c].pc \in {"roll_reject", "roll_revoke"}
  /\ Room
  /\ faults' = faults + 1
  /\ upsets' = upsets \union {"unsaved"}
  /\ Goto(c, "release")
  /\ UNCHANGED <<dbVars, tracker, outside, mu>>

-----------------------------------------------------------------------------
(* What the handlers do not decide.                                        *)

\* A handler stops between two statements; what it wrote and reserved stays.
Abort(c) ==
  /\ ~At(c, "idle")
  /\ Room
  /\ faults' = faults + 1
  /\ upsets' = upsets \union {"stop"}
  /\ Return(c)
  /\ UNCHANGED <<dbVars, tracker, outside>>

\* The process ends at any point and a new one counts the live bans.
Restart ==
  /\ Room
  /\ faults' = faults + 1
  /\ clerk' = [c \in Clerks |-> Idle]
  /\ mu' = NoClerk
  /\ tracker' = restoreQuota
  /\ upsets' = {}
  /\ UNCHANGED <<dbVars, outside>>

\* The database of prefixes is synchronised, imported or overridden.
Reload(b) ==
  /\ Room
  /\ reloads' = reloads + 1
  /\ \E n \in Sizes \ {size[b]} : size' = [size EXCEPT ![b] = n]
  /\ UNCHANGED <<dbVars, tracker, protected, mu, clerk, upsets, faults>>

Protect(x) ==
  /\ x \notin protected
  /\ Room
  /\ protected' = protected \union {x}
  /\ UNCHANGED <<dbVars, tracker, size, reloads, mu, clerk, upsets, faults>>

-----------------------------------------------------------------------------
(* The specification.                                                      *)

ScopedInit ==
  /\ ban = [b \in Bans |-> [state |-> "none", global |-> FALSE, count |-> 0, ttl |-> 0]]
  /\ effective = {}
  /\ rows = [b \in Bans |-> << >>]
  /\ tracker = [k \in Kinds |-> [prefixes |-> 0, rules |-> 0]]
  /\ ladder = [h \in Hosts |-> NoRow]
  /\ size \in [Bans -> Sizes \ {0}]
  /\ protected = {}
  /\ mu = NoClerk
  /\ clerk = [c \in Clerks |-> Idle]
  /\ upsets = {}
  /\ reloads = 0 /\ faults = 0

Continue(c) ==
  \/ scopedBanCreate_Reserve(c)
  \/ scopedBanCreate_Insert(c)
  \/ scopedBanCreate_InsertFails(c)
  \/ scopedBanApprove_Commit(c)
  \/ scopedBanApprove_Resolve(c)
  \/ scopedBanApprove_NoDatabase(c)
  \/ scopedBanApprove_Rereserve(c)
  \/ scopedBanApprove_Restore(c)
  \/ scopedBanApprove_Recount(c)
  \/ scopedBanApprove_RecountFails(c)
  \/ CreateDispatch_Veto(c)
  \/ CreateScopedDispatch(c)
  \/ CreateGlobalScopedDispatch(c)
  \/ recordLadder(c)
  \/ scopedBanReject_Commit(c)
  \/ lookupRollback_Reject(c)
  \/ scopedBanRevoke_Delete(c)
  \/ scopedBanRevoke_Commit(c)
  \/ lookupRollback_UpdateFails(c)
  \/ ReleaseQuota(c)

Arrive(c, b) ==
  \/ \E global \in BOOLEAN : scopedBanCreate(c, b, global)
  \/ scopedBanApprove(c, b)
  \/ scopedBanReject(c, b)
  \/ scopedBanRevoke(c, b)
  \/ lookupRollback(c, b)

ScopedNext ==
  \/ \E c \in Clerks : Continue(c)
  \/ \E c \in Clerks, b \in Bans : Arrive(c, b)
  \/ \E c \in Clerks : Abort(c)
  \/ Restart
  \/ \E b \in Bans : Reload(b)
  \/ \E x \in Hosts \union Bans : Protect(x)

ScopedSpec == ScopedInit /\ [][ScopedNext]_scopedVars

-----------------------------------------------------------------------------
(* Properties.                                                             *)

ScopedTypeOK ==
  /\ ban \in [Bans -> BanRows]
  /\ effective \subseteq Bans
  /\ rows \in [Bans -> Seq(Nat)]
  /\ tracker \in [Kinds -> Usages]
  /\ ladder \in [Hosts -> LadderRows]
  /\ size \in [Bans -> Sizes]
  /\ protected \subseteq Hosts \union Bans
  /\ mu \in Clerks \union {NoClerk}
  /\ clerk \in [Clerks -> ClerkRecords]
  /\ upsets \subseteq Upsets
  /\ reloads \in Nat /\ faults \in Nat

\* What is reserved for b at this moment, as the handler at work on it, if any,
\* has left it; {} if nothing is.
Reserved(b) ==
  LET by(steps) == { c \in Clerks : clerk[c].ban = b /\ clerk[c].pc \in steps } IN
  CASE by({"rereserve", "restore"}) # {} -> {}
    [] by({"recount"}) # {} -> { clerk[c].new : c \in by({"recount"}) }
    [] by({"insert", "release", "release_locked"}) # {} ->
         { clerk[c].count : c \in by({"insert", "release", "release_locked"}) }
    [] OTHER -> IF Live(b) THEN {ban[b].count} ELSE {}

KindNow(b) ==
  LET creating == { c \in Clerks : clerk[c].ban = b /\ At(c, "insert") } IN
  IF creating = {} THEN Kind(ban[b]) ELSE Kind(clerk[CHOOSE c \in creating : TRUE])

Held(k) == { b \in Bans : KindNow(b) = k /\ Reserved(b) # {} }

\* The quota is exact: what the tracker counts is what the live bans and the
\* handlers at work hold, through submissions, approvals, rejections, rollbacks
\* and new counts, and again after any restart.  Five upsets put it out until
\* the next start: a handler that stopped halfway (its update of the column
\* failing unseen included), a veto at dispatch, an old reservation that did not
\* fit again, a rollback that overlapped another handler on its ban, and a
\* rollback whose update of the state failed unseen.
QuotaExact ==
  upsets = {} => \A k \in Kinds :
    tracker[k] = [prefixes |-> SumFunction([b \in Held(k) |-> Max(Reserved(b))]),
                  rules |-> Cardinality(Held(k))]

\* A ban's rows hold as many prefixes as its column says, so that a rollback
\* gives back what it took: also when the database changed before the approval.
RowsMatchCount ==
  faults = 0 => \A b \in Bans :
    \/ rows[b] = << >>
    \/ \E c \in Clerks : At(c, "rows") /\ clerk[c].ban = b
    \/ SumFunction(rows[b]) = ban[b].count

Phase(s) ==
  CASE s \in {"none", "pending", "active"} -> s
    [] s \in {"rejected", "revoked", "safety_blocked"} -> "closed"

Lifecycle == INSTANCE BanLifecycle WITH
  Requests <- Bans,
  phase    <- [b \in Bans |-> Phase(ban[b].state)],
  approved <- effective,
  orders   <- [b \in Bans |-> IF rows[b] = << >> THEN 0 ELSE 1]

\* Bans by country and AS keep the promises of the plain ones.
ScopedImplementsLifecycle == Lifecycle!LifecycleSpec

\* What the README says of the quota: beyond it nothing is let through, so the
\* live bans of a kind never hold more than its high water mark.
NothingBeyondQuota == \A k \in Kinds : Counted(LiveOf(k)) <= HighWater[k]

=============================================================================
