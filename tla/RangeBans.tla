------------------------------ MODULE RangeBans ------------------------------
(***************************************************************************)
(* What a ban by country or AS covers, from the form to the rows for the    *)
(* executor (internal/web/scoped.go, lookup.go, selfban.go, quota.Check,    *)
(* safety.Guard and the scoped part of dispatch.Service).                   *)
(*                                                                         *)
(* A ban is resolved three times: when it is submitted, when it is approved *)
(* and whenever somebody looks an address up; each time against the library *)
(* in service at that moment.  ScopedBans has the handlers that race on a   *)
(* ban and on its quota, with the size of a ban for its prefixes; here are  *)
(* the prefixes, and one handler at a time, which decideMu ensures.         *)
(***************************************************************************)
EXTENDS PrefixRange

CONSTANTS
  Bans,         \* bans that may be submitted
  Imports,      \* libraries an import or a saved text may put in service
  FirstImports, \* libraries that may be in service at first
  Shields,      \* prefixes an operator may protect
  HardCoded,    \* prefixes that safety.New protects always
  Clients,      \* addresses of operators, on the page or on another session
  PerRuleMax,   \* quota.PerRuleMaxPrefixes
  HighWater,    \* quota.GlobalHighWater and GlobalBanHighWater
  ShareMax      \* quota.MaxAddressSharePPM, as a number of addresses

ASSUME RangeBansAssumption ==
  /\ Imports \subseteq LibraryRecords /\ FirstImports \subseteq LibraryRecords
  /\ Shields \subseteq Prefixes /\ HardCoded \subseteq Prefixes /\ Clients \subseteq Addresses
  /\ PerRuleMax \in Nat /\ HighWater \in Nat /\ ShareMax \in Nat

VARIABLES
  library,    \* prefixdb.Global()
  protected,  \* the active rows of ProtectedTarget
  peers,      \* the other ends of sessions with this host's web or SSH port
  bans,       \* the table of scoped bans
  hand        \* what the approving handler holds

rangeVars == <<library, protected, peers, bans, hand>>

-----------------------------------------------------------------------------
(* Bans.                                                                   *)

Libraries == Imports \union FirstImports

\* `self` and `share` are the confirmations that were asked for and given, `sent`
\* that all rows are written.  `seen` and `guarded` are history: the library and
\* the operators' addresses at the submission; the library of the dispatch, the
\* rows of the protected set that were active from the approval on, and whether
\* the set could be read.
BanRecords ==
  [state : {"none", "pending", "active", "rejected", "revoked", "safety_blocked"},
   global : BOOLEAN, sel : Selectors, self : BOOLEAN, share : BOOLEAN,
   count : Nat, sent : BOOLEAN, rows : SUBSET Prefixes,
   seen : [library : Libraries, operators : SUBSET Clients],
   guarded : [library : Libraries, throughout : SUBSET Shields, read : BOOLEAN]]

NoBan ==
  [state |-> "none", global |-> FALSE, sel |-> CHOOSE sel \in Selectors : TRUE,
   self |-> FALSE, share |-> FALSE, count |-> 0, sent |-> FALSE, rows |-> {},
   seen    |-> [library |-> library, operators |-> {}],
   guarded |-> [library |-> library, throughout |-> {}, read |-> FALSE]]

\* The handler holds the prefixes its ban was resolved to, the protected set as it
\* has read it, and how many of the prefixes it has written a row for.
Hands ==
  [ban : SUBSET Bans, step : {"free", "resolve", "guard", "dispatch"},
   cidrs : Seq(Prefixes), shields : SUBSET (Shields \union HardCoded), done : Nat]

Free == [ban |-> {}, step |-> "free", cidrs |-> << >>, shields |-> {}, done |-> 0]

Holds(b, step) == b \in hand.ban /\ hand.step = step

Cidrs(sel) == Resolve(Database(library), sel)

-----------------------------------------------------------------------------
(* The checks.                                                             *)

\* A fault: a range is only refused where it begins within a protected prefix.
BeginsWithin(cidrs, shields) ==
  \A i \in DOMAIN cidrs : \A p \in shields : ~Covers(p, cidrs[i].addr)

AssertSafeAll(cidrs, shields) ==
  \A i \in DOMAIN cidrs : \A p \in shields : ~Overlaps(p, cidrs[i])

\* Read from the database each time it is asked.  The read may fail, of which the
\* caller learns nothing: the hard coded prefixes are all that is left.
guard(read) == HardCoded \union (IF read THEN protected ELSE {})

\* quota.Check: a share of the address space that has to be confirmed.
RequiresOverride(cidrs) == AddressCount(cidrs) > ShareMax

\* A fault: a session is compared with the first address of a range.
ComparesFirst(cidrs, me) ==
  \E i \in DOMAIN cidrs : cidrs[i].addr \in peers \union {me}

\* The sessions first, then the address the request came from.
detectSelfLockout(cidrs, me) ==
  \E i \in DOMAIN cidrs : \E a \in peers \union {me} : Covers(cidrs[i], a)

-----------------------------------------------------------------------------
(* The handlers.                                                           *)

\* Where a confirmation is asked for and not given, the form comes back.  A box
\* that is ticked for nothing leaves no trace.  The protected set is only asked
\* about the sources where a ban has no target host.
scopedBanCreate(b, global, sel, me) ==
  /\ bans[b].state = "none"
  /\ LET cidrs == Cidrs(sel) IN
     /\ global => \E read \in BOOLEAN : AssertSafeAll(cidrs, guard(read))
     /\ Len(cidrs) \in 1..PerRuleMax
     /\ Len(cidrs) <= HighWater
     /\ bans' = [bans EXCEPT ![b] =
          [NoBan EXCEPT !.state = "pending", !.global = global, !.sel = sel,
             !.self  = detectSelfLockout(cidrs, me),
             !.share = RequiresOverride(cidrs),
             !.count = Len(cidrs),
             !.seen  = [library |-> library, operators |-> peers \union {me}]]]
  /\ UNCHANGED <<library, protected, peers, hand>>

\* Rejections and rollbacks, with the rows of an active ban deleted first.
Close(b) ==
  /\ \/ bans[b].state = "pending" /\ bans' = [bans EXCEPT ![b].state = "rejected"]
     \/ bans[b].state = "active" /\ bans' = [bans EXCEPT ![b].state = "revoked"]
  /\ UNCHANGED <<library, protected, peers, hand>>

scopedBanApprove(b) ==
  /\ hand = Free
  /\ bans[b].state = "pending"
  /\ bans' = [bans EXCEPT ![b].state = "active", ![b].guarded.throughout = protected]
  /\ hand' = [hand EXCEPT !.ban = {b}, !.step = "resolve"]
  /\ UNCHANGED <<library, protected, peers>>

\* The ban is resolved anew.  Of the checks at the submission only the room in
\* the map is made again, and only where the number of prefixes has changed.  The
\* new number may fail to be saved, which changes nothing here.
scopedBanApprove_Resolve(b) ==
  /\ Holds(b, "resolve")
  /\ LET cidrs == Cidrs(bans[b].sel) IN
     \/ /\ Len(cidrs) = bans[b].count \/ Len(cidrs) <= HighWater
        /\ hand' = [hand EXCEPT !.step = "guard", !.cidrs = cidrs]
        /\ \E count \in {bans[b].count, Len(cidrs)} :
             bans' = [bans EXCEPT ![b].count = count, ![b].guarded.library = library]
     \/ /\ Len(cidrs) # bans[b].count /\ Len(cidrs) > HighWater
        /\ hand' = Free
        /\ UNCHANGED bans
  /\ UNCHANGED <<library, protected, peers>>

\* The protected set is read once, after the ban was resolved and before any row.
dispatches(b) ==
  /\ Holds(b, "guard")
  /\ \E read \in BOOLEAN :
       /\ hand' = [hand EXCEPT !.step = "dispatch", !.shields = guard(read)]
       /\ bans' = [bans EXCEPT ![b].guarded.read = read]
  /\ UNCHANGED <<library, protected, peers>>

CreateGlobalScopedDispatch_Veto(b) ==
  /\ Holds(b, "dispatch")
  /\ bans[b].global /\ ~AssertSafeAll(hand.cidrs, hand.shields)
  /\ bans' = [bans EXCEPT ![b].state = "safety_blocked"]
  /\ hand' = Free
  /\ UNCHANGED <<library, protected, peers>>

\* One prefix after the other, a row for each: the next one, or the end.
CreateGlobalScopedDispatch(b) ==
  /\ Holds(b, "dispatch")
  /\ bans[b].global /\ AssertSafeAll(hand.cidrs, hand.shields)
  /\ \/ /\ hand.done < Len(hand.cidrs)
        /\ bans' = [bans EXCEPT ![b].rows = @ \union {hand.cidrs[hand.done + 1]}]
        /\ hand' = [hand EXCEPT !.done = @ + 1]
     \/ /\ hand.done = Len(hand.cidrs)
        /\ bans' = [bans EXCEPT ![b].sent = TRUE]
        /\ hand' = Free
  /\ UNCHANGED <<library, protected, peers>>

\* One row with all the prefixes.  The host of the ban is checked in ScopedBans.
CreateScopedDispatch(b) ==
  /\ Holds(b, "dispatch")
  /\ ~bans[b].global
  /\ bans' = [bans EXCEPT ![b].sent = TRUE,
                         ![b].rows = { hand.cidrs[i] : i \in DOMAIN hand.cidrs }]
  /\ hand' = Free
  /\ UNCHANGED <<library, protected, peers>>

\* An insert fails, or the process ends: what is written stays, and a new handler
\* finds the ban decided.
Stop ==
  /\ hand # Free
  /\ hand' = Free
  /\ UNCHANGED <<library, protected, peers, bans>>

-----------------------------------------------------------------------------
(* What happens meanwhile, and the specification.                          *)

Reload(l) ==
  /\ library' = l
  /\ UNCHANGED <<protected, peers, bans, hand>>

ChangeProtected(shields) ==
  /\ protected' = shields
  /\ bans' = [b \in Bans |-> IF b \in hand.ban
                             THEN [bans[b] EXCEPT !.guarded.throughout = @ \intersect shields]
                             ELSE bans[b]]
  /\ UNCHANGED <<library, peers, hand>>

Sessions(clients) ==
  /\ peers' = clients
  /\ UNCHANGED <<library, protected, bans, hand>>

RangeInit ==
  /\ library \in FirstImports
  /\ protected = {}
  /\ peers = {}
  /\ bans = [b \in Bans |-> NoBan]
  /\ hand = Free

RangeNext ==
  \/ \E b \in Bans :
       \/ \E global \in BOOLEAN, sel \in Selectors, me \in Clients :
            scopedBanCreate(b, global, sel, me)
       \/ Close(b)
       \/ scopedBanApprove(b)
       \/ scopedBanApprove_Resolve(b)
       \/ dispatches(b)
       \/ CreateGlobalScopedDispatch_Veto(b)
       \/ CreateGlobalScopedDispatch(b)
       \/ CreateScopedDispatch(b)
  \/ Stop
  \/ \E l \in Imports : Reload(l)
  \/ \E shields \in SUBSET Shields : ChangeProtected(shields)
  \/ \E clients \in SUBSET Clients : Sessions(clients)

RangeSpec == RangeInit /\ [][RangeNext]_rangeVars

-----------------------------------------------------------------------------
(* Properties.                                                             *)

RangeTypeOK ==
  /\ library \in Libraries
  /\ Database(library) \subseteq Entries
  /\ protected \subseteq Shields
  /\ peers \subseteq Clients
  /\ bans \in [Bans -> BanRecords]
  /\ hand \in Hands

Reach(b) == UNION { Block(p) : p \in bans[b].rows }

\* What goes to the executor is exactly what the country or AS stands for in the
\* library of that moment: rules before lines, the rest of a touched line left
\* out, no address twice and in the fewest prefixes.  Where the handler stopped
\* between two rows it is less, and never anything else.
DispatchedAsResolved ==
  \A b \in Bans :
    LET belongs == Belongs(bans[b].guarded.library, bans[b].sel) IN
    /\ bans[b].rows # {} => Reach(b) \subseteq belongs /\ Minimal(bans[b].rows)
    /\ bans[b].sent => Reach(b) = belongs

\* The final veto: no row of a ban of everything, written whole or in part, holds
\* a hard coded address, whatever failed, nor one that was protected all the time
\* from the approval to the last row, however the library and the rest of the set
\* changed meanwhile; this only where the set could be read.  A prefix protected
\* while the rows are written may be hit, and one whose read failed.
ProtectedSourceSafe ==
  \A b \in Bans : bans[b].global =>
    LET kept == IF bans[b].guarded.read THEN bans[b].guarded.throughout ELSE {} IN
    Reach(b) \intersect UNION { Block(p) : p \in HardCoded \union kept } = {}

\* A ban that reaches an operator connected at its submission, more of the
\* address space than the limit, or beyond the limit of a rule is only dispatched
\* with the confirmation, or never, unless the library changed in between: what
\* was confirmed is what is enforced.
ConfirmedReach ==
  \A b \in Bans :
    bans[b].rows # {} /\ bans[b].guarded.library = bans[b].seen.library =>
      /\ Reach(b) \intersect bans[b].seen.operators # {} => bans[b].self
      /\ Cardinality(Reach(b)) > ShareMax => bans[b].share
      /\ Cardinality(bans[b].rows) <= PerRuleMax

=============================================================================
