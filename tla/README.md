# xdp-ban in TLA+

A model of xdp-ban, the daemon that takes ban requests through an approval gate
and enforces them in an XDP program. The modules are written from the Go and C
sources under `src/`; TLC checks them on small instances, and TLAPS proves every
safety property of the passing runs, the refinements included, for every instance.
What TLC alone checks is liveness.

## The system

Operators submit ban requests over HTTP. A request is approved or rejected on
the web page or through a mailed one-time link; approval inserts a *dispatch
row*. An executor loop in the same process polls those rows and writes BPF
maps; the XDP program looks every packet up in the maps. Rollback handlers
delete from the same maps. All state is in a SQL database, in the pinned maps
and in a few tables in memory.

| component | state it keeps | operations |
|---|---|---|
| XDP program, map layout (`bpf/xdp_filter.c`, `internal/banmap`) | `src_ban_global`, `target_hosts`, `src_ban` | verdict for a packet; encoding of keys, values, deadlines |
| `why` / `status` (`cmd/xdpban/inspect.go`) | none (reads the pinned maps) | verdict for an address; list of entries |
| executor (`cmd/xdpban/exec_loop.go`, `executor.go`) | `targetIDs`, `nextTargetID`, state of dispatch rows | poll, apply, mark, restore, RevokeGlobal, RevokeScoped |
| process (`cmd/xdpban/main.go`) | up, stopping, closed, down | start, signal, shutdown order, crash |
| request handlers (`internal/web/handlers.go`, `lookup.go`) | `ban_requests`, `decideMu` | create, approve, reject, rollback |
| mail links (`internal/approval`) | `approval_tokens` | issue, use, expire |
| dispatch, protected set (`internal/dispatch`, `internal/safety`) | `dispatches`, `protected_targets` | veto, insert a row |
| escalation (`internal/escalation`, `internal/web/services.go`) | `ban_ladders` | next sentence, register an offence |
| scoped bans, quota (`internal/web/scoped.go`, `internal/quota`) | `scoped_bans`, `ban_quotas` | create, approve, reject, revoke, reserve, release |
| reconcile (`cmd/xdpban/reconcile.go`) | audit lines | compare acked rows with the maps |
| prefix database (`internal/prefixdb`, `internal/web/prefixdb.go`) | the active file, the overrides, the database in memory, `syncStatus` | sync, upload, save overrides, reload, resolve |
| self-lockout check (`internal/web/selfban.go`, `internal/livesession`) | none (reads `/proc/net/tcp`) | does a range contain an operator |
| sessions, accounts (`internal/web/session.go`, `account.go`) | sessions, passwords | login, logout, change of password |
| resolution policy, reports | none | pure functions and queries |

How they interact: handlers and the executor share the database; rollback
handlers and the executor share the maps and `targetIDs`, *with no lock between
them*; approving and rejecting handlers serialise on `decideMu`, the rollback
handlers do not; pinned maps outlive the process, tables in memory do not.

What is hard in it, and what makes each part correct:

1. *Deciding.* Two handlers, a mail link and an unlocked rollback may decide one
   request at once. Right: one approval at most, only from pending; nothing
   reopens; one dispatch row at most, and none without an approval or after a
   veto; the lock is let go on every exit.
2. *From approval to kernel.* The activation and the dispatch row are two
   statements, the row and the map a poll apart, the map and the ack two more
   statements. Right: what is in the map was approved; what was approved gets
   there or its row fails; what is acked is in the map.
3. *Rollback against the executor.* A rollback may overtake the loop, or share a
   key with another ban. Right: a rollback that began after the executor was
   done is final.
4. *Restart.* Target ids live in memory and in a pinned map. Right: no id is
   handed out twice, no rule moves to another host.
5. *Longest match.* Expired entries stay in the trie and hide shorter ones.
   Right: time and rollbacks of live entries only release packets; writing a ban
   that is still in time never does, although its deadline was computed earlier.
6. *Quota.* Reservations are released on several paths. Right: what is counted as
   used is what is reserved and not yet released.
7. *Prefix database.* Files are replaced and written in place while readers
   resolve, reloads overlap, the process ends in between. Right: readers see one
   whole accepted library and never none after one; syncs exclude each other; at
   rest, memory is what a restart would load.
8. *Ranges.* A country becomes a list of prefixes by way of overrides, merging and
   splitting, three times over and each time with another library. Right: what is
   dispatched is the set of addresses the library gives, protected addresses are
   not in it, and what had to be confirmed was.

The full list, line by line, is `hazards` in `PROJECT.json`.

## Modules

| module | models | composed of |
|---|---|---|
| `AddressSpace` | addresses, prefixes, their blocks and overlap | |
| `KernelMaps` | the maps, the XDP verdict, TTL arithmetic, `why` | extends `AddressSpace` |
| `KernelMapsProofs` | proofs about `KernelMaps` | extends it |
| `BanLifecycle` | abstract: what the approval gate promises | |
| `DispatchTable` | the rows that join the two planes | |
| `Escalation` | the ladder of sentences, as operators | |
| `Governance` | handlers, links, protected set, dispatch rows, ladder | extends `Escalation` and `DispatchTable`, refines `BanLifecycle` |
| `GovernanceProofs` | proofs about `Governance` | extends it |
| `ScopedBans` | handlers of bans by country or AS, the quota, restarts | extends `Escalation`, refines `BanLifecycle` |
| `ScopedBansProofs` | proofs about `ScopedBans` | extends it |
| `Executor` | loop, target ids, rollbacks, life of the process | extends `KernelMaps` and `DispatchTable` |
| `ExecutorProofs` | proofs about `Executor` | extends it and `KernelMapsProofs` |
| `Reconcile` | the loop that reads the global table back | extends `Executor` |
| `ReconcileProofs` | proofs about `Reconcile` | extends it and `ExecutorProofs` |
| `Enforcement` | form to packet, for plain bans | extends `Governance` and `Executor` |
| `EnforcementProofs` | proofs about `Enforcement` | extends it, `GovernanceProofs` and `ExecutorProofs` |
| `PrefixCatalog` | abstract: what the prefix database promises its readers | |
| `PrefixStore` | syncs, uploads, overrides, reloads, start and end of the process | refines `PrefixCatalog` |
| `PrefixStoreProofs` | proofs about `PrefixStore` | extends it |
| `PrefixRange` | from the lines of a library to the prefixes of a selection, as functions | extends `AddressSpace` |
| `RangeBans` | what a ban by country or AS covers, from the form to its rows | extends `PrefixRange` |
| `RangeBansProofs` | proofs about `PrefixRange` and `RangeBans` | extends `RangeBans` |
| `MC*` | values of the constants for TLC | |

### KernelMaps

A map is a function from the keys it holds. Addresses have `AddrBits` bits and a
prefix is an address with its host bits zero, so that `LongestMatch` does what an
LPM trie does. `xdp_filter` is the verdict: an expired global hit passes the
packet *before* the scoped table is looked at, as in the C code. A value holds the
deadline (0 is permanent) and the rule that wrote it. `KernelNext` is any sequence
of Apply, Revoke and clock ticks. The deadline of a value counts from any earlier
reading of the clock (`at`), as `Apply` computes it before the Puts; the guards on
what is written live in `Executor`.

### Governance

A *clerk* is a handler goroutine, its record what the handler has read so far and
`pc` the statement it is at. A step is one transaction or one statement of the
handler, or one acquisition of `decideMu`:

| code | actions |
|---|---|
| `banCreate` | `banCreate` (guard, `nextTTL`), `banCreate_Insert`, `GenTokensAndSend` |
| `banApprove` | `banApprove` (lock, read), `banApprove_Commit` (conditional update or conflict) |
| `approveDo` | `approveDo` (link read before the lock), then `approveDo_Approve`, `approveDo_Reject` or `approveDo_Conflict` under it |
| `CreateDispatch` | `CreateDispatch_Veto`, `CreateDispatch` |
| `recordLadder` | `recordLadder` (read), `recordLadder_Write` |
| `banReject` | `banReject`, `banReject_Commit` |
| `lookupRollback` | `lookupRollback` (read, no lock), `lookupRollback_Reject`, `lookupRollback_Delete`, `lookupRollback_Revoke` |

`Abort` lets a handler stop between any two of them: a database error, a panic
that gin recovers, the end of the process. Links and observation periods may run
out at any moment, and the protected set may grow at any moment (no page of the
program edits it).

`BanLifecycle` is the promise: submit, approve, close and order, each at most
once and in that order except that an order may come after a close, because
`CreateDispatch` follows the approval and does not look at the state again.

### ScopedBans

A ban by country or AS carries a count of prefixes in three places: the column
`prefix_count`, the sums of the quota tracker in memory, and the variable of a
handler that read it. `size[b]` is what the selection resolves to at this moment;
`Reload` changes it under all three. Handlers are cut as in `Governance`, and also
at the tracker's own mutex: submission is check, `Reserve`, insert; approval is
commit, resolve and, where the count has changed, `Release`, `Reserve`, a restore
that may fail unseen, and the new count; rejection and rollback end in `Release`.
A global ban has one dispatch row per prefix, inserted one by one. `Restart` is a
crash and a start: handlers gone, tracker counted anew (`restoreQuota`).

`upsets` is a history of what may put the tracker out since the last start: a
rollback that overlapped another handler on its ban, an old reservation that could
not be restored, a veto (which gives nothing back), a handler that stopped, and an
update of the state that failed: `lookupRollback` and `scopedBanRevoke` do not look
at its error and give the reservation back with the ban still live
(`lookupRollback_UpdateFails`). `QuotaExact` says that these five are the only ways,
and that a restart heals all.

### Executor

A dispatch row is its index; `acked` and `failed` are sets of indices. `Poll`
takes a batch and `Apply` reads the clock (`job.at`). `ensureTarget` finds an id, or
`ensureTarget_Put` and `ensureTarget_Remember` are its two writes, to the kernel and
to memory, between which the process may crash and a rollback finds no id.
`Apply_Put` is one `Put`, with the deadline of `job.at`, and `markAcked`/`markFailed`
end the row. The clock may tick, and rollbacks may come, between any two of these. A map that is full or closed fails the
`Put`, which fails the row with the prefixes before it left in the kernel, as the
code does. A rollback is one delete at a time in a goroutine of its own
(`Revoke`, `Revoke_Delete`, `Revoke_Done`). The process is `up`, `stopping` (the
loops' context is cancelled, nobody waits for them), `closed` (the maps are
closed, the loop may still run) or `down`; `Exit` is also a crash. `Start` reads
the pinned ids back (`restoreTargets`), unless pinning fails.

The history variables `rollback` ("late" or "clean": whether the rollback began
before or after the executor was done with the request) and `lost` (rows acked
before the maps were emptied) are read by properties only.

### Reconcile

A pass is two steps, `reconcile_Rows` (the acked global rows) and
`reconcile_Compare` (the map, the clock and the report), with anything of
`Executor` in between (`Elsewhere` adds `acked_at` to it). `drifts` is what the
last pass reported. Expired keys count as live, as in the code, and closed maps
may read as maps with any of their keys missing. That no report is a false alarm
rests on the order of the two reads and on the executor's order of `Put` and ack.
A report after a rollback is not a false alarm in this sense: the dispatch row of
a revoked ban stays acked, and every later pass reports it.

### Enforcement

The two planes in one process and over one database: the rows `Governance`
inserts are the rows `Executor` polls, a rollback's delete is both
`lookupRollback_Delete` and `Revoke_Delete`, and when the process ends the
handlers end with it.

### PrefixStore

Three files (`active` is `prefixdb.tsv`, `overrides`, and `extra`, which
`XDPBAN_PREFIX_DB` names), the database in service, the flag of a sync, and the
goroutines. Content is abstract: data is *parsable* when `normalize` finds a record
in it and *usable* when `Load` does, and the first is weaker, since `normalize`
looks at the first address of a record only.

| code | actions |
|---|---|
| `SyncFrom` | `SyncFrom` (flag), `SyncFrom_Download`, then as an upload, `finish` |
| `ImportUpload` | `ImportUpload`, `Normalize`, `Rename` or `Rename_Fails` |
| `prefixDBSaveOverride` | `prefixDBSaveOverride` (validation), `WriteFile_Truncate`, `WriteFile_Write` or `WriteFile_Fails` |
| `Reload` | `Reload_Load`, `Reload_applyOverrides`, `SetGlobal` |
| `loadPrefixDB` | `loadPrefixDB`, `loadPrefixDB_Mixed` |

Syncs exclude each other; uploads and saves are excluded by nothing, so two reloads
may overlap and the older one publish last, and two saves may leave a text that is
neither (`"mixed"`: it may parse or not). `Exit` is any end of the process, at any
step. `upset` is the history of what may bring memory and disk apart, and of nothing
else: a file that changes between another reload's read and its publication, a
reload or a write that failed, an edit by hand. `DiskAndMemoryAgree` says that these
are the only ways, and that a start mends them.

### PrefixRange and RangeBans

A library is the records it was made from: lines of ip2asn, delegations of a
registry (a start and a count, added in 32 bits) and rules of the override file.
`Database`, `candidates`, `Merged`, `rangeToCIDRs` and `allCIDRs` are the steps of
the code: merging is a fold over the set of ranges in the order of their starts
(`Absorb` joins one more to those before it, `LastOf` is the sort), cutting takes
the largest block that fits, and `allCIDRs` strings the prefixes of the ranges together.
`Belongs` and `Minimal` say, without sorting, merging or splitting, which addresses
a selection stands for and when a list of prefixes is as short as it can be. A
record that a rule touches is dropped as a whole, as in the code: the addresses of
it beyond the rule belong to nobody.

`RangeBans` takes a ban through submission (`scopedBanCreate`), approval
(`scopedBanApprove`, `scopedBanApprove_Resolve`) and dispatch, while the
library, the protected set and the sessions with the host change. A ban is resolved
at submission and anew at approval; the second time only the room in the map is
checked again, and the protected set at the dispatch. This set is read once, when
`dispatches` makes its guard (`hand.shields`), and the read may fail, upon which only
the hard coded prefixes are left. Then comes the veto, or one row after the other
(`CreateGlobalScopedDispatch`), or the one row of a ban with a host
(`CreateScopedDispatch`); at every step the set may change, and the handler may stop
(`Stop`) with what is written left there. `seen` and `guarded` are
history: against which library and operators the checks were made, which prefixes
were protected all the time since the approval (`throughout`), and whether the set
could be read (`read`).
`Close` is rejection, rollback and revocation in one. The races between handlers of
one ban, its quota and the check of the protected host are in `ScopedBans`; here one
handler approves at a time, which `decideMu` ensures.

## What the runs show

| run | instance | shows |
|---|---|---|
| `kernel` | 2 addresses, 3 prefixes, 1 host, clock 0..2, TTLs 0 and 1 | `TimeOnlyReleases`, `WritesInTimeNeverRelease`, `LiveRollbackOnlyReleases`: only a ban blocks, only time, a rollback or a late ban releases; `WhyMissesOnlyTheLastInstant`: `why` and the XDP program agree but for an instant and the masking below; `StatusListsEveryBlock`: `status` shows an entry behind every dropped packet |
| `kernel_permanent` | same | **violated**: an expired /32 inside a permanent prefix lets its traffic pass |
| `governance` | 2 requests for 1 target, 2 handlers, 1 stops halfway | refinement of `BanLifecycle`; `LockDiscipline`; `VetoedNeverDispatched`; `SpentLinkDecided`; `LadderCountsDispatches` |
| `executor` | 2 scoped bans on 2 hosts, one of 2 prefixes, room for 2 of the 3 keys, 2 faults, clock 0..1 | `TargetIdsUnique`, `MemoryMatchesKernel`, `ScopedRuleStaysOnItsHost`, `AckedIsEnforced`, `CleanRollbackHolds`, `EveryDispatchSettles` |
| `reconcile` | 2 global bans, room for 1 key, 1 fault, clock 0..2, TTLs 0 and 1 | `DriftIsExplained`, `LossIsReported`; `PutsInTimeHold`: with ticks between `Apply` and its Put, and rows that are applied again, what arrives in time releases nothing |
| `scoped` | 2 bans of either kind for 1 host, counts 0..2, quota 2, 2 handlers, 2 events (reload, protection, stop, failed update, restart) | `QuotaExact`, `RowsMatchCount`, refinement of `BanLifecycle` |
| `scoped_quota` | 3 bans, no events | **violated**: a reservation is given back twice, and the quota is exceeded |
| `enforcement` | 1 request, 2 handlers, 1 stops, 1 crash or stop | `OnlyApprovedIsEnforced`, `RevokedRuleIsGone`, `ApprovedIsEnforced`, `DecideMuReleased` |
| `enforcement_revoked` | 2 requests for 1 target, 1 handler | **violated**: revoked, then applied from its pending row |
| `prefix_store` | 2 libraries, one file of IPv6, one of nothing, 2 texts, 2 goroutines, 1 event (edit, failed write, end) | refinement of `PrefixCatalog`, `OneSyncAtATime`, `DiskAndMemoryAgree`, `SyncEnds` |
| `prefix_upload` | 1 goroutine, no events | **violated**: a file of IPv6 ranges replaces the library although it cannot be parsed |
| `range` | 8 addresses, 922 first libraries, 1 later one, 1 ban, 1 hard coded and 1 protected address, 1 operator | `DispatchedAsResolved`, `ProtectedSourceSafe`, `ConfirmedReach` |

The violated properties say what a comment, a document or a page of the program
says; `findings` quotes the lines. More divergences were met and have no run:

- `why` reports a drop that an expired global entry hides from the XDP program
  (`inspect.go:273`; `WhyMissesOnlyTheLastInstant` is stated around it).
- A request's sentence is taken from the ladder at creation while the ladder climbs
  at approval (`handlers.go:250`).
- `lookupRollback` rejects a pending request with no lock and no condition
  (`lookup.go:148`), so a request can be rejected while it is approved, and be
  dispatched all the same; `handlers.go:31` says that `decideMu` serialises every
  approval and rejection. `BanLifecycle` allows it: an order may follow a close.
- Rolling back one of two bans of one target deletes the key of both
  (`executor.go:137`), and the other is still reported as in force
  (`report.go:272`). `ApprovedIsEnforced` excepts it.
- A row whose deadline has passed between `Apply` and its `Put` is written all the
  same (`executor.go:66`), and the dead value replaces or hides an entry that may be
  alive: `WritesInTimeNeverRelease` and `PutsInTimeHold` are stated for values that
  are in time.
- A state update that fails in a rollback of a ban by country gives its reservation
  back with the ban still live (`lookup.go:174`, `lookup.go:208`, `scoped.go:448`).
- When the protected set cannot be read, the veto goes on with the hard coded
  prefixes alone (`services.go:49`), and a prefix protected after that read may be
  hit by the rows that follow; `ProtectedSourceSafe` is stated accordingly.
- `restoreTargets` does not ask its iterator for an error (`executor.go:212`), so an
  iteration cut short would leave the half table that `executor.go:204` calls
  dangerous. No run has it: an error of an iteration is not modelled.
- The lookup page resolves a ban by country with the library of the moment
  (`lookup.go:95`) and finds a plain ban by its exact address only, so "未发现覆盖"
  (`templates.go:168`) can be said of an address that is being dropped.
- An approval resolves a ban anew without the check of the own address and of the
  share of the address space (`scoped.go:327`); `README.md:92` says that the program
  does not let one cut off oneself. `ConfirmedReach` is stated for an unchanged
  library.
- Where the overrides do not parse, `Reload` says that the library was loaded and
  the overrides ignored (`sync.go:197`), and drops the library.
- Two reloads that overlap may leave in memory what is older than the disk, though
  the page says of a save that it takes effect at once. `upset` marks it.
- The shutdown cancels the loops without waiting for them, so that a batch runs into
  closed maps and its rows fail for good (`main.go:128`; `docs/img/arch.svg` says
  the loops stop first).
- A pass of `reconcile` that meets the closing maps reads them as empty, because
  `MapIterator.Next` has no error, and writes a drift for every acked row
  (`executor.go:245`; `DriftIsExplained` is stated for reports with the maps open).

**Bounds.** `AddrBits = 1` gives a /0 and two /1: nesting and disjointness, which
is all longest-prefix matching tells apart. `MaxTime` 2 with TTL 1 lets an entry
be written, live and expire, and another be written after that. The capacities
are one less than the keys an instance wants, so that maps fill up.
`BatchLimit = 1` is below the two rows of `reconcile`. Two requests for
one target are what it takes to share a key or a ladder row. `MaxFaults` and
`MaxStops` bound crashes, stops and failed statements; two is crash and crash
again, or a crash and one failed mark. Handlers are symmetric; the sets of clerks are
permuted in `governance` and `scoped`, whose properties are insensitive to the
names, and never where liveness is checked; the bans of `scoped` are permuted too,
since all name one host. In `scoped` one bound covers everything from outside:
with two events a reload can meet a restart, a veto a reload, and so on. Two
goroutines of `prefix_store` are a sync and an upload, two saves, or a save
between the read and the publication of an import; the third would only repeat one
of the two. Its one event, spent at any step, is a crash halfway through any of
them. `range` begins from every library of two lines over eight addresses (in the
order of their starts), of a line and one of three rules, and of one delegation: nested, adjacent, overlapping, at
the first and at the last address, and with a count that wraps around. The limits
(3 prefixes, 2 addresses) lie below what these libraries reach.

**Deadlock.** The runs of `Governance`, `ScopedBans`, `Executor`, `Reconcile` and `Enforcement` switch the
check off: ids are used once, so that when every request is decided, every row is
settled and the bound on faults is reached, the system rightly rests. That nobody
waits for ever is what `DecideMuReleased` and `EveryDispatchSettles` say.
`KernelMaps`, `PrefixStore` and `RangeBans` never rest and keep the check.

**Fairness.** A handler that has begun goes on (`WF(Continue(c))`): goroutines are
scheduled and statements return; nobody is assumed to click, and weak fairness
suffices for the mutex because the properties ask only that its holder lets go.
The loops run while the process is up (`WF(process = "up" /\ Loop)` and
`WF(process = "up" /\ reconcile)`): their tickers fire. Nothing is assumed of crashes, restarts, rollbacks or the clock, so
`EveryDispatchSettles`, `LossIsReported` and `ApprovedIsEnforced` are stated for a process that
stays up (from some moment, or from the start). `DecideMuReleased` needs no more
than that handlers go on: an `Abort` gives the lock back as well, since it is
released by `defer`. In `PrefixStore` a goroutine that has begun goes on; a download
ends because its client gives up after ten minutes, and a process that ends takes
the flag with it.

## What is proved

TLAPS proves every invariant, action property and refinement that a passing run
checks, for every value of the constants that satisfies the named assumptions; in
the code, these are the types of the tables and the fact that there are finitely
many rows in them. The last part of this section says what is left to TLC.

An invariant that a run checks is seldom inductive alone. Each module of proofs
defines what makes it so, proves that the initial states satisfy it and that each
step keeps it (one step per action, one lemma per conjunct), and deduces the
properties. TLC finds each of these conjunctions true of every reachable state of the
module's run.

### The approval gate: `GovernanceProofs`

For any sets of requests, targets and handlers, any ladder and any number of
handlers that stop halfway (`GovernanceAssumption`, `EscalationAssumption`):

| theorem | states |
|---|---|
| `TypeCorrect` | `GovSpec => []GovTypeOK` |
| `LockHeldByDecider` | `GovSpec => []LockDiscipline` |
| `VetoHolds` | `GovSpec => []VetoedNeverDispatched` |
| `SpentLinkHolds` | `GovSpec => []SpentLinkDecided` |
| `LadderIsComplete` | `GovSpec => []LadderCountsDispatches` |
| `LifecycleImplemented` | `GovSpec => ImplementsLifecycle` |

That a veto never follows a row needs that a handler about to dispatch works on a
request without a row; that needs that it alone, as holder of `decideMu`, can be at
that step for an activated request (`LockDiscipline`), and that an approved request
never becomes pending again. The last fact is the delicate one, because
`lookupRollback` writes without the lock and without a condition: it holds since a
rollback that read "pending" writes "rejected", one that read "active" writes
"revoked", and both are closed states (`RollbackOfRow`). `GovInv` conjoins
`GovTypeOK`, `LockDiscipline`, `InsertingOnce` (one handler inserts a request),
`RollbackOfRow`, `DispatchingOnce`, `ApprovedFirst` (rows only for approved
requests), and the two properties. `GovTypeStep`, `LockStep`, `HandlerStep` (the next
step of a running handler), `ArriveStep` (a click) and `DataStep` have one step per
action. For the ladder, `LadderInv` adds that what a handler read of the offences is
still what the table says when it writes back (`RowIsFresh`): only a holder of
`decideMu` writes there, so one handler at most is in the ladder. The refinement
maps an insertion to `Submit`, an activation to `Approve`, the veto, both rejections
and the revocation to `Close` or a stutter, a dispatch row to `Order` (its count is a
cardinality, from `FiniteSetTheorems`), everything else to a stutter.

### The maps: `KernelMapsProofs`

For any width of an address, any hosts, rules and lifetimes (`AddressAssumption`,
`KernelAssumption`):

| theorem | states |
|---|---|
| `KernelTypeCorrect` | `KernelSpec => []KernelTypeOK` |
| `TimeReleasesAlways` | `KernelSpec => TimeOnlyReleases` |
| `WritesHoldAlways` | `KernelSpec => WritesInTimeNeverRelease` |
| `LiveRollbackAlways` | `KernelSpec => LiveRollbackOnlyReleases` |
| `WhyIsRight` | `KernelSpec => []WhyMissesOnlyTheLastInstant` |
| `StatusIsComplete` | `KernelSpec => []StatusListsEveryBlock` |

`DroppedIsStopped` turns the verdict into a condition on what the two tables hold for
the address; `MatchAdded` and `MatchRemoved` say how a longest match moves when a key
comes or goes. The lemmas are about `MapStep`, a step that writes or deletes one
entry, ticks or empties the maps, and use types only: they serve the steps of the
maps on their own and those of the daemon. The invariant `MapsInv` adds to the types
that finitely many hosts are registered, since their number is the next id.

### The executor: `ExecutorProofs`

For any rules, hosts and prefixes, any capacities of the maps and any number of
faults (`AddressAssumption`, `KernelAssumption`, `ExecutorAssumption`):

| theorem | states |
|---|---|
| `ExecTypeCorrect` | `ExecSpec => []ExecTypeOK` |
| `TargetIdsStayUnique` | `ExecSpec => []TargetIdsUnique` |
| `MemoryFollowsKernel` | `ExecSpec => []MemoryMatchesKernel` |
| `ScopedRulesStay` | `ExecSpec => []ScopedRuleStaysOnItsHost` |
| `AckedStaysEnforced` | `ExecSpec => []AckedIsEnforced` |
| `CleanRollbackStays` | `ExecSpec => []CleanRollbackHolds` |
| `PutsHoldInTime` | `ExecSpec => PutsInTimeHold` |
| `DaemonKeepsMapPromises` | what `KernelMaps` promises of time, of rollbacks, of `why` and of `status`, of `ExecSpec` |

*Ids.* An id is fresh because it is `nextTargetID`, which is larger than every
registered one while the process runs, but for that of a host between its two writes
(`MemoryMatchesKernel`), and no rule stands under it yet (`NextIdUnused`). A start takes the
largest id of the pinned map; that there is one is kept as a conjunct
(`LargestIdExists`). No key stays behind under an id that is not registered
(`KeysHaveTarget`), so a new host cannot inherit the rules of an old one. A job
writes under the id of the host of its row (`JobKnowsTarget`) and belongs to a row of
the batch of a process that is up (`JobHasRow`), so that no loop writes after a
restart with an id from before it.

*Rows.* What a job has already written is in the kernel or excused (`JobWrites`: the
maps emptied, a rollback of a ban with that key), so that an ack promises the truth,
and afterwards only the excuses take a key away.

*Rollbacks.* A rollback deletes keys of its own request under the right id
(`RevokerAims`). A clean one began when every row of its request was settled, which
stays so (`CleanIsFinished`); nobody writes these keys again, what it has deleted is
gone or belongs to another request too (`RevokerClears`), and when nothing is left
to delete that is `CleanRollbackHolds`.

`ExecInv` is the conjunction of all these. `ExecMapStep` shows that each step of the
daemon is a `MapStep`, and brings over what was proved of the maps; of a `Put` only
that it holds in time, with the reading of the clock that the job carries.

### Reading back: `ReconcileProofs`

With the assumptions of the executor: `ReconcileOnlyLooks`
(`ReconSpec => ExecSpec`, so every theorem above holds beside the loop),
`ReconTypeCorrect` and `NoFalseAlarm` (`ReconSpec => []DriftIsExplained`). `ReconInv`
is `ExecInv`, the types, that rows in hand are acked global ones (`RowsAreGlobal`),
and the property. The proof is short because `AckedIsEnforced` does the work: a row
that was acked when the pass read the table has its key when it reads the map, or an
excuse.

### From form to packet: `EnforcementProofs`

With the assumptions of both planes, and that the rules the executor knows are the
requests (`EnforcementAssumption`):

| theorem | states |
|---|---|
| `HandlersKeepPromises` | the invariants of the gate, of `EnfSpec` |
| `EnforcementImplementsLifecycle` | `EnfSpec => ImplementsLifecycle` |
| `EnforcementRunsExecutor` | `EnfSpec => ExecSpec` |
| `EnforcedWasApproved` | `EnfSpec => []OnlyApprovedIsEnforced` |
| `RevokedStaysGone` | `EnfSpec => []RevokedRuleIsGone` |

A step of the composition is, seen from the gate, a step of `Governance` or the end of
all handlers with the process (`ControlSteps`), and, seen from the kernel, a step of
`Executor` (`ExecutorStep`), for which the sentence of a row must be one the executor
knows (`SentencesListed`). The properties that relate the two planes need two more
facts: an entry of the kernel stands under the key of its request, which has a row
(`RulesHaveRows`, with `ApprovedFirst` the approval), and a clean rollback leaves no
entry of its rule, neither when it has deleted its key nor when it has written its
state (`CleanIsLifted`).

### Bans by country or AS: `ScopedBansProofs`

For any finite set of bans, any handlers, quota, prefix counts, events and ladder
(`ScopedAssumption`, `EscalationAssumption`):

| theorem | states |
|---|---|
| `ScopedTypeCorrect` | `ScopedSpec => []ScopedTypeOK` |
| `ScopedLifecycle` | `ScopedSpec => ScopedImplementsLifecycle` |
| `RowsMatchColumn` | `ScopedSpec => []RowsMatchCount` |
| `QuotaIsExact` | `ScopedSpec => []QuotaExact` |

The lifecycle follows the argument of the approval gate (`LifeInv`), with rows
inserted one by one. `RowsInv` adds what each handler that counts has counted so far
(`CountsFor`). `QuotaInv` adds, while nothing has upset the tracker, that one handler
at most is at work on a ban (`OneHandler`) and that the count it carries is the one
of the column (`HandlerKnows`). A ban then has one reservation or none, so
that `QuotaExact` becomes two sums over the set of bans, and a step moves one term of
one of them (`QuotaMove`). The sums are the fold of the community modules; that such
a fold is a sum whatever the order is proved in the same module (`SumsExist`,
`SumAny`, `OneTerm`).

### Ranges: `RangeBansProofs`

For addresses of any width, any library, selector, protected set and sessions
(`AddressAssumption`, `RangeAssumption`, `RangeBansAssumption`):

| theorem | states |
|---|---|
| `ResolutionIsExact` | a resolution gives exactly the addresses that belong to the selector, in order, in the fewest prefixes, none twice |
| `RangeTypeCorrect` | `RangeSpec => []RangeTypeOK` |
| `DispatchIsExact` | `RangeSpec => []DispatchedAsResolved` |
| `SourcesStayProtected` | `RangeSpec => []ProtectedSourceSafe` |
| `ReachIsConfirmed` | `RangeSpec => []ConfirmedReach` |

`ResolutionIsExact` is about pure functions; the argument goes along the code:

1. `RecursionExists`: recursive equations in which a rank falls have a solution, so
   that a recursive function or a fold satisfies the equation it is written with.
2. `PowerIs`, `BlockSizes`, `Halving`, `Nesting`: sizes of blocks are powers of two,
   and two blocks nest or are apart. Hence prefixes share an address exactly when
   `Overlaps` says so (`SharedOverlaps`, `OverlapIsShared`), on which the check of
   the protected set rests.
3. `RangeIsCut`: the greedy cut of a range covers it, in order, each block the
   largest that fits where it begins.
4. `MergedIs`: after each range, the merged ones have a gap between any two and the
   same addresses as the ranges so far. `AllIsCut` strings the cuts together;
   `NoSiblings`: two blocks of the outcome never make up a larger one, because a
   larger one would have been taken, and the gaps keep it within one range.
5. `DatabaseIs`: the lines, the delegations with their 32-bit sum and the overrides
   are what `Belongs` says.
6. `ReachCounted`, `RowsCounted`: `AddressCount` is not less than the number of
   addresses reached, and as many rows are written as there are prefixes.

`RangeInv` says of each ban how it came by its prefixes and what was confirmed
(`RecordOK`), and of the ban in the hands of a handler what the handler carries of it
(`Carries`): its prefixes, a guard that has all that stayed protected since, and as
many rows as are written. Since the guard is read after the approval and `throughout`
only shrinks, what was protected all the time is in it, and the veto on the whole
list is a veto on each row.

### Model-checked only

`EveryDispatchSettles`, `LossIsReported`, `ApprovedIsEnforced`, `DecideMuReleased` and
`SyncEnds` are liveness under fairness, for which a proof would need ENABLED, which the
provers do not have. Everything else that a passing run checks is proved. Induction
over numbers and finite sets is done in first-order form (a least counterexample, a
smallest subset), because the library's induction theorems take an operator as a
parameter, which the provers cannot instantiate.

## Abstractions

- Names, reasons, audit lines, counters and pages are left out. A target is
  compared for equality in `Governance`; the overlap of ranges with the protected
  set is in `RangeBans`.
- `CreateDispatch` reads the protected set and inserts in one step: only an edit
  of the set from outside could come between.
- The guard of `Governance` and `ScopedBans` reads the protected set without failing;
  that it goes on with less when it cannot (`services.go:49`) is in `RangeBans`. The
  update to `safety_blocked` and that of a plain rollback may fail unseen
  (`dispatch/service.go:41`, `lookup.go:148`): nothing follows, so it equals a handler that
  stops before it (`Abort`, `Stop`).
- `Start` always restores. The code warns and goes on with an empty table and the id
  1 where the pinned target map does not decode or has the id 0
  (`exec_loop.go:105`); nothing in the model, or in the program, writes such a map.
- In `ScopedBans` the ladder row is read and written in one step, under the same
  lock as in `Governance`, which tells the two apart. The limit per rule and the
  confirmation of a large share of the address space are in `RangeBans`.
- `Reload` reads the overrides in one step: a text that changes while it is read is
  a `"mixed"` one. A rename leaves the old file to whoever has it open, so the
  active file is read in one step too.
- The temporary files of an import are private to it and not modelled; neither is an
  error of the last flush of `normalize`, which the code does not look at
  (`sync.go:218`) and which would leave a shortened library in the active place.
- In `RangeBans` there is one confirmation for each check, given when asked for; a
  form that comes back unconfirmed changes nothing.
- The read of `targetIDs` in `RevokeScoped` is a data race. It is modelled as a
  read before or after the write; the crash Go may end it with is `Exit`.
- Maps that stay pinned while a process runs with unpinned ones, and come back
  at a later start, are not modelled; `Start` lets them go.
- The clock of the kernel and the daemon's uptime are one clock; both count from
  boot.

## Not modelled, and the plan

In this order:

1. `Sessions`: login against a change of password.
2. The self-lockout check of plain bans, which compares one prefix instead of a list
   and is otherwise that of `RangeBans`.
3. The hazards of `PROJECT.json` without a property: pinned maps that come back,
   a key that two requests share, and what is only described above (the lookup page
   after a reload, rows that meet closed maps at the shutdown).

Out of the plan: the resolution policy (its only input is a source that is always
"manual", and its result is only shown), reports (they only read), templates,
assets, CSRF, pprof, demo mode, shell scripts, the parsing of Ethernet frames, of
`/proc/net/tcp` and of the text of a library, and the generated BPF bindings.
