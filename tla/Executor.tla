------------------------------ MODULE Executor ------------------------------
(***************************************************************************)
(* The execution plane: the loop that polls pending dispatch rows and       *)
(* applies them to the kernel maps (cmd/xdpban/exec_loop.go, executor.go),  *)
(* the rollbacks that HTTP handlers run against the same maps at the same   *)
(* time, and the life of the process around them: it crashes, it is         *)
(* stopped, it starts again with or without the pinned maps it left.        *)
(*                                                                         *)
(* A dispatch row is its index in `dispatches`; the column `state` is       *)
(* "acked" or "failed" for the indices in those sets and "pending" for the  *)
(* rest.  What a payload says is fixed by its request: the host it protects *)
(* (NoHost for a global ban) and the source prefixes.                       *)
(***************************************************************************)
EXTENDS KernelMaps, DispatchTable

CONSTANTS HostOf, NoHost, PrefixesOf,
          MaxGlobalBans, MaxTargets, MaxSrcBans,  \* max_entries of the maps
          BatchLimit,   \* rows polled at once
          Revokers,     \* goroutines that may run a rollback
          MaxFaults     \* bound on stops, crashes and failed marks

ASSUME ExecutorAssumption ==
  /\ NoHost \notin Hosts
  /\ HostOf \in [Rules -> Hosts \union {NoHost}]
  /\ PrefixesOf \in [Rules -> Seq(Prefixes)]
  /\ \A r \in Rules : PrefixesOf[r] # << >>
  /\ \A r \in Rules : HostOf[r] = NoHost => Len(PrefixesOf[r]) = 1
  /\ \A n \in {MaxGlobalBans, MaxTargets, MaxSrcBans, MaxFaults} : n \in Nat
  /\ BatchLimit \in Nat \ {0}

VARIABLES
  acked, failed, \* indices of the rows in those states
  batch,         \* rows of the last poll that are still to be applied
  job,           \* progress of the row being applied, and when that began
  targetIDs,     \* banMaps.targetIDs
  nextTargetID,  \* banMaps.nextTargetID
  process,       \* "up", "stopping", "closed" or "down"
  pinned,        \* the maps in use have names in bpffs
  revoker,       \* what each rollback is doing
  rollback,      \* history: how far the rollback of each request got
  lost,          \* history: rows that were acked when the maps were emptied
  faults         \* stops, crashes and failed marks so far

loopVars  == <<batch, job>>
tableIds  == <<targetIDs, nextTargetID>>
procVars  == <<process, pinned, lost, faults>>
revVars   == <<revoker, rollback>>
execVars  == <<kernelVars, dispatches, acked, failed, loopVars, tableIds, procVars, revVars>>

-----------------------------------------------------------------------------
(* Helpers.                                                                *)

Row == [req : Rules, ttl : Nat]

\* A fault: a failed row is polled again.
RetriesFailed == DOMAIN dispatches \ acked

Pending == DOMAIN dispatches \ (acked \union failed)

NoJob == [stage |-> "none", at |-> 0, tid |-> 0, left |-> << >>]

Free == [stage |-> "free"]

MapsOpen == process \in {"up", "stopping"}

Running == process # "down"

MaxId(ids) == CHOOSE n \in ids \union {0} : \A m \in ids : m <= n

\* The row the loop is at: it takes the rows of a batch in order.
Current(i) == i \in batch /\ \A j \in batch : i <= j

IsGlobal(r) == HostOf[r] = NoHost

\* A map takes a key it already holds, and a new one while it has room.
HasRoom(m, k, max) == k \in DOMAIN m \/ Cardinality(DOMAIN m) < max

-----------------------------------------------------------------------------
(* The executor loop.                                                      *)

\* A row is inserted by the control plane.
Enqueue(r, ttl) ==
  /\ Running
  /\ dispatches' = Append(dispatches, [req |-> r, ttl |-> ttl])
  /\ UNCHANGED <<kernelVars, acked, failed, loopVars, tableIds, procVars, revVars>>

\* pollAndExecute: the oldest pending rows, BatchLimit of them.  After
\* cancelExec the loop may still poll: its select has two ready channels.
Poll ==
  /\ Running
  /\ batch = {}
  /\ Pending # {}
  /\ batch' = { i \in Pending : Cardinality({ j \in Pending : j < i }) < BatchLimit }
  /\ UNCHANGED <<kernelVars, dispatches, acked, failed, job, tableIds, procVars, revVars>>

\* The deadline is computed from this reading of the clock, for all the Puts to
\* come: the loop is one goroutine, but the clock goes on between them.
Apply(i) ==
  LET r == dispatches[i].req IN
  /\ Running /\ Current(i) /\ job = NoJob
  /\ job' = [stage |-> IF IsGlobal(r) THEN "put" ELSE "target",
             at |-> now, tid |-> 0, left |-> PrefixesOf[r]]
  /\ UNCHANGED <<kernelVars, dispatches, acked, failed, batch, tableIds, procVars, revVars>>

\* A fault: a target id is handed out again.
ReusesId == 1

NewTargetId == nextTargetID

\* banMaps.ensureTarget, for a host that has an id.
ensureTarget(i) ==
  LET h == HostOf[dispatches[i].req] IN
  /\ Current(i) /\ job.stage = "target"
  /\ h \in DOMAIN targetIDs
  /\ job' = [job EXCEPT !.stage = "put", !.tid = targetIDs[h]]
  /\ UNCHANGED <<kernelVars, dispatches, acked, failed, batch, tableIds, procVars, revVars>>

\* The same for a host without one: the kernel first ...
ensureTarget_Put(i) ==
  LET h == HostOf[dispatches[i].req] IN
  /\ Current(i) /\ job.stage = "target"
  /\ h \notin DOMAIN targetIDs
  /\ IF MapsOpen /\ HasRoom(targetHosts, h, MaxTargets)
     THEN /\ PutTarget(h, NewTargetId) /\ UNCHANGED now
          /\ job' = [job EXCEPT !.stage = "remember", !.tid = NewTargetId]
     ELSE /\ job' = [NoJob EXCEPT !.stage = "fail"]
          /\ UNCHANGED kernelVars
  /\ UNCHANGED <<dispatches, acked, failed, batch, tableIds, procVars, revVars>>

\* A fault: the id is never remembered.
ForgetsTarget(h, tid) == UNCHANGED tableIds

RememberTarget(h, tid) ==
  /\ targetIDs' = SetKey(targetIDs, h, tid)
  /\ nextTargetID' = nextTargetID + 1

\* ... then the memory, which a rollback may read in between.
ensureTarget_Remember(i) ==
  /\ Current(i) /\ job.stage = "remember"
  /\ RememberTarget(HostOf[dispatches[i].req], job.tid)
  /\ job' = [job EXCEPT !.stage = "put"]
  /\ UNCHANGED <<kernelVars, dispatches, acked, failed, batch, procVars, revVars>>

\* A fault: the row is acked once its first prefix is in the kernel.
AcksFirstPut(j) == [NoJob EXCEPT !.stage = "ack"]

AfterPut(j) ==
  IF Len(j.left) = 1 THEN [NoJob EXCEPT !.stage = "ack"] ELSE [j EXCEPT !.left = Tail(@)]

AfterError == [NoJob EXCEPT !.stage = "fail"]

\* One Put; the first that fails ends the row, with what is written left there.
Apply_Put(i) ==
  LET p == Head(job.left)
      v == EncodeValue(job.at, dispatches[i].ttl, dispatches[i].req)
      written == IF job.tid = 0
                 THEN HasRoom(globalBans, p, MaxGlobalBans) /\ PutGlobal(p, v)
                 ELSE HasRoom(srcBans, <<job.tid, p>>, MaxSrcBans) /\ PutScoped(job.tid, p, v)
  IN
  /\ Current(i) /\ job.stage = "put"
  /\ \/ /\ MapsOpen /\ written /\ UNCHANGED now
        /\ job' = AfterPut(job)
     \/ /\ \/ ~MapsOpen
           \/ job.tid = 0 /\ ~HasRoom(globalBans, p, MaxGlobalBans)
           \/ job.tid # 0 /\ ~HasRoom(srcBans, <<job.tid, p>>, MaxSrcBans)
        /\ job' = AfterError
        /\ UNCHANGED kernelVars
  /\ UNCHANGED <<dispatches, acked, failed, batch, tableIds, procVars, revVars>>

Settled(i) ==
  /\ batch' = batch \ {i}
  /\ job' = NoJob
  /\ UNCHANGED <<kernelVars, dispatches, tableIds, revVars>>

markAcked(i) ==
  /\ Current(i) /\ job.stage = "ack"
  /\ acked' = acked \union {i}
  /\ Settled(i)
  /\ UNCHANGED <<failed, procVars>>

\* A fault: the error is noted but the row stays pending.
StaysPending(i) == Current(i) /\ job.stage = "fail" /\ Settled(i) /\ UNCHANGED <<acked, failed, procVars>>

markFailed(i) ==
  /\ Current(i) /\ job.stage = "fail"
  /\ failed' = failed \union {i}
  /\ Settled(i)
  /\ UNCHANGED <<acked, procVars>>

\* The update of the row fails: it stays pending and will be applied again.
MarkFails(i) ==
  /\ Current(i) /\ job.stage \in {"ack", "fail"}
  /\ faults < MaxFaults
  /\ faults' = faults + 1
  /\ Settled(i)
  /\ UNCHANGED <<acked, failed, process, pinned, lost>>

-----------------------------------------------------------------------------
(* Rollbacks.  RevokeGlobal and RevokeScoped run in the goroutine of an     *)
(* HTTP handler, with no lock between them and the loop.  The prefixes are  *)
(* those of the dispatch row; a scoped ban without a row, or whose host has *)
(* no id in memory, has nothing to delete.                                  *)

AllSettled(r) == \A i \in DOMAIN dispatches \ (acked \union failed) : dispatches[i].req # r

Revoke(v, r) ==
  LET known == IsGlobal(r) \/ (HasRow(r) /\ HostOf[r] \in DOMAIN targetIDs) IN
  /\ process = "up"
  /\ revoker[v] = Free
  /\ rollback[r] \in {"no", "begun"}
  /\ revoker' = [revoker EXCEPT ![v] =
       [stage |-> "delete", req |-> r, settled |-> HasRow(r) /\ AllSettled(r),
        tid |-> IF known /\ ~IsGlobal(r) THEN targetIDs[HostOf[r]] ELSE 0,
        left |-> IF known THEN PrefixesOf[r] ELSE << >>]]
  /\ rollback' = [rollback EXCEPT ![r] = "begun"]
  /\ UNCHANGED <<kernelVars, dispatches, acked, failed, loopVars, tableIds, procVars>>

\* A fault: the loop over the prefixes stops after the first one.
DeletesFirstOnly(left) == << >>

Remaining(left) == Tail(left)

Revoke_Delete(v) ==
  LET p == Head(revoker[v].left) IN
  /\ Running
  /\ revoker[v].stage = "delete" /\ revoker[v].left # << >>
  /\ IF MapsOpen
     THEN /\ IF revoker[v].tid = 0 THEN DeleteGlobal(p) ELSE DeleteScoped(revoker[v].tid, p)
          /\ revoker' = [revoker EXCEPT ![v].left = Remaining(@)]
     ELSE revoker' = [revoker EXCEPT ![v] = Free] /\ UNCHANGED kernelMaps
  /\ UNCHANGED <<now, dispatches, acked, failed, loopVars, tableIds, procVars, rollback>>

\* state = 'revoked' is written.  The history notes whether the rollback began
\* after the executor was done with the request ("clean") or before ("late").
Revoke_Done(v) ==
  LET r == revoker[v].req IN
  /\ Running
  /\ revoker[v].stage = "delete" /\ revoker[v].left = << >>
  /\ rollback' = [rollback EXCEPT ![r] = IF revoker[v].settled \/ @ = "clean" THEN "clean" ELSE "late"]
  /\ revoker' = [revoker EXCEPT ![v] = Free]
  /\ UNCHANGED <<kernelVars, dispatches, acked, failed, loopVars, tableIds, procVars>>

\* The handler stops before it writes the state; the rollback may be tried again.
Revoke_GivesUp(v) ==
  /\ revoker[v] # Free
  /\ revoker' = [revoker EXCEPT ![v] = Free]
  /\ UNCHANGED <<kernelVars, dispatches, acked, failed, loopVars, tableIds, procVars, rollback>>

-----------------------------------------------------------------------------
(* The process.                                                            *)

\* SIGTERM: cancelExec() is called and nobody waits for the loops.
Stop ==
  /\ process = "up"
  /\ faults < MaxFaults
  /\ process' = "stopping"
  /\ faults' = faults + 1
  /\ UNCHANGED <<kernelVars, dispatches, acked, failed, loopVars, tableIds, pinned, lost, revVars>>

\* closeXDP(), after srv.Shutdown returned or timed out.
CloseXDP ==
  /\ process = "stopping"
  /\ process' = "closed"
  /\ UNCHANGED <<kernelVars, dispatches, acked, failed, loopVars, tableIds, pinned, lost, faults, revVars>>

\* What is left in the kernel when the last user of unpinned maps is gone.
KeepMaps(kept) ==
  /\ lost'        = IF kept THEN lost ELSE lost \union acked
  /\ globalBans'  = IF kept THEN globalBans ELSE << >>
  /\ targetHosts' = IF kept THEN targetHosts ELSE << >>
  /\ srcBans'     = IF kept THEN srcBans ELSE << >>
  /\ UNCHANGED now

\* The process is gone: main returned, or it crashed at any point.
Exit ==
  /\ \/ process = "closed" /\ UNCHANGED faults
     \/ process \in {"up", "stopping"} /\ faults < MaxFaults /\ faults' = faults + 1
  /\ process' = "down"
  /\ batch' = {} /\ job' = NoJob
  /\ targetIDs' = << >> /\ nextTargetID' = 1
  /\ revoker' = [v \in Revokers |-> Free]
  /\ KeepMaps(pinned)
  /\ UNCHANGED <<dispatches, acked, failed, pinned, rollback>>

\* A fault: the process starts without reading the pinned ids back.
StartsEmpty == targetIDs' = << >> /\ nextTargetID' = 1

\* A fault: the next id is the largest one in use.
RestoresLastId ==
  /\ targetIDs' = targetHosts'
  /\ nextTargetID' = MaxId({ targetHosts'[h] : h \in DOMAIN targetHosts' })

restoreTargets ==
  /\ targetIDs' = targetHosts'
  /\ nextTargetID' = MaxId({ targetHosts'[h] : h \in DOMAIN targetHosts' }) + 1

\* startExecutor.  Pinning fails where bpffs is not mounted; the maps an
\* earlier process pinned there are then gone as well.  Left out: a target map
\* whose contents do not decode or name the id 0, at which the daemon warns and
\* goes on with an empty table and the id 1.  Nothing here writes such contents.
Start(pin) ==
  /\ process = "down"
  /\ process' = "up"
  /\ pinned' = pin
  /\ KeepMaps(pinned /\ pin)
  /\ restoreTargets
  /\ UNCHANGED <<dispatches, acked, failed, loopVars, faults, revVars>>

\* The host reboots while the process is down: bpffs starts empty.
Reboot ==
  /\ process = "down" /\ pinned
  /\ pinned' = FALSE
  /\ KeepMaps(FALSE)
  /\ UNCHANGED <<dispatches, acked, failed, loopVars, tableIds, process, faults, revVars>>

Tick ==
  /\ KernelTick
  /\ UNCHANGED <<dispatches, acked, failed, loopVars, tableIds, procVars, revVars>>

-----------------------------------------------------------------------------
(* The specification.                                                      *)

ExecInit ==
  /\ KernelInit
  /\ dispatches = << >>
  /\ acked = {} /\ failed = {}
  /\ batch = {} /\ job = NoJob
  /\ targetIDs = << >> /\ nextTargetID = 1
  /\ process = "up" /\ pinned \in BOOLEAN
  /\ revoker = [v \in Revokers |-> Free]
  /\ rollback = [r \in Rules |-> "no"]
  /\ lost = {}
  /\ faults = 0

Loop ==
  \/ Poll
  \/ \E i \in batch :
       \/ Apply(i)
       \/ ensureTarget(i)
       \/ ensureTarget_Put(i)
       \/ ensureTarget_Remember(i)
       \/ Apply_Put(i)
       \/ markAcked(i)
       \/ markFailed(i)

Rollbacks ==
  \E v \in Revokers :
    \/ \E r \in Rules : Revoke(v, r)
    \/ Revoke_Delete(v)
    \/ Revoke_Done(v)
    \/ Revoke_GivesUp(v)

Process ==
  \/ Stop
  \/ CloseXDP
  \/ Exit
  \/ Reboot
  \/ \E pin \in BOOLEAN : Start(pin)

ExecNext ==
  \/ \E r \in Rules, ttl \in TTLs : ~HasRow(r) /\ Enqueue(r, ttl)
  \/ Loop
  \/ \E i \in batch : MarkFails(i)
  \/ Rollbacks
  \/ Process
  \/ Tick

ExecSpec == ExecInit /\ [][ExecNext]_execVars

\* As long as the process is up its ticker fires and its statements return.
\* Nothing is assumed of the process itself, of rollbacks or of the clock.
FairExecSpec == ExecSpec /\ WF_execVars(process = "up" /\ Loop)

-----------------------------------------------------------------------------
(* Properties.                                                             *)

Jobs == [stage : {"none", "target", "remember", "put", "ack", "fail"},
         at : Nat, tid : Nat, left : Seq(Prefixes)]

Deletions == [stage : {"delete"}, req : Rules, tid : Nat, left : Seq(Prefixes), settled : BOOLEAN]

ExecTypeOK ==
  /\ KernelTypeOK
  /\ dispatches \in Seq(Row)
  /\ acked \subseteq DOMAIN dispatches
  /\ failed \subseteq DOMAIN dispatches \ acked
  /\ batch \subseteq Pending
  /\ job \in Jobs
  /\ \A h \in DOMAIN targetIDs : h \in Hosts /\ targetIDs[h] \in TargetIds
  /\ nextTargetID \in TargetIds
  /\ process \in {"up", "stopping", "closed", "down"}
  /\ pinned \in BOOLEAN
  /\ revoker \in [Revokers -> {Free} \union Deletions]
  /\ rollback \in [Rules -> {"no", "begun", "late", "clean"}]
  /\ lost \subseteq acked
  /\ faults \in Nat

\* No two hosts share a target id, whatever crashes and restarts lie between
\* the two allocations: a shared id would put the rules of one host on another.
TargetIdsUnique ==
  \A h, g \in DOMAIN targetHosts : targetHosts[h] = targetHosts[g] => h = g

\* The loop is between the two writes of ensureTarget for this host.
Registering(h) ==
  \E i \in batch : Current(i) /\ job.stage = "remember" /\ HostOf[dispatches[i].req] = h

\* While the process runs, every id in memory is in the kernel, every id in the
\* kernel is in memory or about to be, and the id that will be handed out next
\* is not in use: what restoreTargets and the order of the writes in ensureTarget
\* are for, whichever of them fails and wherever a crash falls.
MemoryMatchesKernel ==
  Running =>
    /\ \A h \in DOMAIN targetIDs :
         /\ h \in DOMAIN targetHosts /\ targetHosts[h] = targetIDs[h]
         /\ targetIDs[h] < nextTargetID
    /\ \A h \in DOMAIN targetHosts \ DOMAIN targetIDs :
         Registering(h) /\ targetHosts[h] = nextTargetID

\* A scoped rule only ever acts on packets to the host it was approved for,
\* whichever processes wrote the key and the host's id.
ScopedRuleStaysOnItsHost ==
  \A k \in DOMAIN srcBans, h \in DOMAIN targetHosts :
    targetHosts[h] = k[1] => HostOf[srcBans[k].rule] = h

Keys(r) == { PrefixesOf[r][n] : n \in DOMAIN PrefixesOf[r] }

InKernel(r, p) ==
  \/ IsGlobal(r) /\ p \in DOMAIN globalBans
  \/ ~IsGlobal(r) /\ HostOf[r] \in DOMAIN targetHosts /\ <<targetHosts[HostOf[r]], p>> \in DOMAIN srcBans

SharesKey(r, q, p) == HostOf[q] = HostOf[r] /\ p \in Keys(q)

\* Acked means in the kernel: every prefix of an acked row has its key, unless
\* the maps were emptied since or somebody rolled back a request with that key.
AckedIsEnforced ==
  \A i \in acked \ lost : \A p \in Keys(dispatches[i].req) :
    \/ InKernel(dispatches[i].req, p)
    \/ \E q \in Rules : SharesKey(dispatches[i].req, q, p) /\ rollback[q] # "no"

\* A rollback that began once the executor was done with the request is final:
\* none of its keys is in the kernel again, across restarts, unless another
\* request bans the same prefix.
CleanRollbackHolds ==
  \A r \in Rules : rollback[r] = "clean" =>
    \A p \in Keys(r) :
      \/ ~InKernel(r, p)
      \/ \E q \in Rules \ {r} : SharesKey(r, q, p) /\ HasRow(q)

\* A rule that reaches the map within its lifetime, counted from the moment
\* Apply read the clock, lets nothing through that was dropped, and neither does
\* a host that gets its id: the ticks, rollbacks and other handlers between that
\* reading and the Put do not matter.
PutsInTimeHold ==
  [][\A i \in batch :
       \/ ensureTarget_Put(i)
       \/ Apply_Put(i) /\ InTime(job.at, dispatches[i].ttl)
       => Dropped \subseteq Dropped']_execVars

\* No row is left pending by a process that stays up, however full the maps
\* are and whatever was left halfway by the processes before it.
EveryDispatchSettles ==
  <>[](process = "up") =>
    \A r \in Rules : [](HasRow(r) => <>(HasRow(r) /\ AllSettled(r)))

=============================================================================
