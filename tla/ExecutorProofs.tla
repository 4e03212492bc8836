--------------------------- MODULE ExecutorProofs ---------------------------
(***************************************************************************)
(* Proofs about Executor, for any rules, hosts, prefixes, capacities and    *)
(* numbers of rollbacks, crashes and restarts: the types, that no rule of   *)
(* one host is ever found under the id of another, that acked means in the  *)
(* kernel, and that a rollback holds.                                       *)
(***************************************************************************)
EXTENDS Executor, KernelMapsProofs, SequenceTheorems, TLAPS

-----------------------------------------------------------------------------
(* The inductive invariant.                                                *)

\* The stages of a job that still has keys to write.
Writing == {"target", "remember", "put"}

\* The loop has a job only for a row of its batch, and no loop outlives its
\* process.
JobHasRow ==
  /\ batch = {} => job = NoJob
  /\ ~Running => batch = {}
  /\ job.stage \in Writing => job.left # << >>

\* The id a job writes under is the id of the host of its row; the one it has just
\* put in the kernel is the next in memory.
JobKnowsTarget ==
  \A i \in batch : Current(i) =>
    LET h == HostOf[dispatches[i].req] IN
    /\ job.stage \in {"target", "remember"} => ~IsGlobal(dispatches[i].req)
    /\ job.stage = "remember" => job.tid = nextTargetID /\ h \notin DOMAIN targetIDs
    /\ job.stage = "put" /\ IsGlobal(dispatches[i].req) => job.tid = 0
    /\ job.stage \in {"remember", "put"} /\ ~IsGlobal(dispatches[i].req) =>
         h \in DOMAIN targetHosts /\ targetHosts[h] = job.tid

\* Among the ids in the kernel there is a largest one.
LargestIdExists ==
  DOMAIN targetHosts # {} =>
    \E g \in DOMAIN targetHosts : \A h \in DOMAIN targetHosts : targetHosts[h] <= targetHosts[g]

\* No key is left behind under an id that may be handed out later.
KeysHaveTarget ==
  \A k \in DOMAIN srcBans : \E h \in DOMAIN targetHosts : targetHosts[h] = k[1]

\* No key is there under the id that is handed out next, or has just been.
NextIdUnused == Running => \A k \in DOMAIN srcBans : k[1] # nextTargetID

\* A key of a request is in the kernel, or somebody rolled it back.
Kept(r, p) ==
  \/ InKernel(r, p)
  \/ \E q \in Rules : SharesKey(r, q, p) /\ rollback[q] # "no"

\* A key of a request is out of the kernel, or another request has it too.
Gone(r, p) ==
  \/ ~InKernel(r, p)
  \/ \E q \in Rules \ {r} : SharesKey(r, q, p) /\ HasRow(q)

\* The executor is done with a request.
Finished(r) == HasRow(r) /\ AllSettled(r)

\* What a job for this request does not have left to write is in the kernel.
JobWrote(r) ==
  /\ Range(job.left) \subseteq Keys(r)
  /\ job.stage \in Writing => \A p \in Keys(r) \ Range(job.left) : Kept(r, p)
  /\ job.stage = "ack" => \A p \in Keys(r) : Kept(r, p)

JobWrites == \A i \in batch : Current(i) => JobWrote(dispatches[i].req)

\* A rollback deletes keys of its request only, under the id of its host, and
\* dies with its process.
DeletesOwn(d) ==
  /\ Running
  /\ rollback[d.req] # "no"
  /\ Range(d.left) \subseteq Keys(d.req)
  /\ d.left # << >> /\ IsGlobal(d.req) => d.tid = 0
  /\ d.left # << >> /\ ~IsGlobal(d.req) =>
       HostOf[d.req] \in DOMAIN targetHosts /\ d.tid = targetHosts[HostOf[d.req]]

RevokerAims == \A v \in Revokers : revoker[v] # Free => DeletesOwn(revoker[v])

\* Nobody writes again what a clean rollback deletes.
CleanIsFinished ==
  /\ \A r \in Rules : rollback[r] = "clean" => Finished(r)
  /\ \A v \in Revokers : revoker[v] # Free /\ revoker[v].settled => Finished(revoker[v].req)

\* What such a rollback does not have left to delete is gone.
Deleted(d) == \A p \in Keys(d.req) \ Range(d.left) : Gone(d.req, p)

RevokerClears ==
  \A v \in Revokers : revoker[v] # Free /\ revoker[v].settled => Deleted(revoker[v])

ExecInv ==
  /\ ExecTypeOK
  /\ JobHasRow
  /\ MemoryMatchesKernel
  /\ LargestIdExists
  /\ TargetIdsUnique
  /\ KeysHaveTarget
  /\ NextIdUnused
  /\ JobKnowsTarget
  /\ ScopedRuleStaysOnItsHost
  /\ JobWrites
  /\ AckedIsEnforced
  /\ RevokerAims
  /\ CleanIsFinished
  /\ RevokerClears
  /\ CleanRollbackHolds

-----------------------------------------------------------------------------
(* Maps, ids and jobs.                                                     *)

\* restoreTargets finds the largest id, 0 where there is none.
LEMMA MaxIdIsLargest ==
  ASSUME NEW ids \in SUBSET Nat,
         ids # {} => \E n \in ids : \A m \in ids : m <= n
  PROVE  MaxId(ids) \in Nat /\ \A m \in ids : m <= MaxId(ids)
<1>1. \E n \in ids \union {0} : \A m \in ids : m <= n
  OBVIOUS
<1> DEFINE largest == MaxId(ids)
<1>2. largest \in ids \union {0} /\ \A m \in ids : m <= largest
  BY <1>1 DEF MaxId
<1> HIDE DEF largest
<1>3. largest \in Nat /\ \A m \in ids : m <= largest
  BY <1>2
<1> QED
  BY <1>3 DEF largest

\* A job at rest, and one that has come to an end, is well formed.
LEMMA JobsTyped ==
  /\ NoJob \in Jobs
  /\ [NoJob EXCEPT !.stage = "ack"] \in Jobs
  /\ [NoJob EXCEPT !.stage = "fail"] \in Jobs
  /\ NoJob.stage = "none"
  /\ [NoJob EXCEPT !.stage = "ack"].stage = "ack"
  /\ [NoJob EXCEPT !.stage = "fail"].stage = "fail"
<1>1. << >> \in Seq(Prefixes)
  OBVIOUS
<1> QED
  BY <1>1 DEF NoJob, Jobs

\* The sources of a request.
LEMMA PrefixesTyped ==
  ASSUME NEW r \in Rules
  PROVE  PrefixesOf[r] \in Seq(Prefixes) /\ PrefixesOf[r] # << >>
BY ExecutorAssumption

\* After a Put a job goes on with the rest of its prefixes, or is done.
LEMMA AfterPutEffect ==
  ASSUME NEW j \in Jobs, j.left # << >>
  PROVE  /\ AfterPut(j) \in Jobs
         /\ AfterPut(j).stage = "put" => j.stage = "put" /\ AfterPut(j).left # << >>
              /\ AfterPut(j).tid = j.tid
         /\ AfterPut(j).stage \in {"ack", j.stage}
<1>1. j.left \in Seq(Prefixes)
  BY DEF Jobs
<1>2. CASE Len(j.left) = 1
  BY <1>2, JobsTyped DEF AfterPut
<1>3. CASE Len(j.left) # 1
  <2>1. Tail(j.left) \in Seq(Prefixes) /\ Len(Tail(j.left)) = Len(j.left) - 1
    BY <1>1, HeadTailProperties
  <2>2. Len(j.left) \in Nat \ {0}
    BY <1>1, EmptySeq
  <2> DEFINE rest == Tail(j.left)
  <2>3. rest \in Seq(Prefixes) /\ Len(rest) # 0
    BY <1>3, <2>1, <2>2
  <2>4. AfterPut(j) = [j EXCEPT !.left = rest]
    BY <1>3 DEF AfterPut
  <2> HIDE DEF rest
  <2>5. rest # << >>
    BY <2>3, EmptySeq
  <2> QED
    BY <2>3, <2>4, <2>5 DEF Jobs
<1> QED
  BY <1>2, <1>3

\* A new row leaves the older ones where they are.
LEMMA AppendEffect ==
  ASSUME NEW s \in Seq(Row), NEW e \in Row
  PROVE  /\ Append(s, e) \in Seq(Row)
         /\ DOMAIN s \subseteq DOMAIN Append(s, e)
         /\ \A i \in DOMAIN s : Append(s, e)[i] = s[i]
<1>1. /\ Append(s, e) \in Seq(Row)
      /\ Len(Append(s, e)) = Len(s) + 1
      /\ \A i \in 1..Len(s) : Append(s, e)[i] = s[i]
  BY AppendProperties
<1>2. DOMAIN s = 1..Len(s) /\ DOMAIN Append(s, e) = 1..Len(Append(s, e)) /\ Len(s) \in Nat
  BY <1>1, LenProperties
<1>3. 1..Len(s) \subseteq 1..(Len(s) + 1)
  BY <1>2
<1> QED
  BY <1>1, <1>2, <1>3

\* A row of the batch has a request, and its request a host and sources.
LEMMA RowTyped ==
  ASSUME ExecTypeOK, NEW i \in batch
  PROVE  /\ i \in DOMAIN dispatches
         /\ dispatches[i].req \in Rules /\ dispatches[i].ttl \in Nat
         /\ HostOf[dispatches[i].req] \in Hosts \union {NoHost}
<1>1. i \in DOMAIN dispatches /\ dispatches \in Seq(Row)
  BY DEF ExecTypeOK, Pending
<1>2. dispatches[i] \in Row
  BY <1>1, LenProperties
<1> QED
  BY <1>1, <1>2, ExecutorAssumption DEF Row

\* The row of the current job is pending.
LEMMA CurrentPending ==
  ASSUME ExecTypeOK, NEW i \in batch
  PROVE  /\ i \in Pending /\ HasRow(dispatches[i].req) /\ ~AllSettled(dispatches[i].req)
         /\ \A j \in batch : Current(i) /\ Current(j) => i = j
BY DEF ExecTypeOK, Pending, HasRow, AllSettled, Current

-----------------------------------------------------------------------------
(* What a step does to the maps: nothing, one call, or the loss of all three. *)

WriteKey(r, p, v) ==
  IF IsGlobal(r) THEN PutGlobal(p, v)
  ELSE HostOf[r] \in DOMAIN targetHosts /\ PutScoped(targetHosts[HostOf[r]], p, v)

DeleteKey(r, p) ==
  IF IsGlobal(r) THEN DeleteGlobal(p)
  ELSE HostOf[r] \in DOMAIN targetHosts /\ DeleteScoped(targetHosts[HostOf[r]], p)

GivesId ==
  \E h \in Hosts \ DOMAIN targetHosts : PutTarget(h, nextTargetID) /\ Running /\ UNCHANGED now

WritesKey ==
  \E i \in batch : \E p \in Keys(dispatches[i].req) :
    /\ WriteKey(dispatches[i].req, p, EncodeValue(job.at, dispatches[i].ttl, dispatches[i].req))
    /\ UNCHANGED now

DeletesKey ==
  \E r \in Rules : \E p \in Keys(r) : rollback[r] # "no" /\ DeleteKey(r, p) /\ UNCHANGED now

LosesMaps ==
  /\ kernelMaps' = << << >>, << >>, << >> >> /\ UNCHANGED now
  /\ acked' \subseteq lost'
  /\ batch' = {}
  /\ \A v \in Revokers : revoker'[v] = Free

\* One write adds one key of one host.
LEMMA KeyWritten ==
  ASSUME TargetIdsUnique, ExecTypeOK, NEW r \in Rules, NEW x,
         NEW q \in Rules, NEW p, NEW v, WriteKey(q, p, v)
  PROVE  InKernel(r, x)' <=> InKernel(r, x) \/ (x = p /\ HostOf[r] = HostOf[q])
<1>1. CASE IsGlobal(q)
  <2>1. DOMAIN globalBans' = DOMAIN globalBans \union {p} /\ UNCHANGED <<targetHosts, srcBans>>
    BY <1>1 DEF WriteKey, PutGlobal, SetKey
  <2> QED
    BY <1>1, <2>1 DEF InKernel, IsGlobal
<1>2. CASE ~IsGlobal(q)
  <2> DEFINE t == targetHosts[HostOf[q]]
  <2>1. /\ DOMAIN srcBans' = DOMAIN srcBans \union {<<t, p>>}
        /\ UNCHANGED <<targetHosts, globalBans>>
        /\ HostOf[q] \in DOMAIN targetHosts
    BY <1>2 DEF WriteKey, PutScoped, SetKey
  <2>2. CASE IsGlobal(r)
    BY <1>2, <2>1, <2>2 DEF InKernel, IsGlobal
  <2>3. CASE ~IsGlobal(r)
    <3>1. HostOf[r] \in DOMAIN targetHosts =>
            (targetHosts[HostOf[r]] = t <=> HostOf[r] = HostOf[q])
      BY <2>1 DEF TargetIdsUnique
    <3> QED
      BY <1>2, <2>1, <2>3, <3>1 DEF InKernel, IsGlobal
  <2> QED
    BY <2>2, <2>3
<1> QED
  BY <1>1, <1>2

\* One deletion takes one key of one host.
LEMMA KeyDeleted ==
  ASSUME TargetIdsUnique, ExecTypeOK, NEW r \in Rules, NEW x,
         NEW q \in Rules, NEW p, DeleteKey(q, p)
  PROVE  InKernel(r, x)' <=> InKernel(r, x) /\ ~(x = p /\ HostOf[r] = HostOf[q])
<1>1. CASE IsGlobal(q)
  <2>1. DOMAIN globalBans' = DOMAIN globalBans \ {p} /\ UNCHANGED <<targetHosts, srcBans>>
    BY <1>1 DEF DeleteKey, DeleteGlobal, DropKey
  <2> QED
    BY <1>1, <2>1 DEF InKernel, IsGlobal
<1>2. CASE ~IsGlobal(q)
  <2> DEFINE t == targetHosts[HostOf[q]]
  <2>1. /\ DOMAIN srcBans' = DOMAIN srcBans \ {<<t, p>>}
        /\ UNCHANGED <<targetHosts, globalBans>>
        /\ HostOf[q] \in DOMAIN targetHosts
    BY <1>2 DEF DeleteKey, DeleteScoped, DropKey
  <2>2. CASE IsGlobal(r)
    BY <1>2, <2>1, <2>2 DEF InKernel, IsGlobal
  <2>3. CASE ~IsGlobal(r)
    <3>1. HostOf[r] \in DOMAIN targetHosts =>
            (targetHosts[HostOf[r]] = t <=> HostOf[r] = HostOf[q])
      BY <2>1 DEF TargetIdsUnique
    <3> QED
      BY <1>2, <2>1, <2>3, <3>1 DEF InKernel, IsGlobal
  <2> QED
    BY <2>2, <2>3
<1> QED
  BY <1>1, <1>2

\* But for the host that is being registered, the kernel has the hosts of the memory.
LEMMA KernelHosts ==
  ASSUME ExecInv, Running, job.stage # "remember"
  PROVE  DOMAIN targetHosts = DOMAIN targetIDs
BY DEF ExecInv, MemoryMatchesKernel, Registering

\* A new id uncovers no key.
LEMMA IdGiven ==
  ASSUME ExecInv, NEW r \in Rules, NEW x, GivesId
  PROVE  InKernel(r, x)' <=> InKernel(r, x)
<1>1. PICK h \in Hosts \ DOMAIN targetHosts : PutTarget(h, nextTargetID)
  BY DEF GivesId
<1>2. /\ UNCHANGED <<globalBans, srcBans>>
      /\ DOMAIN targetHosts' = DOMAIN targetHosts \union {h}
      /\ targetHosts'[h] = nextTargetID
      /\ \A g \in DOMAIN targetHosts : targetHosts'[g] = targetHosts[g]
  BY <1>1 DEF PutTarget, SetKey
<1>3. \A k \in DOMAIN srcBans : k[1] # nextTargetID
  BY DEF GivesId, ExecInv, NextIdUnused
<1>4. <<nextTargetID, x>> \notin DOMAIN srcBans
  BY <1>3
<1> QED
  BY <1>1, <1>2, <1>4 DEF InKernel, IsGlobal

\* A sequence of prefixes is its head and the rest.
LEMMA HeadAndRest ==
  ASSUME NEW s \in Seq(Prefixes), s # << >>
  PROVE  /\ Tail(s) \in Seq(Prefixes)
         /\ Head(s) \in Range(s)
         /\ Range(s) = {Head(s)} \union Range(Tail(s))
         /\ Len(s) = 1 => Range(s) = {Head(s)}
<1>1. /\ Tail(s) \in Seq(Prefixes) /\ Len(Tail(s)) = Len(s) - 1
      /\ Head(s) = s[1]
      /\ \A n \in 1..Len(Tail(s)) : Tail(s)[n] = s[n + 1]
  BY HeadTailProperties
<1>2. DOMAIN s = 1..Len(s) /\ Len(s) \in Nat \ {0}
  BY EmptySeq, LenProperties
<1>3. DOMAIN Tail(s) = 1..(Len(s) - 1)
  BY <1>1, <1>2, LenProperties
<1> DEFINE rest == Tail(s)
<1>4. Head(s) \in Range(s)
  BY <1>1, <1>2 DEF Range
<1>5. ASSUME NEW x \in Range(s), x # Head(s) PROVE x \in Range(rest)
  <2>1. PICK n \in 1..Len(s) : x = s[n]
    BY <1>2 DEF Range
  <2>2. n # 1 /\ n - 1 \in 1..(Len(s) - 1)
    BY <1>1, <1>2, <1>5, <2>1
  <2>3. rest[n - 1] = x
    BY <1>1, <1>2, <2>1, <2>2
  <2> QED
    BY <1>3, <2>2, <2>3 DEF Range
<1>6. ASSUME NEW x \in Range(rest) PROVE x \in Range(s)
  <2>1. PICK n \in 1..(Len(s) - 1) : x = rest[n]
    BY <1>3 DEF Range
  <2>2. n + 1 \in 1..Len(s) /\ x = s[n + 1]
    BY <1>1, <1>2, <2>1
  <2> QED
    BY <1>2, <2>2 DEF Range
<1>7. Len(s) = 1 => Range(rest) = {}
  BY <1>3 DEF Range
<1> QED
  BY <1>1, <1>4, <1>5, <1>6, <1>7

\* A Put writes a key of its row, or ends the row.
LEMMA PutEffect ==
  ASSUME ExecInv, NEW i \in batch, Apply_Put(i)
  PROVE  /\ job.left \in Seq(Prefixes) /\ job.left # << >>
         /\ Head(job.left) \in Keys(dispatches[i].req)
         /\ \/ UNCHANGED kernelVars /\ job' = AfterError
            \/ /\ WriteKey(dispatches[i].req, Head(job.left),
                           EncodeValue(job.at, dispatches[i].ttl, dispatches[i].req))
               /\ UNCHANGED now
               /\ job' = AfterPut(job)
<1>a. ExecTypeOK /\ JobHasRow /\ JobKnowsTarget /\ JobWrites
  BY DEF ExecInv
<1> DEFINE p == Head(job.left)
           r == dispatches[i].req
           v == EncodeValue(job.at, dispatches[i].ttl, r)
<1>1. Current(i) /\ job.stage = "put"
  BY DEF Apply_Put
<1>2. job.left \in Seq(Prefixes) /\ job.left # << >>
  BY <1>a, <1>1 DEF ExecTypeOK, Jobs, JobHasRow, Writing
<1>3. p \in Keys(r)
  BY <1>a, <1>1, <1>2, HeadAndRest DEF JobWrites, JobWrote
<1>4. ASSUME job.tid = 0, PutGlobal(p, v)
      PROVE  WriteKey(r, p, v)
  <2>1. ~IsGlobal(r) => job.tid \in TargetIds
    BY <1>a, <1>1 DEF JobKnowsTarget, ExecTypeOK, KernelTypeOK
  <2> QED
    BY <1>4, <2>1 DEF TargetIds, WriteKey
<1>5. ASSUME job.tid # 0, PutScoped(job.tid, p, v)
      PROVE  WriteKey(r, p, v)
  <2>1. ~IsGlobal(r) /\ HostOf[r] \in DOMAIN targetHosts /\ targetHosts[HostOf[r]] = job.tid
    BY <1>a, <1>1, <1>5 DEF JobKnowsTarget
  <2> QED
    BY <1>5, <2>1 DEF WriteKey
<1> QED
  BY <1>2, <1>3, <1>4, <1>5 DEF Apply_Put

\* A rollback deletes a key of its request, or comes to an end.
LEMMA DeleteEffect ==
  ASSUME ExecInv, NEW v \in Revokers, Revoke_Delete(v)
  PROVE  /\ revoker[v] # Free /\ revoker[v] \in Deletions /\ revoker[v].left # << >>
         /\ Head(revoker[v].left) \in Keys(revoker[v].req)
         /\ UNCHANGED now
         /\ \/ UNCHANGED kernelMaps /\ revoker' = [revoker EXCEPT ![v] = Free]
            \/ /\ DeleteKey(revoker[v].req, Head(revoker[v].left))
               /\ revoker' = [revoker EXCEPT ![v].left = Tail(@)]
<1>a. ExecTypeOK /\ RevokerAims
  BY DEF ExecInv
<1> DEFINE p == Head(revoker[v].left)
           r == revoker[v].req
<1>1. revoker[v].stage = "delete" /\ revoker[v].left # << >> /\ UNCHANGED now
  BY DEF Revoke_Delete
<1>2. revoker[v] # Free /\ revoker[v] \in Deletions
  BY <1>a, <1>1 DEF Free, ExecTypeOK
<1>3. p \in Keys(r)
  <2>1. revoker[v].left \in Seq(Prefixes)
    BY <1>2 DEF Deletions
  <2> QED
    BY <1>a, <1>1, <1>2, <2>1, HeadAndRest DEF RevokerAims, DeletesOwn
<1>4. ASSUME IF revoker[v].tid = 0 THEN DeleteGlobal(p) ELSE DeleteScoped(revoker[v].tid, p)
      PROVE  DeleteKey(r, p)
  <2>1. CASE IsGlobal(r)
    BY <1>a, <1>1, <1>2, <1>4, <2>1 DEF RevokerAims, DeletesOwn, DeleteKey
  <2>2. CASE ~IsGlobal(r)
    <3>1. HostOf[r] \in DOMAIN targetHosts /\ revoker[v].tid = targetHosts[HostOf[r]]
      BY <1>a, <1>1, <1>2, <2>2 DEF RevokerAims, DeletesOwn
    <3>2. revoker[v].tid # 0
      BY <1>a, <3>1 DEF ExecTypeOK, KernelTypeOK, TargetIds
    <3> QED
      BY <1>4, <2>2, <3>1, <3>2 DEF DeleteKey
  <2> QED
    BY <2>1, <2>2
<1> QED
  BY <1>1, <1>2, <1>3, <1>4 DEF Revoke_Delete, Remaining

\* Every action of the specification has one of these effects on the maps.
LEMMA StepEffect ==
  ASSUME ExecInv, [ExecNext]_execVars
  PROVE  UNCHANGED kernelMaps \/ GivesId \/ WritesKey \/ DeletesKey \/ LosesMaps
<1>a. ExecTypeOK /\ JobHasRow /\ JobKnowsTarget /\ MemoryMatchesKernel /\ JobWrites /\ RevokerAims
  BY DEF ExecInv
<1> DEFINE Effect == UNCHANGED kernelMaps \/ GivesId \/ WritesKey \/ DeletesKey \/ LosesMaps
<1>1. ASSUME NEW r \in Rules, NEW ttl \in TTLs, Enqueue(r, ttl)
      PROVE  Effect
  BY <1>1 DEF Enqueue, kernelVars, kernelMaps
<1>2. CASE Poll
  BY <1>2 DEF Poll, kernelVars, kernelMaps
<1>3. ASSUME NEW i \in batch, ensureTarget_Put(i)
      PROVE  Effect
  <2>1. CASE UNCHANGED kernelMaps
    BY <2>1 DEF kernelMaps
  <2>2. CASE PutTarget(HostOf[dispatches[i].req], nextTargetID) /\ UNCHANGED now
    <3>1. Running /\ Current(i) /\ job.stage = "target" /\ HostOf[dispatches[i].req] \notin DOMAIN targetIDs
      BY <1>a, <1>3 DEF ensureTarget_Put, JobHasRow
    <3>2. HostOf[dispatches[i].req] \in Hosts \ DOMAIN targetHosts
      BY <1>a, <3>1, RowTyped, KernelHosts DEF JobKnowsTarget, IsGlobal
    <3> QED
      BY <2>2, <3>1, <3>2 DEF GivesId
  <2> QED
    BY <1>3, <2>1, <2>2 DEF ensureTarget_Put, NewTargetId, kernelVars, kernelMaps
<1>4. ASSUME NEW i \in batch, Apply(i) \/ ensureTarget(i) \/ ensureTarget_Remember(i)
      PROVE  Effect
  BY <1>4 DEF Apply, ensureTarget, ensureTarget_Remember, kernelVars, kernelMaps
<1>5. ASSUME NEW i \in batch, Apply_Put(i)
      PROVE  Effect
  BY <1>5, PutEffect DEF WritesKey, kernelVars, kernelMaps
<1>6. ASSUME NEW i \in batch, markAcked(i) \/ markFailed(i) \/ MarkFails(i)
      PROVE  Effect
  BY <1>6 DEF markAcked, markFailed, MarkFails, Settled, kernelVars, kernelMaps
<1>7. ASSUME NEW v \in Revokers, NEW r \in Rules, Revoke(v, r)
      PROVE  Effect
  BY <1>7 DEF Revoke, kernelVars, kernelMaps
<1>8. ASSUME NEW v \in Revokers, Revoke_Delete(v)
      PROVE  Effect
  <2>1. revoker[v].req \in Rules /\ rollback[revoker[v].req] # "no"
    BY <1>a, <1>8, DeleteEffect DEF RevokerAims, DeletesOwn, Deletions
  <2> QED
    BY <1>8, <2>1, DeleteEffect DEF DeletesKey
<1>9. ASSUME NEW v \in Revokers, Revoke_Done(v) \/ Revoke_GivesUp(v)
      PROVE  Effect
  BY <1>9 DEF Revoke_Done, Revoke_GivesUp, kernelVars, kernelMaps
<1>10. CASE Stop \/ CloseXDP
  BY <1>10 DEF Stop, CloseXDP, kernelVars, kernelMaps
<1>11. ASSUME Exit \/ Reboot \/ \E pin \in BOOLEAN : Start(pin)
      PROVE  Effect
  <2>1. CASE KeepMaps(TRUE)
    BY <2>1 DEF KeepMaps, kernelMaps
  <2>2. CASE KeepMaps(FALSE)
    <3>1. acked' = acked /\ batch' = {}
      BY <1>a, <1>11 DEF Exit, Reboot, Start, loopVars, JobHasRow, Running
    <3>2. \A v \in Revokers : revoker'[v] = Free
      BY <1>a, <1>11 DEF Exit, Reboot, Start, revVars, RevokerAims, DeletesOwn, Running
    <3> QED
      BY <2>2, <3>1, <3>2 DEF KeepMaps, LosesMaps, kernelMaps
  <2>3. \E kept \in BOOLEAN : KeepMaps(kept)
    <3>1. pinned \in BOOLEAN
      BY <1>a DEF ExecTypeOK
    <3> QED
      BY <1>11, <3>1 DEF Exit, Reboot, Start
  <2> QED
    BY <2>1, <2>2, <2>3
<1>12. CASE Tick
  BY <1>12 DEF Tick, KernelTick
<1>13. CASE UNCHANGED execVars
  BY <1>13 DEF execVars, kernelVars, kernelMaps
<1> QED
  BY <1>1, <1>2, <1>3, <1>4, <1>5, <1>6, <1>7, <1>8, <1>9, <1>10, <1>11, <1>12, <1>13
     DEF ExecNext, Loop, Rollbacks, Process

\* What the maps do to a packet, step by step, is what KernelMaps says of its calls.
LEMMA ExecMapStep == ExecInv /\ [ExecNext]_execVars => MapStep
<1> SUFFICES ASSUME ExecInv, [ExecNext]_execVars
             PROVE  MapStep
  OBVIOUS
<1>a. ExecTypeOK /\ KernelTypeOK
  BY DEF ExecInv, ExecTypeOK
<1>0. UNCHANGED now \/ KernelTick
  BY DEF ExecNext, Loop, Rollbacks, Process, Enqueue, Poll, Apply, ensureTarget, ensureTarget_Put, ensureTarget_Remember, Apply_Put,
     markAcked, markFailed, MarkFails, Settled, Revoke, Revoke_Delete, Revoke_Done,
     Revoke_GivesUp, Stop, CloseXDP, Exit, Reboot, Start, Tick, KeepMaps, execVars, kernelVars
<1>1. CASE UNCHANGED kernelMaps
  BY <1>0, <1>1 DEF MapStep, kernelMaps, kernelVars
<1>2. CASE GivesId
  BY <1>a, <1>2 DEF GivesId, MapStep, ExecTypeOK
<1>3. CASE WritesKey
  <2>1. PICK i \in batch : \E p \in Keys(dispatches[i].req) :
          /\ WriteKey(dispatches[i].req, p, EncodeValue(job.at, dispatches[i].ttl, dispatches[i].req))
          /\ UNCHANGED now
    BY <1>3 DEF WritesKey
  <2> DEFINE r == dispatches[i].req
             v == EncodeValue(job.at, dispatches[i].ttl, r)
  <2>2. PICK p \in Keys(r) : WriteKey(r, p, v) /\ UNCHANGED now
    BY <2>1
  <2>3. r \in Rules /\ v \in Values
    <3>1. job.at \in Nat
      BY <1>a DEF ExecTypeOK, Jobs
    <3> QED
      BY <1>a, <3>1, RowTyped, EncodedIsValue
  <2>4. p \in Prefixes
    BY <2>3, PrefixesTyped, LenProperties DEF Keys
  <2>5. HostOf[r] \in DOMAIN targetHosts => targetHosts[HostOf[r]] \in TargetIds
    BY <1>a DEF KernelTypeOK
  <2> HIDE DEF r, v
  <2> QED
    BY <2>2, <2>3, <2>4, <2>5 DEF WriteKey, MapStep
<1>4. CASE DeletesKey
  <2>1. PICK r \in Rules : \E p \in Keys(r) : DeleteKey(r, p) /\ UNCHANGED now
    BY <1>4 DEF DeletesKey
  <2>2. PICK p \in Keys(r) : DeleteKey(r, p) /\ UNCHANGED now
    BY <2>1
  <2>3. p \in Prefixes
    BY PrefixesTyped, LenProperties DEF Keys
  <2>4. HostOf[r] \in DOMAIN targetHosts => targetHosts[HostOf[r]] \in TargetIds
    BY <1>a DEF KernelTypeOK
  <2> QED
    BY <2>2, <2>3, <2>4 DEF DeleteKey, MapStep
<1>5. CASE LosesMaps
  BY <1>5 DEF LosesMaps, MapStep
<1> QED
  BY <1>1, <1>2, <1>3, <1>4, <1>5, StepEffect

-----------------------------------------------------------------------------
(* One lemma for each part of the invariant, one step for each action.     *)

\* Nothing is forgotten where the tables stay and a registration goes on.
LEMMA TablesStay ==
  ASSUME ExecInv, UNCHANGED <<targetHosts, targetIDs, nextTargetID>>, Running' => Running,
         \A h : Registering(h) => Registering(h)'
  PROVE  MemoryMatchesKernel' /\ LargestIdExists' /\ TargetIdsUnique'
<1>1. MemoryMatchesKernel /\ LargestIdExists /\ TargetIdsUnique
  BY DEF ExecInv
<1>2. LargestIdExists' /\ TargetIdsUnique'
  BY <1>1 DEF LargestIdExists, TargetIdsUnique
<1>3. MemoryMatchesKernel'
  BY <1>1 DEF MemoryMatchesKernel
<1> QED
  BY <1>2, <1>3

\* The table in memory follows the one in the kernel, and no id is given twice.
LEMMA TargetStep ==
  ASSUME ExecInv, [ExecNext]_execVars
  PROVE  MemoryMatchesKernel' /\ LargestIdExists' /\ TargetIdsUnique'
<1>a. /\ ExecTypeOK /\ JobHasRow /\ MemoryMatchesKernel /\ LargestIdExists /\ TargetIdsUnique
      /\ JobKnowsTarget
  BY DEF ExecInv
<1>b. \A i \in batch, j \in batch : Current(i) /\ Current(j) => i = j
  BY <1>a, CurrentPending
<1>1. CASE /\ UNCHANGED <<targetHosts, targetIDs, nextTargetID>> /\ (Running' => Running)
           /\ job.stage # "remember" \/ batch = {}
  BY <1>1, TablesStay DEF Registering
<1>2. CASE /\ UNCHANGED <<targetHosts, targetIDs, nextTargetID>> /\ (Running' => Running)
           /\ UNCHANGED <<batch, job>> /\ \A i \in batch : dispatches'[i] = dispatches[i]
  <2>1. ASSUME NEW h, Registering(h) PROVE Registering(h)'
    BY <1>2, <2>1 DEF Registering, Current
  <2> QED
    BY <1>2, <2>1, TablesStay
<1>3. ASSUME NEW r \in Rules, NEW ttl \in TTLs, Enqueue(r, ttl)
      PROVE  MemoryMatchesKernel' /\ LargestIdExists' /\ TargetIdsUnique'
  <2>1. [req |-> r, ttl |-> ttl] \in Row
    BY KernelAssumption DEF Row
  <2>2. dispatches \in Seq(Row) /\ batch \subseteq DOMAIN dispatches
    BY <1>a DEF ExecTypeOK, Pending
  <2>3. \A i \in batch : dispatches'[i] = dispatches[i]
    BY <1>3, <2>1, <2>2, AppendEffect DEF Enqueue
  <2> QED
    BY <1>2, <1>3, <2>3 DEF Enqueue, loopVars, tableIds, procVars, kernelVars, Running
<1>4. CASE \/ Poll
           \/ \E i \in batch : Apply(i) \/ ensureTarget(i) \/ Apply_Put(i)
           \/ \E i \in batch : markAcked(i) \/ markFailed(i) \/ MarkFails(i)
  <2>1. UNCHANGED <<targetHosts, targetIDs, nextTargetID>> /\ process' = process
    BY <1>4 DEF Poll, Apply, ensureTarget, Apply_Put, PutGlobal, PutScoped, markAcked, markFailed,
       MarkFails, Settled, tableIds, procVars, kernelVars
  <2>2. job.stage # "remember" \/ batch = {}
    BY <1>4, JobsTyped DEF Poll, Apply, ensureTarget, Apply_Put, markAcked, markFailed, MarkFails
  <2> QED
    BY <1>1, <2>1, <2>2 DEF Running
<1>5. ASSUME NEW i \in batch, ensureTarget_Put(i)
      PROVE  MemoryMatchesKernel' /\ LargestIdExists' /\ TargetIdsUnique'
  <2> DEFINE h == HostOf[dispatches[i].req]
             n == nextTargetID
  <2>1. /\ Running /\ Current(i) /\ job.stage = "target" /\ h \notin DOMAIN targetIDs
        /\ UNCHANGED <<dispatches, batch, process, targetIDs, nextTargetID>>
    BY <1>a, <1>5 DEF ensureTarget_Put, procVars, tableIds, JobHasRow
  <2>2. CASE UNCHANGED kernelVars
    BY <1>1, <2>1, <2>2 DEF kernelVars, Running
  <2>3. CASE /\ targetHosts' = SetKey(targetHosts, h, n)
             /\ job'.stage = "remember"
    <3>0. PICK x : x = h
      OBVIOUS
    <3>1. Registering(x)'
      BY <2>1, <2>3, <3>0 DEF Registering, Current
    <3>9. x \notin DOMAIN targetIDs /\ targetHosts' = SetKey(targetHosts, x, n)
      BY <2>1, <2>3, <3>0
    <3> HIDE DEF h, n
    <3>2. DOMAIN targetHosts = DOMAIN targetIDs /\ n \in Nat /\ n = nextTargetID /\ n' = n
      BY <1>a, <2>1, KernelHosts DEF ExecTypeOK, TargetIds, n
    <3>3. \A g \in DOMAIN targetHosts :
            targetHosts[g] \in Nat /\ targetHosts[g] < n /\ targetIDs[g] = targetHosts[g]
      BY <1>a, <2>1, <3>2 DEF MemoryMatchesKernel, ExecTypeOK, KernelTypeOK, TargetIds
    <3>4. x \notin DOMAIN targetHosts
      BY <3>2, <3>9
    <3>5. /\ DOMAIN targetHosts' = DOMAIN targetHosts \union {x}
          /\ targetHosts'[x] = n
          /\ \A g \in DOMAIN targetHosts : targetHosts'[g] = targetHosts[g]
      BY <3>4, <3>9 DEF SetKey
    <3>6. MemoryMatchesKernel'
      BY <2>1, <3>1, <3>2, <3>3, <3>5 DEF MemoryMatchesKernel
    <3>7. LargestIdExists'
      BY <3>2, <3>3, <3>5 DEF LargestIdExists
    <3>8. TargetIdsUnique'
      BY <1>a, <3>2, <3>3, <3>5 DEF TargetIdsUnique
    <3> QED
      BY <3>6, <3>7, <3>8
  <2>4. UNCHANGED kernelVars \/ (targetHosts' = SetKey(targetHosts, h, n) /\ job'.stage = "remember")
    <3>1. [job EXCEPT !.stage = "remember", !.tid = NewTargetId].stage = "remember"
      BY <1>a DEF ExecTypeOK, Jobs
    <3> QED
      BY <1>5, <3>1 DEF ensureTarget_Put, PutTarget, NewTargetId, kernelVars, kernelMaps
  <2> QED
    BY <2>2, <2>3, <2>4
<1>6. ASSUME NEW i \in batch, ensureTarget_Remember(i)
      PROVE  MemoryMatchesKernel' /\ LargestIdExists' /\ TargetIdsUnique'
  <2> DEFINE h == HostOf[dispatches[i].req]
             n == nextTargetID
  <2>1. /\ Running /\ Current(i) /\ job.stage = "remember"
        /\ targetIDs' = SetKey(targetIDs, h, job.tid) /\ nextTargetID' = n + 1
        /\ UNCHANGED <<targetHosts, process>>
    BY <1>a, <1>6 DEF ensureTarget_Remember, RememberTarget, procVars, kernelVars, JobHasRow
  <2>2. /\ job.tid = n /\ h \notin DOMAIN targetIDs
        /\ h \in DOMAIN targetHosts /\ targetHosts[h] = n
    BY <1>a, <2>1 DEF JobKnowsTarget
  <2>3. \A g \in DOMAIN targetHosts : g # h => g \in DOMAIN targetIDs
    BY <1>a, <1>b, <2>1 DEF MemoryMatchesKernel, Registering
  <2> HIDE DEF h
  <2>4. /\ DOMAIN targetIDs' = DOMAIN targetHosts
        /\ targetIDs'[h] = n
        /\ \A g \in DOMAIN targetIDs : targetIDs'[g] = targetIDs[g]
        /\ DOMAIN targetIDs' = DOMAIN targetIDs \union {h}
    BY <1>a, <2>1, <2>2, <2>3 DEF SetKey, MemoryMatchesKernel
  <2>5. n \in Nat /\ \A g \in DOMAIN targetIDs : targetIDs[g] \in Nat
    BY <1>a DEF ExecTypeOK, TargetIds
  <2>6. MemoryMatchesKernel'
    BY <1>a, <2>1, <2>2, <2>4, <2>5 DEF MemoryMatchesKernel
  <2> QED
    BY <1>a, <2>1, <2>6 DEF LargestIdExists, TargetIdsUnique
<1>7. CASE Rollbacks \/ Tick \/ UNCHANGED execVars
  <2>1. UNCHANGED <<targetHosts, targetIDs, nextTargetID, process, batch, job, dispatches>>
    BY <1>7 DEF Rollbacks, Revoke, Revoke_Delete, Revoke_Done, Revoke_GivesUp, DeleteGlobal,
       DeleteScoped, Tick, KernelTick, execVars, kernelVars, kernelMaps, loopVars, tableIds,
       procVars
  <2> QED
    BY <1>2, <2>1 DEF Running
<1>8. CASE Stop \/ CloseXDP
  <2>1. UNCHANGED <<targetHosts, targetIDs, nextTargetID, batch, job, dispatches>> /\ Running
    BY <1>8 DEF Stop, CloseXDP, kernelVars, loopVars, tableIds, Running
  <2> QED
    BY <1>2, <2>1
<1>9. CASE Exit \/ Reboot
  <2>1. process' = "down" /\ (targetHosts' = targetHosts \/ targetHosts' = << >>)
    BY <1>9 DEF Exit, Reboot, KeepMaps
  <2> QED
    BY <1>a, <2>1 DEF MemoryMatchesKernel, LargestIdExists, TargetIdsUnique, Running
<1>10. ASSUME NEW pin \in BOOLEAN, Start(pin)
      PROVE  MemoryMatchesKernel' /\ LargestIdExists' /\ TargetIdsUnique'
  <2>1. LargestIdExists' /\ TargetIdsUnique'
    BY <1>a, <1>10 DEF Start, KeepMaps, LargestIdExists, TargetIdsUnique
  <2>2. \A h \in DOMAIN targetHosts' : targetHosts'[h] \in Nat
    BY <1>a, <1>10 DEF Start, KeepMaps, ExecTypeOK, KernelTypeOK, TargetIds
  <2> DEFINE ids == { targetHosts'[h] : h \in DOMAIN targetHosts' }
  <2>3. ids \in SUBSET Nat
    BY <2>2
  <2>4. ids # {} => \E n \in ids : \A m \in ids : m <= n
    BY <2>1 DEF LargestIdExists
  <2>5. MaxId(ids) \in Nat /\ \A m \in ids : m <= MaxId(ids)
    <3> HIDE DEF ids
    <3> QED
      BY <2>3, <2>4, MaxIdIsLargest
  <2>6. targetIDs' = targetHosts' /\ nextTargetID' = MaxId(ids) + 1
    BY <1>10 DEF Start, restoreTargets
  <2>7. \A h \in DOMAIN targetHosts' : targetHosts'[h] < nextTargetID'
    <3>1. \A h \in DOMAIN targetHosts' : targetHosts'[h] \in ids
      OBVIOUS
    <3> HIDE DEF ids
    <3> QED
      BY <2>2, <2>5, <2>6, <3>1
  <2>8. MemoryMatchesKernel'
    BY <2>6, <2>7 DEF MemoryMatchesKernel
  <2> QED
    BY <2>1, <2>8
<1> QED
  BY <1>3, <1>4, <1>5, <1>6, <1>7, <1>8, <1>9, <1>10 DEF ExecNext, Loop, Process

\* A job writes under the id of its row's host, and ends with its row.
LEMMA JobStep ==
  ASSUME ExecInv, [ExecNext]_execVars
  PROVE  JobHasRow' /\ JobKnowsTarget'
<1>a. ExecTypeOK /\ JobHasRow /\ JobKnowsTarget /\ MemoryMatchesKernel
  BY DEF ExecInv
<1>b. \A i \in batch, j \in batch : Current(i) /\ Current(j) => i = j
  BY <1>a, CurrentPending
<1> USE DEF Running, JobHasRow, JobKnowsTarget, Writing
<1>1. CASE /\ UNCHANGED <<batch, job, targetHosts, targetIDs, nextTargetID>>
           /\ process' = "down" => process = "down"
           /\ \A i \in batch : dispatches'[i] = dispatches[i]
  BY <1>a, <1>1 DEF Current, IsGlobal
<1>2. CASE job'.stage \in {"none", "ack", "fail"} /\ (process' = "down" => batch' = {})
           /\ (batch' = {} => job' = NoJob)
  BY <1>2
<1>3. ASSUME NEW r \in Rules, NEW ttl \in TTLs, Enqueue(r, ttl)
      PROVE  JobHasRow' /\ JobKnowsTarget'
  <2>1. \A i \in batch : dispatches'[i] = dispatches[i]
    <3>1. [req |-> r, ttl |-> ttl] \in Row
      BY KernelAssumption DEF Row
    <3>2. dispatches \in Seq(Row) /\ batch \subseteq DOMAIN dispatches
      BY <1>a DEF ExecTypeOK, Pending
    <3> QED
      BY <1>3, <3>1, <3>2, AppendEffect DEF Enqueue
  <2> QED
    BY <1>1, <1>3, <2>1 DEF Enqueue, kernelVars, loopVars, tableIds, procVars
<1>4. CASE Poll
  <2>1. job = NoJob /\ job' = NoJob /\ process' = process /\ process # "down"
    BY <1>a, <1>4 DEF Poll, procVars
  <2> QED
    BY <2>1, JobsTyped
<1>5. ASSUME NEW i \in batch,
             \/ Apply(i) \/ ensureTarget(i) \/ ensureTarget_Put(i)
             \/ ensureTarget_Remember(i) \/ Apply_Put(i)
      PROVE  JobHasRow' /\ JobKnowsTarget'
  <2> DEFINE r == dispatches[i].req
             h == HostOf[r]
  <2>1. /\ UNCHANGED <<dispatches, batch, process>> /\ process # "down" /\ Current(i)
        /\ job \in Jobs /\ r \in Rules
    BY <1>a, <1>5, RowTyped DEF Apply, ensureTarget, ensureTarget_Put, ensureTarget_Remember,
       Apply_Put, procVars, ExecTypeOK
  <2>2. \A j \in batch' : Current(j)' => j = i
    BY <1>b, <2>1 DEF Current
  <2>a. /\ job.stage \in Writing => job.left # << >>
        /\ job.stage \in {"target", "remember"} => ~IsGlobal(r)
        /\ job.stage = "remember" => job.tid = nextTargetID /\ h \notin DOMAIN targetIDs
        /\ job.stage = "put" /\ IsGlobal(r) => job.tid = 0
        /\ job.stage \in {"remember", "put"} /\ ~IsGlobal(r) =>
             h \in DOMAIN targetHosts /\ targetHosts[h] = job.tid
    BY <1>a, <2>1
  <2> DEFINE Fits ==
        /\ job'.stage \in Writing => job'.left # << >>
        /\ job'.stage \in {"target", "remember"} => ~IsGlobal(r)
        /\ job'.stage = "remember" => job'.tid = nextTargetID' /\ h \notin DOMAIN targetIDs'
        /\ job'.stage = "put" /\ IsGlobal(r) => job'.tid = 0
        /\ job'.stage \in {"remember", "put"} /\ ~IsGlobal(r) =>
             h \in DOMAIN targetHosts' /\ targetHosts'[h] = job'.tid
  <2>3. CASE Fits
    BY <2>1, <2>2, <2>3 DEF IsGlobal
  <2>4. CASE job' = [NoJob EXCEPT !.stage = "fail"] \/ job' = [NoJob EXCEPT !.stage = "ack"]
    BY <1>2, <2>1, <2>4, JobsTyped
  <2> HIDE DEF r, h
  <2>5. CASE Apply(i)
    <3>1. PrefixesOf[r] # << >>
      BY <2>1, PrefixesTyped
    <3>2. /\ job'.stage = (IF IsGlobal(r) THEN "put" ELSE "target")
          /\ job'.tid = 0 /\ job'.left = PrefixesOf[r]
      BY <2>5 DEF Apply, r
    <3> QED
      BY <2>3, <3>1, <3>2
  <2>6. CASE ensureTarget(i)
    <3>1. h \in DOMAIN targetIDs /\ job.stage = "target" /\ UNCHANGED targetHosts
      BY <2>6 DEF ensureTarget, kernelVars, h, r
    <3>2. h \in DOMAIN targetHosts /\ targetHosts[h] = targetIDs[h]
      BY <1>a, <2>1, <3>1 DEF MemoryMatchesKernel
    <3>3. job'.stage = "put" /\ job'.tid = targetIDs[h] /\ job'.left = job.left
      BY <2>1, <2>6 DEF ensureTarget, h, r, Jobs
    <3> QED
      BY <2>a, <2>3, <3>1, <3>2, <3>3
  <2>7. CASE ensureTarget_Put(i)
    <3>1. h \notin DOMAIN targetIDs /\ job.stage = "target"
          /\ UNCHANGED <<targetIDs, nextTargetID>>
      BY <2>7 DEF ensureTarget_Put, tableIds, h, r
    <3>2. CASE /\ PutTarget(h, nextTargetID)
               /\ job' = [job EXCEPT !.stage = "remember", !.tid = nextTargetID]
      <4>1. h \in DOMAIN targetHosts' /\ targetHosts'[h] = nextTargetID
        BY <3>2 DEF PutTarget, SetKey
      <4>2. job'.stage = "remember" /\ job'.tid = nextTargetID /\ job'.left = job.left
        BY <2>1, <3>2 DEF Jobs
      <4> QED
        BY <2>a, <2>3, <3>1, <4>1, <4>2
    <3> QED
      BY <2>4, <2>7, <3>2 DEF ensureTarget_Put, NewTargetId, h, r
  <2>8. CASE ensureTarget_Remember(i)
    <3>1. job.stage = "remember" /\ UNCHANGED targetHosts
      BY <2>8 DEF ensureTarget_Remember, kernelVars
    <3>2. job'.stage = "put" /\ job'.tid = job.tid /\ job'.left = job.left
      BY <2>1, <2>8 DEF ensureTarget_Remember, Jobs
    <3> QED
      BY <2>a, <2>3, <3>1, <3>2
  <2>9. CASE Apply_Put(i)
    <3>1. UNCHANGED targetHosts /\ job.stage = "put" /\ (job' = AfterPut(job) \/ job' = AfterError)
      BY <2>9 DEF Apply_Put, PutGlobal, PutScoped, kernelVars, kernelMaps
    <3>2. CASE job' = AfterError
      BY <2>4, <3>2 DEF AfterError
    <3>3. CASE job' = AfterPut(job)
      <4>1. /\ job'.stage \in {"ack", "put"}
            /\ job'.stage = "put" => job'.left # << >> /\ job'.tid = job.tid
        BY <2>1, <2>a, <3>1, <3>3, AfterPutEffect
      <4> QED
        BY <2>a, <2>3, <3>1, <4>1
    <3> QED
      BY <3>1, <3>2, <3>3
  <2> QED
    BY <1>5, <2>5, <2>6, <2>7, <2>8, <2>9
<1>6. ASSUME NEW i \in batch, markAcked(i) \/ markFailed(i) \/ MarkFails(i)
      PROVE  JobHasRow' /\ JobKnowsTarget'
  <2>1. job' = NoJob /\ process' = process /\ (process = "down" => batch' = {})
    BY <1>a, <1>6 DEF markAcked, markFailed, MarkFails, Settled, procVars
  <2> QED
    BY <2>1, JobsTyped
<1>7. CASE Rollbacks \/ Tick \/ UNCHANGED execVars
  <2>1. UNCHANGED <<targetHosts, targetIDs, nextTargetID, process, batch, job, dispatches>>
    BY <1>7 DEF Rollbacks, Revoke, Revoke_Delete, Revoke_Done, Revoke_GivesUp, DeleteGlobal,
       DeleteScoped, Tick, KernelTick, execVars, kernelVars, kernelMaps, loopVars, tableIds,
       procVars
  <2> QED
    BY <1>1, <2>1
<1>8. CASE Stop \/ CloseXDP
  <2>1. UNCHANGED <<targetHosts, targetIDs, nextTargetID, batch, job, dispatches>>
        /\ process' # "down"
    BY <1>8 DEF Stop, CloseXDP, kernelVars, loopVars, tableIds
  <2> QED
    BY <1>1, <2>1
<1>9. CASE Exit
  BY <1>9, JobsTyped DEF Exit
<1>10. ASSUME Reboot \/ \E pin \in BOOLEAN : Start(pin)
      PROVE  JobHasRow' /\ JobKnowsTarget'
  <2>1. UNCHANGED <<batch, job>> /\ batch = {}
    BY <1>a, <1>10 DEF Reboot, Start, loopVars
  <2> QED
    BY <1>a, <2>1
<1> QED
  BY <1>3, <1>4, <1>5, <1>6, <1>7, <1>8, <1>9, <1>10 DEF ExecNext, Loop, Process

\* A key is written under the id of its rule's host, and goes before the id does.
LEMMA KeyStep ==
  ASSUME ExecInv, [ExecNext]_execVars
  PROVE  KeysHaveTarget' /\ ScopedRuleStaysOnItsHost'
<1>a. /\ ExecTypeOK /\ MemoryMatchesKernel /\ TargetIdsUnique
      /\ KeysHaveTarget /\ ScopedRuleStaysOnItsHost
  BY DEF ExecInv
<1> USE DEF KeysHaveTarget, ScopedRuleStaysOnItsHost
<1>1. CASE UNCHANGED kernelMaps
  BY <1>a, <1>1 DEF kernelMaps
<1>2. CASE GivesId
  <2>1. PICK h \in Hosts \ DOMAIN targetHosts : PutTarget(h, nextTargetID)
    BY <1>2 DEF GivesId
  <2>2. /\ DOMAIN targetHosts' = DOMAIN targetHosts \union {h}
        /\ targetHosts'[h] = nextTargetID
        /\ \A g \in DOMAIN targetHosts : targetHosts'[g] = targetHosts[g]
        /\ UNCHANGED srcBans
    BY <2>1 DEF PutTarget, SetKey
  <2>3. \A k \in DOMAIN srcBans : k[1] # nextTargetID
    BY <1>2 DEF GivesId, ExecInv, NextIdUnused
  <2> QED
    BY <1>a, <2>2, <2>3
<1>3. CASE WritesKey
  <2>1. PICK i \in batch : \E p \in Keys(dispatches[i].req) :
           WriteKey(dispatches[i].req, p, EncodeValue(job.at, dispatches[i].ttl, dispatches[i].req))
    BY <1>3 DEF WritesKey
  <2> DEFINE r == dispatches[i].req
             v == EncodeValue(job.at, dispatches[i].ttl, r)
  <2>2. PICK p \in Keys(r) : WriteKey(r, p, v)
    BY <2>1
  <2>3. CASE IsGlobal(r)
    BY <1>a, <2>2, <2>3 DEF WriteKey, PutGlobal
  <2>4. CASE ~IsGlobal(r)
    <3> DEFINE key == <<targetHosts[HostOf[r]], p>>
    <3>1. /\ srcBans' = SetKey(srcBans, key, v) /\ UNCHANGED targetHosts
          /\ HostOf[r] \in DOMAIN targetHosts /\ key[1] = targetHosts[HostOf[r]]
      BY <2>2, <2>4 DEF WriteKey, PutScoped
    <3>2. v.rule = r
      BY DEF EncodeValue
    <3> HIDE DEF key, v, r
    <3>3. /\ DOMAIN srcBans' = DOMAIN srcBans \union {key}
          /\ srcBans'[key] = v
          /\ \A k \in DOMAIN srcBans \ {key} : srcBans'[k] = srcBans[k]
      BY <3>1 DEF SetKey
    <3> QED
      BY <1>a, <3>1, <3>2, <3>3 DEF TargetIdsUnique
  <2> QED
    BY <2>3, <2>4
<1>4. CASE DeletesKey
  <2>1. /\ UNCHANGED targetHosts
        /\ DOMAIN srcBans' \subseteq DOMAIN srcBans
        /\ \A k \in DOMAIN srcBans' : srcBans'[k] = srcBans[k]
    BY <1>4 DEF DeletesKey, DeleteKey, DeleteGlobal, DeleteScoped, DropKey
  <2> QED
    BY <1>a, <2>1
<1>5. CASE LosesMaps
  BY <1>5 DEF LosesMaps, kernelMaps
<1> QED
  BY <1>1, <1>2, <1>3, <1>4, <1>5, StepEffect

\* The rows, the loop, the tables and the rollbacks stay well formed.
LEMMA ExecTypeStep ==
  ASSUME ExecInv, [ExecNext]_execVars
  PROVE  ExecTypeOK'
<1>a. ExecTypeOK /\ KernelTypeOK' /\ JobHasRow
  BY ExecMapStep, MapStepType DEF ExecInv, ExecTypeOK
<1>b. KernelTypeOK
  BY <1>a DEF ExecTypeOK
<1> USE DEF ExecTypeOK
<1>1. ASSUME NEW r \in Rules, NEW ttl \in TTLs, Enqueue(r, ttl)
      PROVE  ExecTypeOK'
  <2>1. [req |-> r, ttl |-> ttl] \in Row
    BY KernelAssumption DEF Row
  <2>2. dispatches' \in Seq(Row) /\ DOMAIN dispatches \subseteq DOMAIN dispatches'
    BY <1>a, <1>1, <2>1, AppendEffect DEF Enqueue
  <2>3. UNCHANGED <<acked, failed, batch, job, targetIDs, nextTargetID, process, pinned,
                    revoker, rollback, lost, faults>>
    BY <1>1 DEF Enqueue, loopVars, tableIds, procVars, revVars
  <2> QED
    BY <1>a, <2>2, <2>3 DEF Pending
<1>2. CASE Poll
  BY <1>a, <1>2 DEF Poll, Pending, execVars, loopVars, tableIds, procVars, revVars, kernelVars
<1>3. ASSUME NEW i \in batch,
             Apply(i) \/ ensureTarget(i) \/ ensureTarget_Put(i)
      PROVE  ExecTypeOK'
  <2>1. UNCHANGED <<dispatches, acked, failed, batch, targetIDs, nextTargetID, process,
                    pinned, revoker, rollback, lost, faults>>
    BY <1>3 DEF Apply, ensureTarget, ensureTarget_Put, tableIds, procVars, revVars
  <2>2. job' \in Jobs
    <3>1. PrefixesOf[dispatches[i].req] \in Seq(Prefixes)
      BY <1>a, RowTyped, PrefixesTyped
    <3>2. now \in Nat /\ nextTargetID \in Nat /\ \A h \in DOMAIN targetIDs : targetIDs[h] \in Nat
      BY <1>a, <1>b DEF KernelTypeOK, TargetIds
    <3>3. CASE Apply(i)
      BY <3>1, <3>2, <3>3 DEF Apply, Jobs
    <3>4. CASE ensureTarget(i)
      BY <1>a, <3>2, <3>4 DEF ensureTarget, Jobs
    <3>5. CASE ensureTarget_Put(i)
      <4>1. [job EXCEPT !.stage = "remember", !.tid = nextTargetID] \in Jobs
        BY <1>a, <3>2 DEF Jobs
      <4> QED
        BY <3>5, <4>1, JobsTyped DEF ensureTarget_Put, NewTargetId
    <3> QED
      BY <1>3, <3>3, <3>4, <3>5
  <2> QED
    BY <1>a, <2>1, <2>2 DEF Pending
<1>4. ASSUME NEW i \in batch, ensureTarget_Remember(i)
      PROVE  ExecTypeOK'
  <2>1. UNCHANGED <<dispatches, acked, failed, batch, process, pinned, revoker, rollback,
                    lost, faults>>
    BY <1>4 DEF ensureTarget_Remember, procVars, revVars
  <2>2. job' \in Jobs
    BY <1>a, <1>4 DEF ensureTarget_Remember, Jobs
  <2>3. (\A h \in DOMAIN targetIDs' : h \in Hosts /\ targetIDs'[h] \in TargetIds)
        /\ nextTargetID' \in TargetIds
    <3>1. Current(i) /\ job.stage = "remember"
          /\ RememberTarget(HostOf[dispatches[i].req], job.tid)
      BY <1>4 DEF ensureTarget_Remember
    <3>2. job.tid = nextTargetID /\ ~IsGlobal(dispatches[i].req)
      BY <3>1 DEF ExecInv, JobKnowsTarget
    <3>3. HostOf[dispatches[i].req] \in Hosts
      BY <1>a, <3>2, RowTyped DEF IsGlobal
    <3> QED
      BY <1>a, <3>1, <3>2, <3>3 DEF RememberTarget, SetKey, TargetIds
  <2> QED
    BY <1>a, <2>1, <2>2, <2>3 DEF Pending
<1>5. ASSUME NEW i \in batch, Apply_Put(i)
      PROVE  ExecTypeOK'
  <2>1. UNCHANGED <<dispatches, acked, failed, batch, targetIDs, nextTargetID, process,
                    pinned, revoker, rollback, lost, faults>>
    BY <1>5 DEF Apply_Put, tableIds, procVars, revVars
  <2>2. job' \in Jobs
    BY <1>a, <1>5, AfterPutEffect, JobsTyped DEF Apply_Put, AfterError, JobHasRow, Writing
  <2> QED
    BY <1>a, <2>1, <2>2 DEF Pending
<1>6. ASSUME NEW i \in batch, markAcked(i)
      PROVE  ExecTypeOK'
  <2>1. UNCHANGED <<dispatches, targetIDs, nextTargetID, process, pinned, revoker, rollback,
                    lost>>
    BY <1>6 DEF markAcked, Settled, tableIds, procVars, revVars
  <2>2. batch' = batch \ {i} /\ job' = NoJob /\ acked' = acked \union {i} /\ failed' = failed
    BY <1>6 DEF markAcked, Settled
  <2>3. faults' \in Nat
    BY <1>a, <1>6 DEF markAcked, Settled, procVars
  <2> QED
    BY <1>a, <2>1, <2>2, <2>3, JobsTyped DEF Pending
<1>7. ASSUME NEW i \in batch, markFailed(i)
      PROVE  ExecTypeOK'
  <2>1. UNCHANGED <<dispatches, targetIDs, nextTargetID, process, pinned, revoker, rollback,
                    lost>>
    BY <1>7 DEF markFailed, Settled, tableIds, procVars, revVars
  <2>2. batch' = batch \ {i} /\ job' = NoJob /\ failed' = failed \union {i} /\ acked' = acked
    BY <1>7 DEF markFailed, Settled
  <2>3. faults' \in Nat
    BY <1>a, <1>7 DEF markFailed, Settled, procVars
  <2> QED
    BY <1>a, <2>1, <2>2, <2>3, JobsTyped DEF Pending
<1>8. ASSUME NEW i \in batch, MarkFails(i)
      PROVE  ExecTypeOK'
  <2>1. UNCHANGED <<dispatches, targetIDs, nextTargetID, process, pinned, revoker, rollback,
                    lost>>
    BY <1>8 DEF MarkFails, Settled, tableIds, procVars, revVars
  <2>2. batch' = batch \ {i} /\ job' = NoJob /\ acked' = acked /\ failed' = failed
    BY <1>8 DEF MarkFails, Settled
  <2>3. faults' \in Nat
    BY <1>a, <1>8 DEF MarkFails, Settled, procVars
  <2> QED
    BY <1>a, <2>1, <2>2, <2>3, JobsTyped DEF Pending
<1>9. ASSUME NEW v \in Revokers, NEW r \in Rules, Revoke(v, r)
      PROVE  ExecTypeOK'
  <2> DEFINE known == IsGlobal(r) \/ (HasRow(r) /\ HostOf[r] \in DOMAIN targetIDs)
             settled == HasRow(r) /\ AllSettled(r)
             tid == IF known /\ ~IsGlobal(r) THEN targetIDs[HostOf[r]] ELSE 0
             left == IF known THEN PrefixesOf[r] ELSE << >>
             d == [stage |-> "delete", req |-> r, settled |-> settled, tid |-> tid,
                left |-> left]
  <2>1. UNCHANGED <<dispatches, acked, failed, batch, job, targetIDs, nextTargetID, process,
                    pinned, lost, faults>>
    BY <1>9 DEF Revoke, loopVars, tableIds, procVars
  <2>2. d \in Deletions
    <3>1. settled \in BOOLEAN
      BY Zenon DEF HasRow, AllSettled
    <3>2. tid \in Nat
      BY <1>a DEF TargetIds
    <3>3. left \in Seq(Prefixes)
      BY PrefixesTyped
    <3> HIDE DEF settled, tid, left
    <3> QED
      BY <3>1, <3>2, <3>3 DEF Deletions
  <2>3. revoker' = [revoker EXCEPT ![v] = d] /\ rollback' = [rollback EXCEPT ![r] = "begun"]
    BY <1>9 DEF Revoke
  <2> HIDE DEF d
  <2> QED
    BY <1>a, <2>1, <2>2, <2>3 DEF Pending
<1>10. ASSUME NEW v \in Revokers, Revoke_Delete(v)
      PROVE  ExecTypeOK'
  <2>1. UNCHANGED <<dispatches, acked, failed, batch, job, targetIDs, nextTargetID, process,
                    pinned, rollback, lost, faults>>
    BY <1>10 DEF Revoke_Delete, loopVars, tableIds, procVars
  <2>2. CASE revoker' = [revoker EXCEPT ![v] = Free]
    BY <1>a, <2>1, <2>2 DEF Pending
  <2>3. CASE revoker' = [revoker EXCEPT ![v].left = Remaining(@)]
    <3>1. revoker[v] \in Deletions
      BY <1>a, <1>10 DEF Revoke_Delete, Free
    <3> DEFINE rest == Tail(revoker[v].left)
    <3>2. rest \in Seq(Prefixes)
      BY <1>10, <3>1, HeadTailProperties DEF Revoke_Delete, Deletions
    <3>3. revoker' = [revoker EXCEPT ![v].left = rest]
      BY <1>a, <2>3 DEF Remaining
    <3> HIDE DEF rest
    <3>4. [revoker[v] EXCEPT !.left = rest] \in Deletions
      BY <3>1, <3>2 DEF Deletions
    <3>5. revoker' \in [Revokers -> {Free} \union Deletions]
      BY <1>a, <3>3, <3>4
    <3> QED
      BY <1>a, <2>1, <3>5 DEF Pending
  <2> QED
    BY <1>10, <2>2, <2>3 DEF Revoke_Delete
<1>11. ASSUME NEW v \in Revokers, Revoke_Done(v)
      PROVE  ExecTypeOK'
  <2>1. UNCHANGED <<dispatches, acked, failed, batch, job, targetIDs, nextTargetID, process,
                    pinned, lost, faults>>
    BY <1>11 DEF Revoke_Done, loopVars, tableIds, procVars
  <2>2. revoker' = [revoker EXCEPT ![v] = Free]
    BY <1>11 DEF Revoke_Done
  <2>3. rollback' \in [Rules -> {"no", "begun", "late", "clean"}]
    BY <1>a, <1>11 DEF Revoke_Done
  <2> QED
    BY <1>a, <2>1, <2>2, <2>3 DEF Pending
<1>12. ASSUME NEW v \in Revokers, Revoke_GivesUp(v)
      PROVE  ExecTypeOK'
  BY <1>a, <1>12 DEF Revoke_GivesUp, loopVars, tableIds, procVars, revVars, kernelVars, Pending
<1>13. CASE Stop
  <2>1. UNCHANGED <<dispatches, acked, failed, batch, job, targetIDs, nextTargetID, pinned,
                    revoker, rollback, lost>>
    BY <1>13 DEF Stop, loopVars, tableIds, revVars
  <2>2. process' \in {"stopping", "closed"} /\ faults' \in Nat
    BY <1>a, <1>13 DEF Stop
  <2> QED
    BY <1>a, <2>1, <2>2 DEF Pending
<1>14. CASE CloseXDP
  <2>1. UNCHANGED <<dispatches, acked, failed, batch, job, targetIDs, nextTargetID, pinned,
                    revoker, rollback, lost>>
    BY <1>14 DEF CloseXDP, loopVars, tableIds, revVars
  <2>2. process' \in {"stopping", "closed"} /\ faults' \in Nat
    BY <1>a, <1>14 DEF CloseXDP
  <2> QED
    BY <1>a, <2>1, <2>2 DEF Pending
<1>15. CASE Exit
  <2>1. dispatches' = dispatches /\ acked' = acked /\ failed' = failed /\ pinned' = pinned
        /\ rollback' = rollback
    BY <1>15 DEF Exit
  <2>2. batch' = {} /\ job' = NoJob /\ targetIDs' = << >> /\ nextTargetID' = 1
        /\ process' = "down"
    BY <1>15 DEF Exit
  <2>3. revoker' \in [Revokers -> {Free} \union Deletions]
    BY <1>15 DEF Exit
  <2>4. lost' \subseteq acked /\ faults' \in Nat
    BY <1>a, <1>15 DEF Exit, KeepMaps
  <2> QED
    BY <1>a, <2>1, <2>2, <2>3, <2>4, JobsTyped DEF Pending, TargetIds
<1>16. CASE Reboot
  <2>1. UNCHANGED <<dispatches, acked, failed, batch, job, targetIDs, nextTargetID, process,
                    faults, revoker, rollback>>
    BY <1>16 DEF Reboot, loopVars, tableIds, revVars
  <2>2. lost' \subseteq acked /\ pinned' = FALSE
    BY <1>a, <1>16 DEF Reboot, KeepMaps
  <2> QED
    BY <1>a, <2>1, <2>2 DEF Pending
<1>17. ASSUME NEW pin \in BOOLEAN, Start(pin)
      PROVE  ExecTypeOK'
  <2>1. UNCHANGED <<dispatches, acked, failed, batch, job, faults, revoker, rollback>>
                    /\ process' = "up" /\ pinned' \in BOOLEAN
    BY <1>17 DEF Start, loopVars, revVars
  <2>2. lost' \subseteq acked
    BY <1>a, <1>17 DEF Start, KeepMaps
  <2>3. targetIDs' = targetHosts' /\ \A h \in DOMAIN targetIDs' : h \in Hosts
        /\ targetIDs'[h] \in TargetIds
    BY <1>a, <1>17 DEF Start, restoreTargets, KernelTypeOK
  <2>4. nextTargetID' \in TargetIds
    <3> DEFINE ids == { targetHosts'[h] : h \in DOMAIN targetHosts' }
    <3>1. LargestIdExists'
      BY TargetStep
    <3>2. ids \in SUBSET Nat
      BY <2>3 DEF TargetIds
    <3>3. ids # {} => \E n \in ids : \A m \in ids : m <= n
      BY <3>1 DEF LargestIdExists
    <3>4. nextTargetID' = MaxId(ids) + 1
      BY <1>17 DEF Start, restoreTargets
    <3> HIDE DEF ids
    <3>5. MaxId(ids) \in Nat
      BY <3>2, <3>3, MaxIdIsLargest
    <3> QED
      BY <3>4, <3>5 DEF TargetIds
  <2> QED
    BY <1>a, <2>1, <2>2, <2>3, <2>4 DEF Pending
<1>18. CASE Tick
  BY <1>a, <1>18 DEF Tick, KernelTick, loopVars, tableIds, procVars, revVars, kernelVars,
     kernelMaps, Pending
<1>19. CASE UNCHANGED execVars
  BY <1>a, <1>19 DEF execVars, loopVars, tableIds, procVars, revVars, kernelVars, Pending
<1> QED
  BY <1>1, <1>2, <1>3, <1>4, <1>5, <1>6, <1>7, <1>8, <1>9, <1>10,
     <1>11, <1>12, <1>13, <1>14, <1>15, <1>16, <1>17, <1>18, <1>19
     DEF ExecNext, Loop, Rollbacks, Process

\* No key is written under the id of a host before the memory has it.
LEMMA NextIdStep ==
  ASSUME ExecInv, [ExecNext]_execVars
  PROVE  NextIdUnused'
<1> SUFFICES ASSUME Running', NEW k \in DOMAIN srcBans'
             PROVE  k[1] # nextTargetID'
  BY DEF NextIdUnused
<1>a. ExecTypeOK /\ JobHasRow /\ NextIdUnused
  BY DEF ExecInv
<1>b. MemoryMatchesKernel' /\ ExecTypeOK'
  BY TargetStep, ExecTypeStep
<1>1. PICK h \in DOMAIN targetHosts' : targetHosts'[h] = k[1]
  BY KeyStep DEF KeysHaveTarget
<1>2. CASE h \in DOMAIN targetIDs'
  BY <1>1, <1>2, <1>b DEF MemoryMatchesKernel, ExecTypeOK, TargetIds
<1>3. CASE h \notin DOMAIN targetIDs'
  <2>1. job'.stage = "remember" /\ batch' # {}
    BY <1>3, <1>b DEF MemoryMatchesKernel, Registering
  <2>2. nextTargetID' = nextTargetID /\ DOMAIN srcBans' \subseteq DOMAIN srcBans /\ Running
    <3>1. CASE \E i \in batch : ensureTarget_Put(i)
      BY <1>a, <3>1 DEF ensureTarget_Put, PutTarget, tableIds, kernelVars, kernelMaps, JobHasRow
    <3>2. CASE Rollbacks \/ Tick \/ UNCHANGED execVars
      <4>1. UNCHANGED <<nextTargetID, process>>
        BY <3>2 DEF Rollbacks, Revoke, Revoke_Delete, Revoke_Done, Revoke_GivesUp, Tick, execVars,
           tableIds, procVars
      <4>2. DOMAIN srcBans' \subseteq DOMAIN srcBans
        BY <3>2 DEF Rollbacks, Revoke, Revoke_Delete, Revoke_Done, Revoke_GivesUp, DeleteGlobal,
           DeleteScoped, DropKey, Tick, KernelTick, execVars, kernelVars, kernelMaps
      <4> QED
        BY <4>1, <4>2 DEF Running
    <3>3. CASE \/ \E r \in Rules, ttl \in TTLs : Enqueue(r, ttl)
               \/ Stop \/ CloseXDP
      BY <3>3 DEF Enqueue, Stop, CloseXDP, tableIds, kernelVars, Running
    <3>4. ~Poll /\ ~\E i \in batch : markAcked(i) \/ markFailed(i) \/ MarkFails(i)
      BY <1>a, <2>1, JobsTyped DEF Poll, JobHasRow, markAcked, markFailed, MarkFails, Settled
    <3>5. ASSUME NEW i \in batch, Apply(i) \/ ensureTarget(i) \/ ensureTarget_Remember(i)
          PROVE  FALSE
      <4>1. job'.stage \in {"target", "put"}
        <5>1. job \in Jobs
          BY <1>a DEF ExecTypeOK
        <5>2. CASE Apply(i)
          BY <5>2 DEF Apply
        <5>3. CASE ensureTarget(i) \/ ensureTarget_Remember(i)
          <6>1. job' = [job EXCEPT !.stage = "put"] \/ \E n : job' = [job EXCEPT !.stage = "put", !.tid = n]
            BY <5>3 DEF ensureTarget, ensureTarget_Remember
          <6> QED
            BY <5>1, <6>1 DEF Jobs
        <5> QED
          BY <3>5, <5>2, <5>3
      <4> QED
        BY <2>1, <4>1
    <3>6. ASSUME NEW i \in batch, Apply_Put(i) PROVE FALSE
      <4>1. job \in Jobs /\ job.stage = "put" /\ job.left # << >>
        BY <1>a, <3>6 DEF ExecTypeOK, Apply_Put, JobHasRow, Writing
      <4>2. job' = AfterPut(job) \/ job' = AfterError
        BY <3>6 DEF Apply_Put
      <4> QED
        BY <2>1, <4>1, <4>2, AfterPutEffect, JobsTyped DEF AfterError
    <3>7. ~Exit /\ ~Reboot /\ ~\E pin \in BOOLEAN : Start(pin)
      BY <1>a, <2>1 DEF Exit, Reboot, Start, loopVars, JobHasRow, Running
    <3> QED
      BY <3>1, <3>2, <3>3, <3>4, <3>5, <3>6, <3>7 DEF ExecNext, Loop, Process
  <2> QED
    BY <1>a, <2>2 DEF NextIdUnused
<1> QED
  BY <1>2, <1>3

-----------------------------------------------------------------------------
(* What no step takes back.                                                *)

\* Rows stay as they are, and a request has one row at most.
LEMMA RowsStay ==
  ASSUME ExecInv, [ExecNext]_execVars
  PROVE  /\ \A i \in DOMAIN dispatches : i \in DOMAIN dispatches' /\ dispatches'[i] = dispatches[i]
         /\ acked \subseteq acked' /\ failed \subseteq failed' /\ lost \subseteq lost'
         /\ \A r \in Rules : Finished(r) => Finished(r)'
<1>a. ExecTypeOK
  BY DEF ExecInv
<1>1. CASE \E r \in Rules, ttl \in TTLs : ~HasRow(r) /\ Enqueue(r, ttl)
  <2>1. PICK r \in Rules, ttl \in TTLs : ~HasRow(r) /\ Enqueue(r, ttl)
    BY <1>1
  <2> DEFINE row == [req |-> r, ttl |-> ttl]
  <2>2. row \in Row /\ row.req = r
    BY KernelAssumption DEF Row
  <2>3. dispatches' = Append(dispatches, row) /\ UNCHANGED <<acked, failed, lost>>
    BY <2>1 DEF Enqueue, procVars
  <2>4. dispatches \in Seq(Row)
    BY <1>a DEF ExecTypeOK
  <2> HIDE DEF row
  <2>5. /\ \A i \in DOMAIN dispatches : i \in DOMAIN dispatches' /\ dispatches'[i] = dispatches[i]
        /\ \A i \in DOMAIN dispatches' : i \notin DOMAIN dispatches => dispatches'[i].req = r
    <3>1. /\ dispatches' \in Seq(Row)
          /\ Len(dispatches') = Len(dispatches) + 1
          /\ \A i \in 1..Len(dispatches) : dispatches'[i] = dispatches[i]
          /\ dispatches'[Len(dispatches) + 1] = row
      BY <2>2, <2>3, <2>4, AppendProperties
    <3>2. DOMAIN dispatches = 1..Len(dispatches) /\ DOMAIN dispatches' = 1..Len(dispatches')
          /\ Len(dispatches) \in Nat
      BY <2>4, <3>1, LenProperties
    <3>3. \A i \in 1..(Len(dispatches) + 1) :
            i \in 1..Len(dispatches) \/ i = Len(dispatches) + 1
      BY <3>2
    <3>4. 1..Len(dispatches) \subseteq 1..(Len(dispatches) + 1)
      BY <3>2
    <3> QED
      BY <2>2, <3>1, <3>2, <3>3, <3>4
  <2>6. ASSUME NEW q \in Rules, Finished(q)
        PROVE  Finished(q)'
    <3>1. q # r
      BY <2>1, <2>6 DEF Finished
    <3> QED
      BY <2>3, <2>5, <2>6, <3>1 DEF Finished, HasRow, AllSettled
  <2> QED
    BY <2>3, <2>5, <2>6
<1>2. CASE /\ dispatches' = dispatches /\ lost \subseteq lost'
           /\ acked \subseteq acked' /\ failed \subseteq failed'
  BY <1>2 DEF Finished, HasRow, AllSettled
<1> DEFINE Grow == /\ dispatches' = dispatches /\ lost \subseteq lost'
                   /\ acked \subseteq acked' /\ failed \subseteq failed'
<1>3. CASE Loop \/ \E i \in batch : MarkFails(i)
  <2>1. Grow
    BY <1>3 DEF Loop, Poll, Apply, ensureTarget, ensureTarget_Put, ensureTarget_Remember, Apply_Put, markAcked, markFailed, MarkFails,
       Settled, procVars
  <2> QED
    BY <1>2, <2>1
<1>4. CASE Rollbacks \/ Tick \/ UNCHANGED execVars
  <2>1. Grow
    BY <1>4 DEF Rollbacks, Revoke, Revoke_Delete, Revoke_Done, Revoke_GivesUp, Tick, procVars,
       execVars
  <2> QED
    BY <1>2, <2>1
<1>5. CASE Process
  <2>1. Grow
    BY <1>5 DEF Process, Stop, CloseXDP, Exit, Reboot, Start, KeepMaps
  <2> QED
    BY <1>2, <2>1
<1> QED
  BY <1>1, <1>3, <1>4, <1>5 DEF ExecNext

\* A rollback that has begun has begun for ever.
LEMMA RollbackStays ==
  ASSUME ExecInv, [ExecNext]_execVars, NEW r \in Rules, rollback[r] # "no"
  PROVE  rollback'[r] # "no"
<1>a. rollback \in [Rules -> {"no", "begun", "late", "clean"}]
  BY DEF ExecInv, ExecTypeOK
<1>1. CASE rollback' = rollback
  BY <1>1
<1>2. ASSUME NEW v \in Revokers, NEW q \in Rules, Revoke(v, q)
      PROVE  rollback'[r] # "no"
  BY <1>a, <1>2 DEF Revoke
<1>3. ASSUME NEW v \in Revokers, Revoke_Done(v)
      PROVE  rollback'[r] # "no"
  BY <1>a, <1>3 DEF Revoke_Done
<1>4. CASE \/ \E q \in Rules, ttl \in TTLs : Enqueue(q, ttl)
           \/ Loop \/ (\E i \in batch : MarkFails(i)) \/ Tick \/ UNCHANGED execVars
  <2>1. rollback' = rollback
    BY <1>4 DEF Enqueue, Loop, Poll, Apply, ensureTarget, ensureTarget_Put, ensureTarget_Remember, Apply_Put, markAcked, markFailed,
       MarkFails, Settled, Tick, revVars, execVars
  <2> QED
    BY <1>1, <2>1
<1>5. CASE Process \/ \E v \in Revokers : Revoke_Delete(v) \/ Revoke_GivesUp(v)
  <2>1. rollback' = rollback
    BY <1>5 DEF Process, Stop, CloseXDP, Exit, Reboot, Start, Revoke_Delete, Revoke_GivesUp,
       revVars
  <2> QED
    BY <1>1, <2>1
<1> QED
  BY <1>2, <1>3, <1>4, <1>5 DEF ExecNext, Rollbacks

\* A key in the kernel stays there but for a rollback and the loss of the maps.
LEMMA KeptStays ==
  ASSUME ExecInv, [ExecNext]_execVars, ~LosesMaps, NEW r \in Rules, NEW x, Kept(r, x)
  PROVE  Kept(r, x)'
<1>a. ExecTypeOK /\ TargetIdsUnique
  BY DEF ExecInv
<1>1. CASE \E q \in Rules : SharesKey(r, q, x) /\ rollback[q] # "no"
  BY <1>1, RollbackStays DEF Kept, SharesKey
<1>2. CASE InKernel(r, x)
  <2>1. CASE UNCHANGED kernelMaps
    BY <1>2, <2>1 DEF Kept, InKernel, kernelMaps
  <2>2. CASE GivesId
    BY <1>2, <2>2, IdGiven DEF Kept
  <2>3. CASE WritesKey
    <3>1. PICK i \in batch : \E p \in Keys(dispatches[i].req) :
             WriteKey(dispatches[i].req, p, EncodeValue(job.at, dispatches[i].ttl, dispatches[i].req))
      BY <2>3 DEF WritesKey
    <3> QED
      BY <1>a, <1>2, <3>1, RowTyped, KeyWritten DEF Kept
  <2>4. CASE DeletesKey
    <3>1. PICK q \in Rules : \E p \in Keys(q) : rollback[q] # "no" /\ DeleteKey(q, p)
      BY <2>4 DEF DeletesKey
    <3>2. PICK p \in Keys(q) : rollback[q] # "no" /\ DeleteKey(q, p)
      BY <3>1
    <3>3. CASE x = p /\ HostOf[r] = HostOf[q]
      <4>1. SharesKey(r, q, x) /\ rollback'[q] # "no"
        BY <3>2, <3>3, RollbackStays DEF SharesKey
      <4> QED
        BY <4>1 DEF Kept, SharesKey
    <3>4. CASE ~(x = p /\ HostOf[r] = HostOf[q])
      BY <1>a, <1>2, <3>2, <3>4, KeyDeleted DEF Kept
    <3> QED
      BY <3>3, <3>4
  <2> QED
    BY <2>1, <2>2, <2>3, <2>4, StepEffect
<1> QED
  BY <1>1, <1>2 DEF Kept

\* A key that is gone does not come back once the executor is done with its request.
LEMMA GoneStays ==
  ASSUME ExecInv, [ExecNext]_execVars, NEW r \in Rules, NEW x, Finished(r), Gone(r, x)
  PROVE  Gone(r, x)'
<1>a. ExecTypeOK /\ TargetIdsUnique
  BY DEF ExecInv
<1>b. \A q : HasRow(q) => HasRow(q)'
  BY RowsStay DEF HasRow
<1>1. CASE \E q \in Rules \ {r} : SharesKey(r, q, x) /\ HasRow(q)
  BY <1>1, <1>b DEF Gone, SharesKey
<1>2. CASE ~InKernel(r, x)
  <2>1. CASE UNCHANGED kernelMaps
    BY <1>2, <2>1 DEF Gone, InKernel, kernelMaps
  <2>2. CASE GivesId
    BY <1>2, <2>2, IdGiven DEF Gone
  <2>3. CASE WritesKey
    <3>1. PICK i \in batch : \E p \in Keys(dispatches[i].req) :
             WriteKey(dispatches[i].req, p, EncodeValue(job.at, dispatches[i].ttl, dispatches[i].req))
      BY <2>3 DEF WritesKey
    <3>0. PICK q : q = dispatches[i].req
      OBVIOUS
    <3>2. PICK p \in Keys(q) :
             WriteKey(q, p, EncodeValue(job.at, dispatches[i].ttl, q))
      BY <3>0, <3>1
    <3>3. q \in Rules /\ HasRow(q) /\ q # r
      BY <1>a, <3>0, RowTyped, CurrentPending DEF Finished
    <3>4. CASE x = p /\ HostOf[r] = HostOf[q]
      <4>1. SharesKey(r, q, x) /\ HasRow(q)'
        BY <1>b, <3>2, <3>3, <3>4 DEF SharesKey
      <4> QED
        BY <3>3, <4>1 DEF Gone, SharesKey
    <3>5. CASE ~(x = p /\ HostOf[r] = HostOf[q])
      BY <1>a, <1>2, <3>2, <3>3, <3>5, KeyWritten DEF Gone
    <3> QED
      BY <3>4, <3>5
  <2>4. CASE DeletesKey
    <3>1. PICK q \in Rules : \E p \in Keys(q) : rollback[q] # "no" /\ DeleteKey(q, p)
      BY <2>4 DEF DeletesKey
    <3> QED
      BY <1>a, <1>2, <3>1, KeyDeleted DEF Gone
  <2>5. CASE LosesMaps
    BY <2>5 DEF LosesMaps, Gone, InKernel, kernelMaps
  <2> QED
    BY <2>1, <2>2, <2>3, <2>4, <2>5, StepEffect
<1> QED
  BY <1>1, <1>2 DEF Gone

-----------------------------------------------------------------------------
(* The promises to the control plane, one lemma for each part.             *)

\* Whatever a job no longer has to write stays in the kernel until the row is marked.
LEMMA JobWritesStep == ExecInv /\ [ExecNext]_execVars => JobWrites'
<1> SUFFICES ASSUME ExecInv, [ExecNext]_execVars, ~LosesMaps,
                    NEW i \in batch', Current(i)'
             PROVE  JobWrote(dispatches[i].req)'
  BY DEF LosesMaps, JobWrites
<1>0. PICK r : r = dispatches'[i].req
  OBVIOUS
<1> SUFFICES JobWrote(r)'
  BY <1>0 DEF JobWrote, Keys, Kept, InKernel, IsGlobal, SharesKey
<1>a. ExecTypeOK /\ JobWrites
  BY DEF ExecInv
<1>1. CASE /\ batch' = batch /\ job'.left = job.left
           /\ job'.stage = job.stage \/ (job.stage \in Writing /\ job'.stage \in Writing)
  <2>1. i \in batch /\ Current(i) /\ r = dispatches[i].req /\ r \in Rules
    BY <1>0, <1>a, <1>1, RowTyped, RowsStay DEF Current
  <2>2. JobWrote(r)
    BY <1>a, <2>1 DEF JobWrites
  <2> QED
    BY <1>1, <2>1, <2>2, KeptStays DEF JobWrote, Keys, Writing
<1>2. CASE job'.stage \notin Writing \union {"ack"} /\ job'.left = << >>
  BY <1>2 DEF JobWrote, Range
<1>3. ASSUME NEW j \in batch,
             Apply(j) \/ ensureTarget(j) \/ ensureTarget_Put(j) \/ ensureTarget_Remember(j)
      PROVE  JobWrote(r)'
  <2>1. CASE job' = [NoJob EXCEPT !.stage = "fail"]
    BY <1>2, <2>1 DEF NoJob, Writing
  <2>2. CASE Apply(j)
    <3>1. j = i /\ r = dispatches[j].req
      BY <1>0, <1>a, <2>2, CurrentPending DEF Apply, Current
    <3>2. job'.stage \in {"target", "put"} /\ Range(job'.left) = Keys(r)
      BY <2>2, <3>1 DEF Apply, Keys, Range
    <3> QED
      BY <3>2 DEF JobWrote, Keys
  <2>3. CASE /\ batch' = batch /\ job'.left = job.left
             /\ job.stage \in Writing /\ job'.stage \in Writing
    BY <1>1, <2>3
  <2>4. job \in Jobs
    BY <1>a DEF ExecTypeOK
  <2>5. CASE ensureTarget(j) \/ ensureTarget_Remember(j)
    BY <2>3, <2>4, <2>5 DEF ensureTarget, ensureTarget_Remember, Jobs, Writing
  <2>6. CASE ensureTarget_Put(j)
    BY <2>1, <2>3, <2>4, <2>6 DEF ensureTarget_Put, Jobs, Writing
  <2> QED
    BY <1>3, <2>2, <2>5, <2>6
<1>4. ASSUME NEW j \in batch, Apply_Put(j)
      PROVE  JobWrote(r)'
  <2>0. j = i /\ UNCHANGED <<dispatches, batch>> /\ Current(j) /\ job.stage = "put"
    BY <1>a, <1>4, CurrentPending DEF Apply_Put, Current
  <2>1. r = dispatches[j].req /\ r \in Rules
    BY <1>0, <1>a, <2>0, RowTyped
  <2>2. CASE job' = AfterError
    BY <1>2, <2>2 DEF NoJob, AfterError, Writing
  <2>3. CASE WriteKey(r, Head(job.left), EncodeValue(job.at, dispatches[j].ttl, r)) /\ job' = AfterPut(job)
    <3>1. PICK p : p = Head(job.left)
      OBVIOUS
    <3>2. WriteKey(r, p, EncodeValue(job.at, dispatches[j].ttl, r))
      BY <2>3, <3>1
    <3>3. \A x \in Keys(r) \ Range(job.left) : Kept(r, x)'
      BY <1>a, <2>0, <2>1, KeptStays DEF JobWrites, JobWrote, Writing
    <3>4. Kept(r, p)'
      <4>1. InKernel(r, p)'
        BY <1>a, <2>1, <3>2, KeyWritten DEF ExecInv
      <4> QED
        BY <4>1 DEF Kept
    <3>5. /\ job.left \in Seq(Prefixes) /\ job.left # << >>
          /\ Range(job.left) = {p} \union Range(Tail(job.left))
          /\ Len(job.left) = 1 => Range(job.left) = {p}
      BY <1>4, <3>1, PutEffect, HeadAndRest
    <3>6. Range(job.left) \subseteq Keys(r)
      BY <1>a, <2>0, <2>1 DEF JobWrites, JobWrote
    <3>7. CASE Len(job.left) = 1
      <4>1. job'.stage = "ack" /\ job'.left = << >>
        BY <2>3, <3>7 DEF AfterPut, NoJob
      <4>2. \A x \in Keys(r) : Kept(r, x)'
        BY <3>3, <3>4, <3>5, <3>7
      <4> QED
        BY <4>1, <4>2 DEF JobWrote, Keys, Range, Writing
    <3>8. CASE Len(job.left) # 1
      <4>1. job'.stage = "put" /\ job'.left = Tail(job.left)
        BY <1>a, <2>0, <2>3, <3>8 DEF AfterPut, ExecTypeOK, Jobs
      <4>2. \A x \in Keys(r) \ Range(Tail(job.left)) : Kept(r, x)'
        BY <3>3, <3>4, <3>5
      <4> QED
        BY <3>5, <3>6, <4>1, <4>2 DEF JobWrote, Keys, Writing
    <3> QED
      BY <3>7, <3>8
  <2> QED
    BY <1>4, <2>1, <2>2, <2>3, PutEffect
<1>5. ASSUME NEW j \in batch, markAcked(j) \/ markFailed(j) \/ MarkFails(j)
      PROVE  JobWrote(r)'
  <2>1. job' = NoJob
    BY <1>5 DEF markAcked, markFailed, MarkFails, Settled
  <2> QED
    BY <1>2, <2>1 DEF NoJob, Writing
<1>6. CASE Poll
  <2>1. job' = NoJob
    BY <1>6 DEF Poll, ExecInv, JobHasRow
  <2> QED
    BY <1>2, <2>1 DEF NoJob, Writing
<1>7. CASE Process
  <2>1. UNCHANGED <<batch, job>> \/ batch' = {}
    BY <1>7 DEF Process, Stop, CloseXDP, Exit, Reboot, Start, loopVars
  <2> QED
    BY <1>1, <2>1
<1>8. CASE \/ \E q \in Rules, ttl \in TTLs : Enqueue(q, ttl)
           \/ Rollbacks \/ Tick \/ UNCHANGED execVars
  <2>1. UNCHANGED <<batch, job>>
    BY <1>8 DEF Enqueue, Rollbacks, Revoke, Revoke_Delete, Revoke_Done, Revoke_GivesUp, Tick,
       loopVars, execVars
  <2> QED
    BY <1>1, <2>1
<1> QED
  BY <1>3, <1>4, <1>5, <1>6, <1>7, <1>8 DEF ExecNext, Loop

\* A row is acked when all its keys are kept, and they stay so.
LEMMA AckedStep == ExecInv /\ [ExecNext]_execVars => AckedIsEnforced'
<1> SUFFICES ASSUME ExecInv, [ExecNext]_execVars, ~LosesMaps,
                    NEW i \in acked' \ lost', NEW r, r = dispatches'[i].req, NEW p \in Keys(r)
             PROVE  Kept(r, p)'
  BY DEF LosesMaps, AckedIsEnforced, Keys, Kept, InKernel, IsGlobal, SharesKey
<1>a. ExecTypeOK /\ AckedIsEnforced /\ JobWrites
  BY DEF ExecInv
<1>1. CASE i \in acked
  <2>1. i \in acked \ lost /\ r = dispatches[i].req
    BY <1>a, <1>1, RowsStay DEF ExecTypeOK
  <2>2. r \in Rules
    <3>1. dispatches \in Seq(Row) /\ i \in DOMAIN dispatches
      BY <1>a, <2>1 DEF ExecTypeOK
    <3>2. dispatches[i] \in Row
      BY <3>1, LenProperties
    <3> QED
      BY <2>1, <3>2 DEF Row
  <2>3. Kept(r, p)
    BY <1>a, <2>1 DEF AckedIsEnforced, Kept
  <2> QED
    BY <2>2, <2>3, KeptStays
<1>2. CASE \E j \in batch : markAcked(j) /\ j = i
  <2>1. i \in batch /\ Current(i) /\ job.stage = "ack" /\ r = dispatches[i].req
    BY <1>2 DEF markAcked, Settled
  <2>2. Kept(r, p)
    BY <1>a, <2>1 DEF JobWrites, JobWrote
  <2> QED
    BY <1>a, <2>1, <2>2, KeptStays, RowTyped
<1>3. i \in acked \/ \E j \in batch : markAcked(j) /\ j = i
  <2>1. acked' = acked \/ \E j \in batch : markAcked(j)
    BY DEF ExecNext, Loop, Rollbacks, Process, Enqueue, Poll, Apply, ensureTarget, ensureTarget_Put, ensureTarget_Remember, Apply_Put,
       markFailed, MarkFails, Revoke, Revoke_Delete, Revoke_Done, Revoke_GivesUp, Stop,
       CloseXDP, Exit, Reboot, Start, Tick, execVars
  <2> QED
    BY <2>1 DEF markAcked
<1> QED
  BY <1>1, <1>2, <1>3

\* A host keeps its id as long as the maps are there.
LEMMA HostsStay ==
  ASSUME ExecInv, [ExecNext]_execVars, ~LosesMaps, NEW h \in DOMAIN targetHosts
  PROVE  h \in DOMAIN targetHosts' /\ targetHosts'[h] = targetHosts[h]
BY StepEffect DEF kernelMaps, GivesId, PutTarget, SetKey, WritesKey, WriteKey, PutGlobal,
   PutScoped, DeletesKey, DeleteKey, DeleteGlobal, DeleteScoped

\* What a rollback in progress did in a step.
LEMMA RevokerEffect ==
  ASSUME ExecInv, [ExecNext]_execVars, NEW v \in Revokers, revoker'[v] # Free
  PROVE  /\ Running' /\ ~LosesMaps
         /\ \/ revoker'[v] = revoker[v]
            \/ \E r \in Rules : Revoke(v, r)
            \/ /\ Revoke_Delete(v)
               /\ DeleteKey(revoker[v].req, Head(revoker[v].left))
               /\ revoker'[v] = [revoker[v] EXCEPT !.left = Tail(@)]
<1>a. revoker \in [Revokers -> {Free} \union Deletions] /\ RevokerAims
  BY DEF ExecInv, ExecTypeOK
<1>b. ~LosesMaps
  BY DEF LosesMaps
<1>c. revoker[v] # Free => Running
  BY <1>a DEF RevokerAims, DeletesOwn
<1>1. CASE revoker' = revoker /\ process' = process
  BY <1>b, <1>c, <1>1 DEF Running
<1>2. ASSUME NEW w \in Revokers, NEW r \in Rules, Revoke(w, r)
      PROVE  Running' /\ (revoker'[v] = revoker[v] \/ \E q \in Rules : Revoke(v, q))
  BY <1>a, <1>2 DEF Revoke, Running, procVars
<1>3. ASSUME NEW w \in Revokers, Revoke_Delete(w)
      PROVE  /\ Running'
             /\ \/ revoker'[v] = revoker[v]
                \/ /\ Revoke_Delete(v)
                   /\ DeleteKey(revoker[v].req, Head(revoker[v].left))
                   /\ revoker'[v] = [revoker[v] EXCEPT !.left = Tail(@)]
  <2>1. Running'
    BY <1>3 DEF Revoke_Delete, Running, procVars
  <2>2. CASE w = v
    BY <1>a, <1>3, <2>1, <2>2, DeleteEffect
  <2>3. CASE w # v
    BY <1>a, <1>3, <2>1, <2>3, DeleteEffect
  <2> QED
    BY <2>2, <2>3
<1>4. ASSUME NEW w \in Revokers, Revoke_Done(w) \/ Revoke_GivesUp(w)
      PROVE  Running' /\ revoker'[v] = revoker[v]
  <2>1. revoker' = [revoker EXCEPT ![w] = Free] /\ process' = process
    BY <1>4 DEF Revoke_Done, Revoke_GivesUp, procVars
  <2> QED
    BY <1>a, <1>c, <2>1 DEF Running
<1>5. ASSUME Process PROVE Running' /\ revoker'[v] = revoker[v]
  <2>1. ~Exit
    BY DEF Exit
  <2>2. revoker' = revoker /\ (process' = "down" => process = "down")
    BY <1>5, <2>1 DEF Process, Stop, CloseXDP, Reboot, Start, revVars
  <2> QED
    BY <1>c, <2>2 DEF Running
<1>6. CASE \/ \E q \in Rules, ttl \in TTLs : Enqueue(q, ttl)
           \/ Loop \/ (\E i \in batch : MarkFails(i)) \/ Tick \/ UNCHANGED execVars
  <2>1. revoker' = revoker /\ process' = process
    BY <1>6 DEF Enqueue, Loop, Poll, Apply, ensureTarget, ensureTarget_Put, ensureTarget_Remember, Apply_Put, markAcked, markFailed,
       MarkFails, Settled, Tick, procVars, revVars, execVars
  <2> QED
    BY <1>1, <2>1
<1> QED
  BY <1>b, <1>2, <1>3, <1>4, <1>5, <1>6 DEF ExecNext, Rollbacks

\* A rollback keeps to the keys of its request.
LEMMA RevokerAimsStep == ExecInv /\ [ExecNext]_execVars => RevokerAims'
<1> SUFFICES ASSUME ExecInv, [ExecNext]_execVars, NEW v \in Revokers, revoker'[v] # Free
             PROVE  DeletesOwn(revoker[v])'
  BY DEF RevokerAims
<1>0. PICK d : d = revoker'[v]
  OBVIOUS
<1> SUFFICES DeletesOwn(d)'
  BY <1>0 DEF DeletesOwn, Keys, IsGlobal
<1>a. ExecTypeOK /\ RevokerAims /\ MemoryMatchesKernel
  BY DEF ExecInv
<1>b. Running' /\ ~LosesMaps
  BY RevokerEffect
<1>c. ASSUME d.req \in Rules, DeletesOwn(d) PROVE DeletesOwn(d)'
  BY <1>b, <1>c, RollbackStays, HostsStay DEF DeletesOwn, Keys, IsGlobal
<1>1. CASE revoker'[v] = revoker[v]
  BY <1>0, <1>a, <1>1, <1>c DEF RevokerAims, ExecTypeOK, Deletions
<1>2. ASSUME NEW r \in Rules, Revoke(v, r)
      PROVE  DeletesOwn(d)'
  <2> DEFINE known == IsGlobal(r) \/ (HasRow(r) /\ HostOf[r] \in DOMAIN targetIDs)
  <2>1. /\ d.req = r
        /\ d.tid = (IF known /\ ~IsGlobal(r) THEN targetIDs[HostOf[r]] ELSE 0)
        /\ d.left = (IF known THEN PrefixesOf[r] ELSE << >>)
        /\ UNCHANGED targetHosts /\ Running /\ rollback'[r] = "begun"
    BY <1>0, <1>a, <1>2 DEF Revoke, ExecTypeOK, kernelVars, Running
  <2>2. \A h \in DOMAIN targetIDs : h \in DOMAIN targetHosts /\ targetHosts[h] = targetIDs[h]
    BY <1>a, <2>1 DEF MemoryMatchesKernel
  <2>3. Range(d.left) \subseteq Keys(r)
    BY <2>1 DEF Range, Keys
  <2> QED
    BY <1>b, <2>1, <2>2, <2>3 DEF DeletesOwn, IsGlobal, Keys
<1>3. ASSUME Revoke_Delete(v), revoker'[v] = [revoker[v] EXCEPT !.left = Tail(@)]
      PROVE  DeletesOwn(d)'
  <2>1. revoker[v] # Free /\ revoker[v] \in Deletions /\ revoker[v].left # << >>
    BY <1>3, DeleteEffect
  <2>2. /\ d.req = revoker[v].req /\ d.tid = revoker[v].tid /\ d.left = Tail(revoker[v].left)
        /\ d.req \in Rules /\ revoker[v].left \in Seq(Prefixes)
    BY <1>0, <1>3, <2>1 DEF Deletions
  <2>3. Range(d.left) \subseteq Range(revoker[v].left)
    BY <2>1, <2>2, HeadAndRest
  <2>4. DeletesOwn(revoker[v])
    BY <1>a, <2>1 DEF RevokerAims
  <2>5. DeletesOwn(d)
    BY <2>1, <2>2, <2>3, <2>4 DEF DeletesOwn
  <2> QED
    BY <1>c, <2>2, <2>5
<1> QED
  BY <1>1, <1>2, <1>3, RevokerEffect

\* The rollback of a request is clean if the executor was done when it began.
LEMMA CleanEffect ==
  ASSUME ExecInv, [ExecNext]_execVars, NEW r \in Rules, rollback'[r] = "clean"
  PROVE  \/ rollback[r] = "clean"
         \/ \E v \in Revokers : /\ revoker[v] # Free /\ revoker[v].settled
                                /\ revoker[v].req = r /\ revoker[v].left = << >>
<1>a. rollback \in [Rules -> {"no", "begun", "late", "clean"}]
  BY DEF ExecInv, ExecTypeOK
<1>1. CASE rollback' = rollback
  BY <1>1
<1>2. ASSUME NEW v \in Revokers, NEW q \in Rules, Revoke(v, q)
      PROVE  rollback[r] = "clean"
  BY <1>a, <1>2 DEF Revoke
<1>3. ASSUME NEW v \in Revokers, Revoke_Done(v)
      PROVE  rollback[r] = "clean" \/ (/\ revoker[v] # Free /\ revoker[v].settled
                                       /\ revoker[v].req = r /\ revoker[v].left = << >>)
  <2>1. revoker[v] # Free /\ revoker[v].left = << >>
    BY <1>3 DEF Revoke_Done, Free
  <2> QED
    BY <1>a, <1>3, <2>1 DEF Revoke_Done
<1>4. CASE \/ \E q \in Rules, ttl \in TTLs : Enqueue(q, ttl)
           \/ Loop \/ (\E i \in batch : MarkFails(i)) \/ Tick \/ UNCHANGED execVars
  <2>1. rollback' = rollback
    BY <1>4 DEF Enqueue, Loop, Poll, Apply, ensureTarget, ensureTarget_Put, ensureTarget_Remember, Apply_Put, markAcked, markFailed,
       MarkFails, Settled, Tick, revVars, execVars
  <2> QED
    BY <1>1, <2>1
<1>5. CASE Process \/ \E v \in Revokers : Revoke_Delete(v) \/ Revoke_GivesUp(v)
  <2>1. rollback' = rollback
    BY <1>5 DEF Process, Stop, CloseXDP, Exit, Reboot, Start, Revoke_Delete, Revoke_GivesUp,
       revVars
  <2> QED
    BY <1>1, <2>1
<1> QED
  BY <1>2, <1>3, <1>4, <1>5 DEF ExecNext, Rollbacks

\* A request that is finished when its rollback begins stays finished.
LEMMA FinishedStep == ExecInv /\ [ExecNext]_execVars => CleanIsFinished'
<1> SUFFICES ASSUME ExecInv, [ExecNext]_execVars
             PROVE  CleanIsFinished'
  OBVIOUS
<1>a. ExecTypeOK /\ CleanIsFinished
  BY DEF ExecInv
<1>1. ASSUME NEW r \in Rules, rollback'[r] = "clean" PROVE Finished(r)'
  BY <1>a, <1>1, CleanEffect, RowsStay DEF CleanIsFinished
<1>2. ASSUME NEW v \in Revokers, revoker'[v] # Free, revoker'[v].settled,
             NEW r, r = revoker'[v].req
      PROVE  Finished(r)'
  <2>1. CASE \/ revoker'[v] = revoker[v]
             \/ Revoke_Delete(v) /\ revoker'[v] = [revoker[v] EXCEPT !.left = Tail(@)]
    <3>1. revoker[v] # Free /\ revoker[v].settled /\ revoker[v].req = r /\ r \in Rules
      <4>1. CASE revoker'[v] = revoker[v]
        BY <1>a, <1>2, <4>1 DEF ExecTypeOK, Deletions
      <4>2. CASE Revoke_Delete(v) /\ revoker'[v] = [revoker[v] EXCEPT !.left = Tail(@)]
        BY <1>2, <4>2, DeleteEffect DEF Deletions
      <4> QED
        BY <2>1, <4>1, <4>2
    <3> QED
      BY <1>a, <3>1, RowsStay DEF CleanIsFinished
  <2>2. ASSUME NEW q \in Rules, Revoke(v, q) PROVE Finished(r)'
    <3>1. r = q /\ revoker'[v].settled = (HasRow(q) /\ AllSettled(q))
      BY <1>a, <1>2, <2>2 DEF Revoke, ExecTypeOK
    <3> QED
      BY <1>2, <3>1, RowsStay DEF Finished
  <2> QED
    BY <1>2, <2>1, <2>2, RevokerEffect
<1> QED
  BY <1>1, <1>2 DEF CleanIsFinished, Finished, HasRow, AllSettled

\* Whatever a clean rollback no longer has to delete stays out of the kernel.
LEMMA RevokerClearsStep == ExecInv /\ [ExecNext]_execVars => RevokerClears'
<1> SUFFICES ASSUME ExecInv, [ExecNext]_execVars, NEW v \in Revokers,
                    revoker'[v] # Free, revoker'[v].settled
             PROVE  Deleted(revoker[v])'
  BY DEF RevokerClears
<1>0. PICK d : d = revoker'[v]
  OBVIOUS
<1> SUFFICES Deleted(d)'
  BY <1>0 DEF Deleted, Keys, Gone, InKernel, IsGlobal, SharesKey, HasRow
<1>a. ExecTypeOK /\ RevokerClears /\ CleanIsFinished /\ MemoryMatchesKernel /\ NextIdUnused
  BY DEF ExecInv
<1>1. CASE revoker'[v] = revoker[v]
  <2>1. Deleted(d) /\ d.req \in Rules /\ Finished(d.req)
    BY <1>0, <1>a, <1>1 DEF RevokerClears, CleanIsFinished, ExecTypeOK, Deletions
  <2> QED
    BY <2>1, GoneStays DEF Deleted, Keys
<1>2. ASSUME NEW r \in Rules, Revoke(v, r)
      PROVE  Deleted(d)'
  <2> DEFINE known == IsGlobal(r) \/ (HasRow(r) /\ HostOf[r] \in DOMAIN targetIDs)
  <2>1. /\ d.req = r /\ Finished(r)
        /\ d.left = (IF known THEN PrefixesOf[r] ELSE << >>)
        /\ Running
    BY <1>0, <1>a, <1>2 DEF Revoke, ExecTypeOK, Running, Finished
  <2>2. \A h \in DOMAIN targetHosts \ DOMAIN targetIDs : \A p :
          <<targetHosts[h], p>> \notin DOMAIN srcBans
    <3>1. \A h \in DOMAIN targetHosts \ DOMAIN targetIDs : targetHosts[h] = nextTargetID
      BY <1>a, <2>1 DEF MemoryMatchesKernel
    <3>2. \A k \in DOMAIN srcBans : k[1] # nextTargetID
      BY <1>a, <2>1 DEF NextIdUnused
    <3> QED
      BY <3>1, <3>2
  <2>3. CASE known
    <3>1. Range(d.left) = Keys(r)
      BY <2>1, <2>3 DEF Range, Keys
    <3> QED
      BY <2>1, <3>1 DEF Deleted, Keys
  <2>4. CASE ~known
    <3>1. \A p : ~InKernel(r, p)
      BY <2>1, <2>2, <2>4 DEF Finished, InKernel
    <3>2. \A p : Gone(r, p)'
      BY <2>1, <3>1, GoneStays DEF Gone
    <3> QED
      BY <2>1, <3>2 DEF Deleted, Keys
  <2> QED
    BY <2>3, <2>4
<1>3. ASSUME Revoke_Delete(v), DeleteKey(revoker[v].req, Head(revoker[v].left)),
             revoker'[v] = [revoker[v] EXCEPT !.left = Tail(@)]
      PROVE  Deleted(d)'
  <2>1. revoker[v] # Free /\ revoker[v] \in Deletions /\ revoker[v].left # << >>
    BY <1>3, DeleteEffect
  <2>2. /\ d.req = revoker[v].req /\ d.left = Tail(revoker[v].left)
        /\ d.req \in Rules /\ revoker[v].left \in Seq(Prefixes) /\ revoker[v].settled
    BY <1>0, <1>3, <2>1 DEF Deletions
  <2>3. PICK p : p = Head(revoker[v].left)
    OBVIOUS
  <2>4. Range(revoker[v].left) = {p} \union Range(d.left)
    BY <2>1, <2>2, <2>3, HeadAndRest
  <2>5. Deleted(revoker[v]) /\ Finished(d.req)
    BY <1>a, <2>1, <2>2 DEF RevokerClears, CleanIsFinished
  <2>6. Gone(d.req, p)'
    <3>1. ~InKernel(d.req, p)'
      BY <1>3, <2>2, <2>3, KeyDeleted DEF ExecInv
    <3> QED
      BY <3>1 DEF Gone
  <2>7. \A x \in Keys(d.req) : x # p /\ x \notin Range(d.left) => Gone(d.req, x)'
    BY <2>2, <2>4, <2>5, GoneStays DEF Deleted
  <2> QED
    BY <2>6, <2>7 DEF Deleted, Keys
<1> QED
  BY <1>1, <1>2, <1>3, RevokerEffect

\* A rollback is clean when all its keys are gone, and they stay so.
LEMMA CleanStep == ExecInv /\ [ExecNext]_execVars => CleanRollbackHolds'
<1> SUFFICES ASSUME ExecInv, [ExecNext]_execVars, NEW r \in Rules, rollback'[r] = "clean",
                    NEW p \in Keys(r)
             PROVE  Gone(r, p)'
  BY DEF CleanRollbackHolds, Gone, Keys
<1>1. CASE rollback[r] = "clean"
  <2>1. Finished(r) /\ Gone(r, p)
    BY <1>1 DEF ExecInv, CleanIsFinished, CleanRollbackHolds, Gone
  <2> QED
    BY <2>1, GoneStays
<1>2. ASSUME NEW v \in Revokers, revoker[v] # Free, revoker[v].settled,
             revoker[v].req = r, revoker[v].left = << >>
      PROVE  Gone(r, p)'
  <2>1. Finished(r) /\ Deleted(revoker[v])
    BY <1>2 DEF ExecInv, CleanIsFinished, RevokerClears
  <2>2. Gone(r, p)
    BY <1>2, <2>1 DEF Deleted, Range
  <2> QED
    BY <2>1, <2>2, GoneStays
<1> QED
  BY <1>1, <1>2, CleanEffect

\* What the first process finds.
LEMMA InitInv == ExecInit => ExecInv
<1> SUFFICES ASSUME ExecInit
             PROVE  ExecInv
  OBVIOUS
<1>1. globalBans = << >> /\ targetHosts = << >> /\ srcBans = << >> /\ now = 0
  BY DEF ExecInit, KernelInit
<1>2. batch = {} /\ job = NoJob /\ process = "up" /\ targetIDs = << >> /\ nextTargetID = 1
  BY DEF ExecInit
<1>3. KernelTypeOK
  BY <1>1, KernelAssumption DEF KernelTypeOK
<1>4. ExecTypeOK
  <2>1. dispatches \in Seq(Row) /\ acked = {} /\ failed = {} /\ lost = {} /\ faults = 0
        /\ pinned \in BOOLEAN
    BY DEF ExecInit
  <2>2. revoker \in [Revokers -> {Free} \union Deletions]
    BY DEF ExecInit
  <2>3. rollback \in [Rules -> {"no", "begun", "late", "clean"}]
    BY DEF ExecInit
  <2> QED
    BY <1>2, <1>3, <2>1, <2>2, <2>3, JobsTyped DEF ExecTypeOK, TargetIds
<1>5. JobHasRow /\ JobKnowsTarget
  BY <1>2, JobsTyped DEF JobHasRow, JobKnowsTarget, Running, Writing
<1>6. MemoryMatchesKernel /\ LargestIdExists /\ TargetIdsUnique
  BY <1>1, <1>2 DEF MemoryMatchesKernel, LargestIdExists, TargetIdsUnique
<1>7. KeysHaveTarget /\ NextIdUnused /\ ScopedRuleStaysOnItsHost
  BY <1>1 DEF KeysHaveTarget, NextIdUnused, ScopedRuleStaysOnItsHost
<1>8. JobWrites /\ AckedIsEnforced
  BY <1>2 DEF ExecInit, JobWrites, AckedIsEnforced
<1>9. rollback = [r \in Rules |-> "no"] /\ revoker = [v \in Revokers |-> Free]
  BY DEF ExecInit
<1>10. RevokerAims /\ CleanIsFinished /\ RevokerClears /\ CleanRollbackHolds
  BY <1>9 DEF RevokerAims, CleanIsFinished, RevokerClears, CleanRollbackHolds
<1> QED
  BY <1>4, <1>5, <1>6, <1>7, <1>8, <1>10 DEF ExecInv

\* The parts together are inductive.
LEMMA StepInv == ExecInv /\ [ExecNext]_execVars => ExecInv'
<1> SUFFICES ASSUME ExecInv, [ExecNext]_execVars
             PROVE  ExecInv'
  OBVIOUS
<1> QED
  BY ExecTypeStep, TargetStep, JobStep, KeyStep, NextIdStep, JobWritesStep, AckedStep, RevokerAimsStep,
     FinishedStep, RevokerClearsStep, CleanStep DEF ExecInv

\* The inductive invariant holds of every reachable state.
LEMMA InvHolds == ExecSpec => []ExecInv
<1> QED
  BY InitInv, StepInv, PTL DEF ExecSpec

-----------------------------------------------------------------------------
(* The theorems.                                                           *)

\* Rows, maps, tables and rollbacks stay well formed; a row is never both acked and
\* failed, and the loop holds pending rows only.
THEOREM ExecTypeCorrect == ExecSpec => []ExecTypeOK
<1>1. ExecInv => ExecTypeOK
  BY DEF ExecInv
<1> QED
  BY <1>1, InvHolds, PTL

\* No two hosts ever share a target id, whatever crashes and restarts lie between
\* the two allocations.
THEOREM TargetIdsStayUnique == ExecSpec => []TargetIdsUnique
<1>1. ExecInv => TargetIdsUnique
  BY DEF ExecInv
<1> QED
  BY <1>1, InvHolds, PTL

\* While the process runs its table is the one in the kernel, and the next id is free.
THEOREM MemoryFollowsKernel == ExecSpec => []MemoryMatchesKernel
<1>1. ExecInv => MemoryMatchesKernel
  BY DEF ExecInv
<1> QED
  BY <1>1, InvHolds, PTL

\* No scoped rule acts on packets to another host than the one it was approved for.
THEOREM ScopedRulesStay == ExecSpec => []ScopedRuleStaysOnItsHost
<1>1. ExecInv => ScopedRuleStaysOnItsHost
  BY DEF ExecInv
<1> QED
  BY <1>1, InvHolds, PTL

\* Acked means in the kernel, until the maps are emptied or the key is rolled back.
THEOREM AckedStaysEnforced == ExecSpec => []AckedIsEnforced
<1>1. ExecInv => AckedIsEnforced
  BY DEF ExecInv
<1> QED
  BY <1>1, InvHolds, PTL

\* A rollback that began once the executor was done with the request is final.
THEOREM CleanRollbackStays == ExecSpec => []CleanRollbackHolds
<1>1. ExecInv => CleanRollbackHolds
  BY DEF ExecInv
<1> QED
  BY <1>1, InvHolds, PTL

\* A rule that reaches the map within the lifetime counted from the start of Apply
\* lets nothing through, whatever ticks, rollbacks and registrations lie between.
LEMMA PutHolds ==
  ASSUME ExecInv, NEW i \in batch,
         ensureTarget_Put(i) \/ (Apply_Put(i) /\ InTime(job.at, dispatches[i].ttl))
  PROVE  Dropped \subseteq Dropped'
<1>a. ExecTypeOK /\ KernelTypeOK /\ JobHasRow /\ JobKnowsTarget
  BY DEF ExecInv, ExecTypeOK
<1> DEFINE r == dispatches[i].req
           ttl == dispatches[i].ttl
           h == HostOf[r]
<1>b. r \in Rules /\ ttl \in Nat /\ h \in Hosts \union {NoHost}
  BY <1>a, RowTyped
<1>1. CASE UNCHANGED kernelVars
  BY <1>1, StillDropped
<1>2. CASE ensureTarget_Put(i)
  <2>1. Running /\ Current(i) /\ job.stage = "target" /\ h \notin DOMAIN targetIDs
    BY <1>a, <1>2 DEF ensureTarget_Put, JobHasRow
  <2>2. h \in Hosts \ DOMAIN targetHosts
    BY <1>a, <1>b, <2>1, KernelHosts DEF JobKnowsTarget, IsGlobal
  <2>3. nextTargetID \in TargetIds
    BY <1>a DEF ExecTypeOK
  <2>4. UNCHANGED kernelVars \/ (PutTarget(h, nextTargetID) /\ UNCHANGED now)
    BY <1>2 DEF ensureTarget_Put, NewTargetId
  <2> QED
    BY <1>1, <2>2, <2>3, <2>4, RegistrationHolds
<1>3. CASE Apply_Put(i) /\ InTime(job.at, ttl)
  <2> DEFINE v == EncodeValue(job.at, ttl, r)
  <2>1. job.at \in Nat /\ now \in Nat
    BY <1>a DEF ExecTypeOK, Jobs, KernelTypeOK
  <2>2. v \in Values /\ ~is_expired(v)
    BY <1>b, <1>3, <2>1, EncodedIsValue, InTimeAlive
  <2>3. Head(job.left) \in Prefixes
    <3>1. Head(job.left) \in Keys(r)
      BY <1>3, PutEffect
    <3> QED
      BY <1>b, <3>1, PrefixesTyped, LenProperties DEF Keys
  <2>4. UNCHANGED kernelVars \/ (WriteKey(r, Head(job.left), v) /\ UNCHANGED now)
    BY <1>3, PutEffect
  <2>5. HostOf[r] \in DOMAIN targetHosts => targetHosts[HostOf[r]] \in TargetIds
    BY <1>a DEF KernelTypeOK
  <2> HIDE DEF v, r
  <2> QED
    BY <1>1, <1>a, <2>2, <2>3, <2>4, <2>5, GlobalWriteHolds, ScopedWriteHolds DEF WriteKey
<1> QED
  BY <1>2, <1>3

\* A Put of the loop that is in time never releases, and neither does a host that
\* gets its id (Apply and ensureTarget in executor.go).
THEOREM PutsHoldInTime == ExecSpec => PutsInTimeHold
<1>1. ExecInv /\ [ExecNext]_execVars =>
        [\A i \in batch :
           \/ ensureTarget_Put(i)
           \/ Apply_Put(i) /\ InTime(job.at, dispatches[i].ttl)
           => Dropped \subseteq Dropped']_execVars
  BY PutHolds
<1> QED
  BY <1>1, InvHolds, PTL DEF ExecSpec, PutsInTimeHold

\* The loop, the rollbacks and the crashes between them issue the map calls that
\* KernelMaps speaks of: what it promises of time and of rollbacks, and of what
\* `why` and `status` report, holds of the daemon.
THEOREM DaemonKeepsMapPromises ==
  ExecSpec => /\ TimeOnlyReleases /\ LiveRollbackOnlyReleases
              /\ []WhyMissesOnlyTheLastInstant /\ []StatusListsEveryBlock
<1>1. ExecInv /\ [ExecNext]_execVars => MapStep /\ KernelTypeOK
  BY ExecMapStep DEF ExecInv, ExecTypeOK
<1>2. ExecInv /\ [ExecNext]_execVars =>
        [TimeReleases]_kernelVars /\ [LiveRollbackReleases]_kernelVars
  BY <1>1, StepReleases, StepLiveReleases
<1>3. ExecInv => WhyMissesOnlyTheLastInstant /\ StatusListsEveryBlock
  BY WhySeesDrops, StatusSeesDrops DEF ExecInv, ExecTypeOK
<1> QED
  BY <1>2, <1>3, InvHolds, PTL
     DEF ExecSpec, TimeOnlyReleases, LiveRollbackOnlyReleases, TimeReleases, LiveRollbackReleases

=============================================================================
