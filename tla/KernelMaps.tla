----------------------------- MODULE KernelMaps -----------------------------
(***************************************************************************)
(* The data plane of xdp-ban: the three BPF maps the daemon writes, the    *)
(* XDP program that reads them for every packet, and the verdict that      *)
(* `xdp-ban why` gives for a source address.                               *)
(*                                                                         *)
(*   src_ban_global  LPM trie    source prefix              -> ban_value   *)
(*   target_hosts    hash        protected host             -> target id   *)
(*   src_ban         LPM trie    (target id, source prefix) -> ban_value   *)
(*                                                                         *)
(* A map is a function whose domain is the set of keys it holds.  Source   *)
(* addresses have AddrBits bits, so that longest-prefix matching is        *)
(* modelled by what it does; destination hosts are only ever compared for  *)
(* equality and are abstract.  `now` is the clock that bpf_ktime_get_ns    *)
(* and the daemon's uptime both read.                                      *)
(***************************************************************************)
EXTENDS AddressSpace, FiniteSets, Functions

CONSTANTS Hosts,     \* destination hosts
          Rules,     \* rule ids: ids of ban requests
          TTLs,      \* lifetimes a ban may have, 0 is permanent
          MaxTime    \* bound on the clock

ASSUME KernelAssumption ==
  /\ TTLs \subseteq Nat
  /\ MaxTime \in Nat

VARIABLES globalBans, targetHosts, srcBans, now

kernelMaps == <<globalBans, targetHosts, srcBans>>
kernelVars == <<globalBans, targetHosts, srcBans, now>>

-----------------------------------------------------------------------------
(* Map values.                                                             *)

TargetIds == Nat \ {0}

Values == [expires : Nat, rule : Rules]

\* A fault: the TTL is written as it is, not as a point on the kernel's clock.
RelativeDeadline(at, ttl) == ttl

\* A fault: the TTL is taken off the clock.
SubtractedDeadline(at, ttl) == IF ttl = 0 THEN 0 ELSE at - ttl

\* banmap.KtimeDeadline: ktime at which a ban with this TTL ends, where the
\* clock read `at`.
KtimeDeadline(at, ttl) == IF ttl = 0 THEN 0 ELSE at + ttl

EncodeValue(at, ttl, rule) == [expires |-> KtimeDeadline(at, ttl), rule |-> rule]

\* The lifetime that began at `at` is not over.
InTime(at, ttl) == ttl = 0 \/ now <= at + ttl

-----------------------------------------------------------------------------
(* The XDP program.                                                        *)

\* A fault: the comparison is the wrong way round.
NotYetExpired(v) == v.expires # 0 /\ now < v.expires

is_expired(v) == v.expires # 0 /\ now > v.expires

\* What an LPM trie lookup with a full-length key finds: no key, or the
\* longest prefix that covers the address.
LongestMatch(keys, a) ==
  { p \in keys : Covers(p, a) /\ \A q \in keys : Covers(q, a) => q.len <= p.len }

\* The keys of src_ban that carry this target id.  Every key is at least 32
\* bits long, so a lookup never crosses from one target id to another.
ScopedKeys(tid) == { p \in Prefixes : <<tid, p>> \in DOMAIN srcBans }

GlobalHit(sa) == LongestMatch(DOMAIN globalBans, sa)

ScopedHit(sa, tid) == LongestMatch(ScopedKeys(tid), sa)

\* A fault: the negation is lost.
ScopedEnded(sa, tid) == \E p \in ScopedHit(sa, tid) : is_expired(srcBans[<<tid, p>>])

\* A fault: so it is in the global table.
GlobalEnded(sa) == \E p \in GlobalHit(sa) : is_expired(globalBans[p])

GlobalLive(sa) == \E p \in GlobalHit(sa) : ~is_expired(globalBans[p])

ScopedLive(sa, tid) == \E p \in ScopedHit(sa, tid) : ~is_expired(srcBans[<<tid, p>>])

\* The counter xdp_filter bumps for an IPv4 packet from sa to da.  It drops
\* the packet exactly when that counter is "dropped".  A hit in the global
\* table ends the search, whether the entry is alive or not.
xdp_filter(sa, da) ==
  CASE GlobalHit(sa) # {} -> IF GlobalLive(sa) THEN "dropped" ELSE "expired"
    [] GlobalHit(sa) = {} /\ da \notin DOMAIN targetHosts -> "not_target"
    [] OTHER -> IF ScopedHit(sa, targetHosts[da]) = {} THEN "passed"
                ELSE IF ScopedLive(sa, targetHosts[da]) THEN "dropped" ELSE "expired"

Dropped == { f \in Addresses \X Hosts : xdp_filter(f[1], f[2]) = "dropped" }

-----------------------------------------------------------------------------
(* `xdp-ban why <ip>`: what the operator is told about a source address.   *)

\* A fault: the deadline is compared before it is known to be one.
ZeroIsPast(v) == IF v.expires <= now THEN "expired" ELSE "live"

\* banmap.ClassifyTTL.  The boundary differs from is_expired by one instant.
ClassifyTTL(v) ==
  CASE v.expires = 0 -> "permanent"
    [] v.expires # 0 /\ v.expires <= now -> "expired"
    [] OTHER -> "live"

LiveForWhy(v) == ClassifyTTL(v) # "expired"

\* A fault: why looks only at the global table.
WhyGlobalOnly(sa) == \E p \in GlobalHit(sa) : LiveForWhy(globalBans[p])

\* writeWhy's result, the exit code 2 of the command.
writeWhy(sa) ==
  \/ \E p \in GlobalHit(sa) : LiveForWhy(globalBans[p])
  \/ \E h \in DOMAIN targetHosts : \E p \in ScopedHit(sa, targetHosts[h]) :
       LiveForWhy(srcBans[<<targetHosts[h], p>>])

-----------------------------------------------------------------------------
(* `xdp-ban status`: every entry of the maps, with the hosts it applies to. *)

Entry(p, hosts, v) == [from |-> p, to |-> hosts, state |-> ClassifyTTL(v), ends |-> v.expires]

globalEntries == { Entry(p, Hosts, globalBans[p]) : p \in DOMAIN globalBans }

\* The name of a target id: none if target_hosts no longer has it.
targetEntries(tid) == { h \in DOMAIN targetHosts : targetHosts[h] = tid }

scopedEntries == { Entry(k[2], targetEntries(k[1]), srcBans[k]) : k \in DOMAIN srcBans }

writeStatus == globalEntries \union scopedEntries

-----------------------------------------------------------------------------
(* The map operations the daemon issues, one system call each.             *)

KernelInit ==
  /\ globalBans = << >>
  /\ targetHosts = << >>
  /\ srcBans = << >>
  /\ now = 0

SetKey(m, k, v) == [x \in DOMAIN m \union {k} |-> IF x = k THEN v ELSE m[x]]
DropKey(m, k)   == [x \in DOMAIN m \ {k} |-> m[x]]

PutGlobal(p, v) ==
  /\ globalBans' = SetKey(globalBans, p, v)
  /\ UNCHANGED <<targetHosts, srcBans>>

PutTarget(h, tid) ==
  /\ targetHosts' = SetKey(targetHosts, h, tid)
  /\ UNCHANGED <<globalBans, srcBans>>

PutScoped(tid, p, v) ==
  /\ srcBans' = SetKey(srcBans, <<tid, p>>, v)
  /\ UNCHANGED <<globalBans, targetHosts>>

\* Deleting a key that is not there is not an error for the callers.
DeleteGlobal(p) ==
  /\ globalBans' = DropKey(globalBans, p)
  /\ UNCHANGED <<targetHosts, srcBans>>

DeleteScoped(tid, p) ==
  /\ srcBans' = DropKey(srcBans, <<tid, p>>)
  /\ UNCHANGED <<globalBans, targetHosts>>

KernelTick == now < MaxTime /\ now' = now + 1 /\ UNCHANGED kernelMaps

-----------------------------------------------------------------------------
(* The maps on their own: any sequence of the calls above.  A value is      *)
(* encoded when Apply begins, with the clock of that moment, and written    *)
(* later, after other calls: `at` is any earlier reading of the clock.      *)

ApplyGlobal(at, ttl) == \E p \in Prefixes, r \in Rules :
  PutGlobal(p, EncodeValue(at, ttl, r)) /\ UNCHANGED now

RevokeGlobal == \E p \in DOMAIN globalBans : DeleteGlobal(p) /\ UNCHANGED now

RegisterTarget == \E h \in Hosts \ DOMAIN targetHosts :
  PutTarget(h, Cardinality(DOMAIN targetHosts) + 1) /\ UNCHANGED now

ApplyScoped(at, ttl) == \E h \in DOMAIN targetHosts, p \in Prefixes, r \in Rules :
  PutScoped(targetHosts[h], p, EncodeValue(at, ttl, r)) /\ UNCHANGED now

RevokeScoped == \E k \in DOMAIN srcBans : DeleteScoped(k[1], k[2]) /\ UNCHANGED now

KernelNext ==
  \/ \E at \in 0..now, ttl \in TTLs : ApplyGlobal(at, ttl) \/ ApplyScoped(at, ttl)
  \/ RevokeGlobal
  \/ RegisterTarget
  \/ RevokeScoped
  \/ KernelTick

KernelSpec == KernelInit /\ [][KernelNext]_kernelVars

-----------------------------------------------------------------------------
(* Properties.                                                             *)

KernelTypeOK ==
  /\ now \in 0..MaxTime
  /\ DOMAIN globalBans \subseteq Prefixes
  /\ \A p \in DOMAIN globalBans : globalBans[p] \in Values
  /\ DOMAIN targetHosts \subseteq Hosts
  /\ \A h \in DOMAIN targetHosts : targetHosts[h] \in TargetIds
  /\ DOMAIN srcBans \subseteq TargetIds \X Prefixes
  /\ \A k \in DOMAIN srcBans : srcBans[k] \in Values

\* The passing of time only ever lets traffic through: no packet that passes
\* starts to be dropped because an entry expired.  Entries are never deleted
\* when they expire, so this is about what an expired entry hides.
TimeOnlyReleases == [][now' # now => Dropped' \subseteq Dropped]_kernelVars

\* A ban that reaches the map while its lifetime lasts never lets a packet
\* through that was dropped before, whatever it overwrites or comes to hide.
\* (One that is late does: the value is dead when it is written, and the entry
\* it overwrites or hides may have been alive.)  Nor does a new target id.
WritesInTimeNeverRelease ==
  [][(\/ \E at \in 0..now, ttl \in TTLs : InTime(at, ttl) /\ (ApplyGlobal(at, ttl) \/ ApplyScoped(at, ttl))
      \/ RegisterTarget)
     => Dropped \subseteq Dropped']_kernelVars

\* Rolling back a rule that is alive, of either table, never starts to drop a
\* packet: whatever entry the deleted one was hiding, its packets were already
\* dropped.  (It is not so for an expired rule: the entry it hid comes back.)
LiveRollbackOnlyReleases ==
  [][(\/ \E p \in DOMAIN globalBans \ DOMAIN globalBans' : ~is_expired(globalBans[p])
      \/ \E k \in DOMAIN srcBans \ DOMAIN srcBans' : ~is_expired(srcBans[k]))
     => Dropped' \subseteq Dropped]_kernelVars

\* `why` misses a drop only at the very instant the entry ends, where
\* ClassifyTTL and the kernel disagree: the exit code 0 says "not banned".
WhyMissesOnlyTheLastInstant ==
  \A f \in Dropped :
    \/ writeWhy(f[1])
    \/ \E p \in GlobalHit(f[1]) : globalBans[p].expires = now
    \/ \E h \in DOMAIN targetHosts : \E p \in ScopedHit(f[1], targetHosts[h]) :
         srcBans[<<targetHosts[h], p>>].expires = now

\* `status` lists, as live, an entry behind every packet that is dropped (but
\* at the same last instant): an operator who finds no live entry for a source
\* and a host may look for the cause elsewhere, as the output says.
StatusListsEveryBlock ==
  \A f \in Dropped : \E e \in writeStatus :
    Covers(e.from, f[1]) /\ f[2] \in e.to /\ (e.state # "expired" \/ e.ends = now)

\* What layout.go says of a permanent entry: the kernel never lets its traffic
\* pass.  It does, where a longer prefix has expired.
PermanentNeverPasses ==
  \A p \in DOMAIN globalBans, f \in Addresses \X Hosts :
    globalBans[p].expires = 0 /\ Covers(p, f[1]) => f \in Dropped

=============================================================================
