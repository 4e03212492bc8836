-------------------------- MODULE KernelMapsProofs --------------------------
(***************************************************************************)
(* Theorems about KernelMaps, for any width of an address, any hosts, rules *)
(* and lifetimes: what a packet meets is one entry per table, so that time, *)
(* writes and rollbacks move the verdicts in one direction only, and `why`  *)
(* and `status` speak of the entries the XDP program finds.                 *)
(***************************************************************************)
EXTENDS KernelMaps, FiniteSetTheorems, TLAPS

-----------------------------------------------------------------------------
(* Lookups and verdicts.                                                   *)

\* What xdp_filter drops: a packet with a live longest match in the global
\* table, or one without a match there and with a live one in its host's.
Stopped(sa, da) ==
  \/ GlobalLive(sa)
  \/ /\ GlobalHit(sa) = {}
     /\ da \in DOMAIN targetHosts
     /\ ScopedLive(sa, targetHosts[da])

\* The verdict of the program, as conditions on the three maps.
LEMMA DroppedIsStopped ==
  \A f : f \in Dropped <=> f \in Addresses \X Hosts /\ Stopped(f[1], f[2])
<1> SUFFICES ASSUME NEW f \in Addresses \X Hosts
             PROVE  xdp_filter(f[1], f[2]) = "dropped" <=> Stopped(f[1], f[2])
  BY DEF Dropped
<1>1. GlobalLive(f[1]) => GlobalHit(f[1]) # {}
  BY DEF GlobalLive
<1>2. ScopedLive(f[1], targetHosts[f[2]]) => ScopedHit(f[1], targetHosts[f[2]]) # {}
  BY DEF ScopedLive
<1>3. CASE GlobalHit(f[1]) # {}
  BY <1>3 DEF xdp_filter, Stopped
<1>4. CASE GlobalHit(f[1]) = {} /\ f[2] \notin DOMAIN targetHosts
  BY <1>1, <1>4 DEF xdp_filter, Stopped
<1>5. CASE GlobalHit(f[1]) = {} /\ f[2] \in DOMAIN targetHosts
  BY <1>1, <1>2, <1>5 DEF xdp_filter, Stopped
<1> QED
  BY <1>3, <1>4, <1>5

\* The same after a step.
LEMMA DroppedIsStoppedNext ==
  \A f : f \in Dropped' <=> f \in Addresses \X Hosts /\ Stopped(f[1], f[2])'
<1>1. (\A f : f \in Dropped <=> f \in Addresses \X Hosts /\ Stopped(f[1], f[2]))'
  BY DroppedIsStopped, PTL
<1> QED
  BY <1>1

\* A new key is found where it reaches deeper than what was found before, and
\* hides nothing else.
LEMMA MatchAdded ==
  ASSUME NEW keys \in SUBSET Prefixes, NEW p \in Prefixes, NEW a
  PROVE  /\ \A q \in LongestMatch(keys \union {p}, a) : q = p \/ q \in LongestMatch(keys, a)
         /\ \A q \in LongestMatch(keys, a) :
              \/ q \in LongestMatch(keys \union {p}, a)
              \/ p \in LongestMatch(keys \union {p}, a)
<1>1. \A q \in Prefixes : q.len \in Int
  BY AddressAssumption DEF Prefixes, Masked, AddressAssumption
<1>2. ASSUME NEW q \in LongestMatch(keys, a), Covers(p, a), q.len < p.len
      PROVE  p \in LongestMatch(keys \union {p}, a)
  <2>1. \A r \in keys : Covers(r, a) => r.len <= q.len
    BY DEF LongestMatch
  <2>2. q \in keys
    BY DEF LongestMatch
  <2>3. \A r \in keys \union {p} : Covers(r, a) => r.len <= p.len
    BY <1>1, <1>2, <2>1, <2>2
  <2> QED
    BY <1>2, <2>3 DEF LongestMatch
<1>3. ASSUME NEW q \in LongestMatch(keys, a), ~(Covers(p, a) /\ q.len < p.len)
      PROVE  q \in LongestMatch(keys \union {p}, a)
  BY <1>1, <1>3 DEF LongestMatch
<1>4. \A q \in LongestMatch(keys \union {p}, a) : q = p \/ q \in LongestMatch(keys, a)
  BY DEF LongestMatch
<1> QED
  BY <1>2, <1>3, <1>4

\* A deleted key uncovers another one only where it was found itself.
LEMMA MatchRemoved ==
  ASSUME NEW keys \in SUBSET Prefixes, NEW p, NEW a
  PROVE  /\ \A q \in LongestMatch(keys, a) : q # p => q \in LongestMatch(keys \ {p}, a)
         /\ p \notin LongestMatch(keys, a) =>
              \A q \in LongestMatch(keys \ {p}, a) : q \in LongestMatch(keys, a)
<1>1. \A q \in Prefixes : q.len \in Int
  BY AddressAssumption DEF Prefixes, Masked, AddressAssumption
<1>2. \A q \in LongestMatch(keys, a) : q # p => q \in LongestMatch(keys \ {p}, a)
  BY DEF LongestMatch
<1>3. ASSUME p \notin LongestMatch(keys, a), NEW q \in LongestMatch(keys \ {p}, a)
      PROVE  q \in LongestMatch(keys, a)
  <2>1. q \in keys /\ Covers(q, a) /\ \A r \in keys \ {p} : Covers(r, a) => r.len <= q.len
    BY DEF LongestMatch
  <2>2. CASE p \in keys /\ Covers(p, a)
    <3>1. PICK r \in keys : Covers(r, a) /\ ~(r.len <= p.len)
      BY <1>3, <2>2 DEF LongestMatch
    <3>2. r.len <= q.len
      BY <1>1, <2>1, <2>2, <3>1
    <3>3. p.len <= q.len
      BY <1>1, <2>1, <2>2, <3>1, <3>2
    <3> QED
      BY <2>1, <3>3 DEF LongestMatch
  <2>3. CASE ~(p \in keys /\ Covers(p, a))
    BY <2>1, <2>3 DEF LongestMatch
  <2> QED
    BY <2>2, <2>3
<1> QED
  BY <1>2, <1>3

-----------------------------------------------------------------------------
(* Steps on the maps.                                                      *)

\* Whatever the clock said when it was encoded, a value has its shape ...
LEMMA EncodedIsValue ==
  ASSUME NEW at \in Nat, NEW ttl \in Nat, NEW r \in Rules
  PROVE  EncodeValue(at, ttl, r) \in Values
BY DEF EncodeValue, KtimeDeadline, Values

\* ... and it is alive as long as its lifetime lasts.
LEMMA InTimeAlive ==
  ASSUME now \in Nat, NEW at \in Nat, NEW ttl \in Nat, NEW r \in Rules, InTime(at, ttl)
  PROVE  ~is_expired(EncodeValue(at, ttl, r))
BY DEF EncodeValue, KtimeDeadline, InTime, is_expired

\* One call on the maps, as the daemon and the clock issue them, or the loss of
\* all three.
MapStep ==
  \/ \E p \in Prefixes, v \in Values : PutGlobal(p, v) /\ UNCHANGED now
  \/ \E p \in Prefixes : DeleteGlobal(p) /\ UNCHANGED now
  \/ \E h \in Hosts \ DOMAIN targetHosts, tid \in TargetIds : PutTarget(h, tid) /\ UNCHANGED now
  \/ \E tid \in TargetIds, p \in Prefixes, v \in Values : PutScoped(tid, p, v) /\ UNCHANGED now
  \/ \E tid \in TargetIds, p \in Prefixes : DeleteScoped(tid, p) /\ UNCHANGED now
  \/ KernelTick
  \/ kernelMaps' = << << >>, << >>, << >> >> /\ UNCHANGED now
  \/ UNCHANGED kernelVars

\* Writes and deletes keep keys, values and ids well formed.
LEMMA MapStepType == KernelTypeOK /\ MapStep => KernelTypeOK'
<1> SUFFICES ASSUME KernelTypeOK, MapStep PROVE KernelTypeOK'
  OBVIOUS
<1> USE DEF KernelTypeOK
<1>1. ASSUME NEW p \in Prefixes, NEW v \in Values, PutGlobal(p, v), UNCHANGED now
      PROVE  KernelTypeOK'
  BY <1>1 DEF PutGlobal, SetKey
<1>2. ASSUME NEW p \in Prefixes, DeleteGlobal(p), UNCHANGED now PROVE KernelTypeOK'
  BY <1>2 DEF DeleteGlobal, DropKey
<1>3. ASSUME NEW h \in Hosts, NEW tid \in TargetIds, PutTarget(h, tid), UNCHANGED now
      PROVE  KernelTypeOK'
  BY <1>3 DEF PutTarget, SetKey
<1>4. ASSUME NEW tid \in TargetIds, NEW p \in Prefixes, NEW v \in Values,
             PutScoped(tid, p, v), UNCHANGED now
      PROVE  KernelTypeOK'
  BY <1>4 DEF PutScoped, SetKey
<1>5. ASSUME NEW tid \in TargetIds, NEW p \in Prefixes, DeleteScoped(tid, p), UNCHANGED now
      PROVE  KernelTypeOK'
  BY <1>5 DEF DeleteScoped, DropKey
<1>6. CASE KernelTick
  BY <1>6, KernelAssumption DEF KernelTick, kernelMaps, KernelAssumption
<1>7. CASE kernelMaps' = << << >>, << >>, << >> >> /\ UNCHANGED now
  BY <1>7 DEF kernelMaps
<1>8. CASE UNCHANGED kernelVars
  BY <1>8 DEF kernelVars
<1> QED
  BY <1>1, <1>2, <1>3, <1>4, <1>5, <1>6, <1>7, <1>8 DEF MapStep

\* Nothing changes where no map does and time stands still.
LEMMA StillDropped == UNCHANGED kernelVars => Dropped' = Dropped
BY DEF kernelVars, Dropped, xdp_filter, GlobalHit, GlobalLive, ScopedHit, ScopedLive, ScopedKeys,
       is_expired

\* What is alive after a tick was alive before it.
LEMMA TickReleases == KernelTypeOK /\ KernelTick => Dropped' \subseteq Dropped
<1> SUFFICES ASSUME KernelTypeOK, KernelTick, NEW f \in Dropped' PROVE f \in Dropped
  OBVIOUS
<1>1. f \in Addresses \X Hosts /\ Stopped(f[1], f[2])'
  BY DroppedIsStoppedNext
<1>2. UNCHANGED kernelMaps /\ now' = now + 1 /\ now \in Nat
  BY DEF KernelTick, KernelTypeOK
<1>4. GlobalHit(f[1])' = GlobalHit(f[1])
  BY <1>2 DEF kernelMaps, GlobalHit
<1>5. GlobalLive(f[1])' => GlobalLive(f[1])
  <2> SUFFICES ASSUME NEW p \in GlobalHit(f[1]), ~is_expired(globalBans[p])'
               PROVE  ~is_expired(globalBans[p])
    BY <1>4 DEF GlobalLive
  <2>1. globalBans[p] \in Values /\ globalBans' = globalBans
    BY <1>2 DEF kernelMaps, KernelTypeOK, GlobalHit, LongestMatch
  <2> QED
    BY <1>2, <2>1 DEF is_expired, Values
<1>6. ASSUME f[2] \in DOMAIN targetHosts, ScopedLive(f[1], targetHosts[f[2]])'
      PROVE  ScopedLive(f[1], targetHosts[f[2]])
  <2> DEFINE tid == targetHosts[f[2]]
  <2>1. tid' = tid /\ ScopedHit(f[1], tid)' = ScopedHit(f[1], tid)
    BY <1>2 DEF kernelMaps, ScopedHit, ScopedKeys
  <2> HIDE DEF tid
  <2>2. PICK p \in ScopedHit(f[1], tid) : ~is_expired(srcBans[<<tid, p>>])'
    BY <1>6, <2>1 DEF ScopedLive, tid
  <2>3. srcBans[<<tid, p>>] \in Values /\ srcBans' = srcBans
    BY <1>2 DEF kernelMaps, KernelTypeOK, ScopedHit, ScopedKeys, LongestMatch
  <2>4. ~is_expired(srcBans[<<tid, p>>])
    BY <1>2, <2>1, <2>2, <2>3 DEF is_expired, Values
  <2> QED
    BY <2>4 DEF ScopedLive, tid
<1>7. UNCHANGED <<globalBans, targetHosts, srcBans>>
  BY <1>2 DEF kernelMaps
<1>8. Stopped(f[1], f[2])
  BY <1>1, <1>4, <1>5, <1>6, <1>7 DEF Stopped
<1> QED
  BY <1>1, <1>8, DroppedIsStopped

\* A live entry that is written drops what it reaches and hides no live one that
\* does not drop the same packets.
LEMMA GlobalWriteHolds ==
  ASSUME KernelTypeOK, NEW p \in Prefixes, NEW v \in Values, ~is_expired(v),
         PutGlobal(p, v), UNCHANGED now
  PROVE  Dropped \subseteq Dropped'
<1> SUFFICES ASSUME NEW f \in Dropped PROVE f \in Dropped'
  OBVIOUS
<1> DEFINE sa == f[1]
<1>1. f \in Addresses \X Hosts /\ Stopped(sa, f[2])
  BY DroppedIsStopped
<1> SUFFICES Stopped(sa, f[2])'
  BY <1>1, DroppedIsStoppedNext
<1>2. /\ globalBans' = SetKey(globalBans, p, v)
      /\ UNCHANGED <<targetHosts, srcBans, now>>
  BY DEF PutGlobal
<1>3. /\ DOMAIN globalBans' = DOMAIN globalBans \union {p}
      /\ globalBans'[p] = v
      /\ \A q \in DOMAIN globalBans \ {p} : globalBans'[q] = globalBans[q]
  BY <1>2 DEF SetKey
<1>4. /\ \A q \in GlobalHit(sa)' : q = p \/ q \in GlobalHit(sa)
      /\ \A q \in GlobalHit(sa) : q \in GlobalHit(sa)' \/ p \in GlobalHit(sa)'
  <2>1. DOMAIN globalBans \in SUBSET Prefixes
    BY DEF KernelTypeOK
  <2>2. /\ GlobalHit(sa)' = LongestMatch(DOMAIN globalBans \union {p}, sa)
        /\ GlobalHit(sa) = LongestMatch(DOMAIN globalBans, sa)
    BY <1>3 DEF GlobalHit
  <2> QED
    BY <2>1, <2>2, MatchAdded
<1>5. p \in GlobalHit(sa)' => GlobalLive(sa)'
  BY <1>2, <1>3 DEF GlobalLive, is_expired
<1>6. CASE GlobalLive(sa)
  <2>1. PICK q \in GlobalHit(sa) : ~is_expired(globalBans[q])
    BY <1>6 DEF GlobalLive
  <2>2. CASE q \in GlobalHit(sa)' /\ q # p
    <3>1. globalBans'[q] = globalBans[q]
      BY <1>3, <2>2 DEF GlobalHit, LongestMatch
    <3>2. ~is_expired(globalBans[q])'
      BY <1>2, <2>1, <3>1 DEF is_expired
    <3> QED
      BY <2>2, <3>2 DEF GlobalLive, Stopped
  <2> QED
    BY <1>4, <1>5, <2>2 DEF Stopped
<1>7. CASE ~GlobalLive(sa)
  <2>1. /\ GlobalHit(sa) = {} /\ f[2] \in DOMAIN targetHosts
        /\ ScopedLive(sa, targetHosts[f[2]])
    BY <1>1, <1>7 DEF Stopped
  <2>2. ScopedLive(sa, targetHosts[f[2]])'
    BY <1>2, <2>1 DEF ScopedLive, ScopedHit, ScopedKeys, is_expired
  <2>3. GlobalHit(sa)' = {} \/ p \in GlobalHit(sa)'
    BY <1>4, <2>1
  <2> QED
    BY <1>2, <1>5, <2>1, <2>2, <2>3 DEF Stopped
<1> QED
  BY <1>6, <1>7

\* An unexpired value for a host takes no block away.
LEMMA ScopedWriteHolds ==
  ASSUME KernelTypeOK, NEW tid \in TargetIds, NEW p \in Prefixes, NEW v \in Values,
         ~is_expired(v), PutScoped(tid, p, v), UNCHANGED now
  PROVE  Dropped \subseteq Dropped'
<1> SUFFICES ASSUME NEW f \in Dropped PROVE f \in Dropped'
  OBVIOUS
<1> DEFINE sa == f[1]
<1>1. f \in Addresses \X Hosts /\ Stopped(sa, f[2])
  BY DroppedIsStopped
<1> SUFFICES Stopped(sa, f[2])'
  BY <1>1, DroppedIsStoppedNext
<1>2. /\ srcBans' = SetKey(srcBans, <<tid, p>>, v)
      /\ UNCHANGED <<globalBans, targetHosts, now>>
  BY DEF PutScoped
<1>3. /\ DOMAIN srcBans' = DOMAIN srcBans \union {<<tid, p>>}
      /\ srcBans'[<<tid, p>>] = v
      /\ \A k \in DOMAIN srcBans \ {<<tid, p>>} : srcBans'[k] = srcBans[k]
  BY <1>2 DEF SetKey
<1>4. GlobalHit(sa)' = GlobalHit(sa) /\ GlobalLive(sa)' = GlobalLive(sa)
  BY <1>2 DEF GlobalHit, GlobalLive, is_expired
<1>5. ASSUME NEW t, ScopedLive(sa, t) PROVE ScopedLive(sa, t)'
  <2>1. PICK q \in ScopedHit(sa, t) : ~is_expired(srcBans[<<t, q>>])
    BY <1>5 DEF ScopedLive
  <2>2. ScopedKeys(t)' = IF t = tid THEN ScopedKeys(t) \union {p} ELSE ScopedKeys(t)
    BY <1>3 DEF ScopedKeys
  <2>3. \/ q \in ScopedHit(sa, t)'
        \/ t = tid /\ p \in ScopedHit(sa, t)'
    <3>1. ScopedKeys(t) \in SUBSET Prefixes
      BY DEF ScopedKeys
    <3>2. \/ q \in LongestMatch(ScopedKeys(t) \union {p}, sa)
          \/ p \in LongestMatch(ScopedKeys(t) \union {p}, sa)
      BY <3>1, MatchAdded DEF ScopedHit
    <3> QED
      BY <2>1, <2>2, <3>2 DEF ScopedHit
  <2>4. CASE t = tid /\ p \in ScopedHit(sa, t)'
    BY <1>2, <1>3, <2>4 DEF ScopedLive, is_expired
  <2>5. CASE q \in ScopedHit(sa, t)' /\ ~(t = tid /\ q = p)
    <3>1. <<t, q>> \in DOMAIN srcBans /\ <<t, q>> # <<tid, p>>
      BY <2>1, <2>5 DEF ScopedHit, ScopedKeys, LongestMatch
    <3>2. srcBans'[<<t, q>>] = srcBans[<<t, q>>]
      BY <1>3, <3>1
    <3> QED
      BY <1>2, <2>1, <2>5, <3>2 DEF ScopedLive, is_expired
  <2> QED
    BY <2>3, <2>4, <2>5
<1>6. CASE GlobalLive(sa)
  BY <1>4, <1>6 DEF Stopped
<1>7. CASE ~GlobalLive(sa)
  <2>1. PICK t : t = targetHosts[f[2]] /\ t = targetHosts'[f[2]]
    BY <1>2
  <2>2. /\ GlobalHit(sa) = {} /\ f[2] \in DOMAIN targetHosts
        /\ ScopedLive(sa, t)
    BY <1>1, <1>7, <2>1 DEF Stopped
  <2>3. ScopedLive(sa, t)'
    BY <1>5, <2>2
  <2>4. ScopedLive(sa, targetHosts[f[2]])'
    BY <2>1, <2>3 DEF ScopedLive, ScopedHit, ScopedKeys
  <2> QED
    BY <1>2, <1>4, <2>2, <2>4 DEF Stopped
<1> QED
  BY <1>6, <1>7

\* A host that gets its id had no scoped bans in force.
LEMMA RegistrationHolds ==
  ASSUME NEW h \in Hosts \ DOMAIN targetHosts, NEW tid \in TargetIds,
         PutTarget(h, tid), UNCHANGED now
  PROVE  Dropped \subseteq Dropped'
<1> SUFFICES ASSUME NEW f \in Dropped PROVE f \in Dropped'
  OBVIOUS
<1>1. f \in Addresses \X Hosts /\ Stopped(f[1], f[2])
  BY DroppedIsStopped
<1>2. /\ UNCHANGED <<globalBans, srcBans, now>>
      /\ DOMAIN targetHosts \subseteq DOMAIN targetHosts'
      /\ \A g \in DOMAIN targetHosts : targetHosts'[g] = targetHosts[g]
  BY DEF PutTarget, SetKey
<1>3. GlobalHit(f[1])' = GlobalHit(f[1]) /\ GlobalLive(f[1])' = GlobalLive(f[1])
  BY <1>2 DEF GlobalHit, GlobalLive, is_expired
<1>4. ASSUME f[2] \in DOMAIN targetHosts, ScopedLive(f[1], targetHosts[f[2]])
      PROVE  f[2] \in DOMAIN targetHosts' /\ ScopedLive(f[1], targetHosts[f[2]])'
  BY <1>2, <1>4 DEF ScopedLive, ScopedHit, ScopedKeys, is_expired
<1>5. Stopped(f[1], f[2])'
  BY <1>1, <1>3, <1>4 DEF Stopped
<1> QED
  BY <1>1, <1>5, DroppedIsStoppedNext

\* Empty maps drop nothing.
LEMMA EmptyDropsNothing ==
  DOMAIN globalBans = {} /\ DOMAIN targetHosts = {} => Dropped = {}
<1> SUFFICES ASSUME DOMAIN globalBans = {}, DOMAIN targetHosts = {}, NEW f \in Dropped
             PROVE  FALSE
  OBVIOUS
<1>1. Stopped(f[1], f[2])
  BY DroppedIsStopped
<1> QED
  BY <1>1 DEF Stopped, GlobalLive, GlobalHit, LongestMatch

\* Cleared maps block nothing.
LEMMA EmptiedDropsNothing ==
  DOMAIN globalBans' = {} /\ DOMAIN targetHosts' = {} => Dropped' = {}
<1>1. (DOMAIN globalBans = {} /\ DOMAIN targetHosts = {} => Dropped = {})'
  BY EmptyDropsNothing, PTL
<1> QED
  BY <1>1

\* Where the deleted entry was the one found, it dropped the packet itself.
LEMMA LiveDeleteReleases ==
  ASSUME KernelTypeOK, NEW p \in DOMAIN globalBans, ~is_expired(globalBans[p]),
         DeleteGlobal(p), UNCHANGED now
  PROVE  Dropped' \subseteq Dropped
<1> SUFFICES ASSUME NEW f \in Dropped' PROVE f \in Dropped
  OBVIOUS
<1> DEFINE sa == f[1]
<1>1. f \in Addresses \X Hosts /\ Stopped(sa, f[2])'
  BY DroppedIsStoppedNext
<1> SUFFICES Stopped(sa, f[2])
  BY <1>1, DroppedIsStopped
<1>2. /\ DOMAIN globalBans' = DOMAIN globalBans \ {p}
      /\ \A q \in DOMAIN globalBans \ {p} : globalBans'[q] = globalBans[q]
      /\ UNCHANGED <<targetHosts, srcBans, now>>
  BY DEF DeleteGlobal, DropKey
<1>3. DOMAIN globalBans \in SUBSET Prefixes
  BY DEF KernelTypeOK
<1>4. CASE p \in GlobalHit(sa)
  BY <1>4 DEF GlobalLive, Stopped
<1>5. CASE p \notin GlobalHit(sa)
  <2>1. GlobalHit(sa)' = GlobalHit(sa)
    <3>1. GlobalHit(sa)' = LongestMatch(DOMAIN globalBans \ {p}, sa)
      BY <1>2 DEF GlobalHit
    <3>2. /\ \A q \in LongestMatch(DOMAIN globalBans, sa) :
               q # p => q \in LongestMatch(DOMAIN globalBans \ {p}, sa)
          /\ p \notin LongestMatch(DOMAIN globalBans, sa) =>
               \A q \in LongestMatch(DOMAIN globalBans \ {p}, sa) :
                 q \in LongestMatch(DOMAIN globalBans, sa)
      BY <1>3, MatchRemoved
    <3> QED
      BY <1>5, <3>1, <3>2 DEF GlobalHit
  <2>2. \A q \in GlobalHit(sa) : globalBans'[q] = globalBans[q]
    BY <1>2, <1>5 DEF GlobalHit, LongestMatch
  <2>3. GlobalLive(sa)' => GlobalLive(sa)
    BY <1>2, <2>1, <2>2 DEF GlobalLive, is_expired
  <2>4. ScopedLive(sa, targetHosts[f[2]])' => ScopedLive(sa, targetHosts[f[2]])
    BY <1>2 DEF ScopedLive, ScopedHit, ScopedKeys, is_expired
  <2> QED
    BY <1>1, <1>2, <2>1, <2>3, <2>4 DEF Stopped
<1> QED
  BY <1>4, <1>5

\* So it did where the deleted key is a host's: a packet meets one entry of the
\* host's, and the global table is as it was.
LEMMA LiveScopedDeleteReleases ==
  ASSUME KernelTypeOK, NEW tid, NEW p, <<tid, p>> \in DOMAIN srcBans,
         ~is_expired(srcBans[<<tid, p>>]), DeleteScoped(tid, p), UNCHANGED now
  PROVE  Dropped' \subseteq Dropped
<1> SUFFICES ASSUME NEW f \in Dropped' PROVE f \in Dropped
  OBVIOUS
<1> DEFINE sa == f[1]
<1>1. f \in Addresses \X Hosts /\ Stopped(sa, f[2])'
  BY DroppedIsStoppedNext
<1> SUFFICES Stopped(sa, f[2])
  BY <1>1, DroppedIsStopped
<1>2. /\ DOMAIN srcBans' = DOMAIN srcBans \ {<<tid, p>>}
      /\ \A k \in DOMAIN srcBans \ {<<tid, p>>} : srcBans'[k] = srcBans[k]
      /\ UNCHANGED <<globalBans, targetHosts, now>>
  BY DEF DeleteScoped, DropKey
<1>3. GlobalHit(sa)' = GlobalHit(sa) /\ GlobalLive(sa)' = GlobalLive(sa)
  BY <1>2 DEF GlobalHit, GlobalLive, is_expired
<1>4. ASSUME NEW t, ScopedLive(sa, t)' PROVE ScopedLive(sa, t)
  <2>1. PICK q \in ScopedHit(sa, t)' : ~is_expired(srcBans[<<t, q>>])'
    BY <1>4 DEF ScopedLive
  <2>2. ScopedKeys(t) \in SUBSET Prefixes
    BY DEF ScopedKeys
  <2>3. ScopedKeys(t)' = IF t = tid THEN ScopedKeys(t) \ {p} ELSE ScopedKeys(t)
    BY <1>2 DEF ScopedKeys
  <2>4. <<t, q>> \in DOMAIN srcBans'
    BY <2>1 DEF ScopedHit, ScopedKeys, LongestMatch
  <2>5. ~is_expired(srcBans[<<t, q>>])
    BY <1>2, <2>1, <2>4 DEF is_expired
  <2>6. CASE t = tid /\ p \in ScopedHit(sa, t)
    BY <2>6 DEF ScopedLive
  <2>7. CASE ~(t = tid /\ p \in ScopedHit(sa, t))
    <3>1. /\ p \notin LongestMatch(ScopedKeys(t), sa) =>
               \A x \in LongestMatch(ScopedKeys(t) \ {p}, sa) : x \in LongestMatch(ScopedKeys(t), sa)
      BY <2>2, MatchRemoved
    <3>2. q \in ScopedHit(sa, t)
      BY <2>1, <2>3, <2>7, <3>1 DEF ScopedHit
    <3> QED
      BY <2>5, <3>2 DEF ScopedLive
  <2> QED
    BY <2>6, <2>7
<1>5. ASSUME f[2] \in DOMAIN targetHosts, ScopedLive(sa, targetHosts[f[2]])'
      PROVE  ScopedLive(sa, targetHosts[f[2]])
  <2>1. PICK t : t = targetHosts[f[2]] /\ t = targetHosts'[f[2]]
    BY <1>2
  <2>2. ScopedLive(sa, t)'
    BY <1>5, <2>1 DEF ScopedLive, ScopedHit, ScopedKeys
  <2> QED
    BY <1>4, <2>1, <2>2
<1> QED
  BY <1>1, <1>2, <1>3, <1>5 DEF Stopped

-----------------------------------------------------------------------------
(* What a step on the maps may do to the verdicts.                          *)

TimeReleases == now' # now => Dropped' \subseteq Dropped

LiveRollbackReleases ==
  (\/ \E p \in DOMAIN globalBans \ DOMAIN globalBans' : ~is_expired(globalBans[p])
   \/ \E k \in DOMAIN srcBans \ DOMAIN srcBans' : ~is_expired(srcBans[k]))
  => Dropped' \subseteq Dropped

\* The passing of time only releases.
LEMMA StepReleases == KernelTypeOK /\ MapStep => TimeReleases
<1> SUFFICES ASSUME KernelTypeOK, MapStep, now' # now PROVE Dropped' \subseteq Dropped
  BY DEF TimeReleases
<1>1. KernelTick
  BY DEF MapStep, kernelVars
<1> QED
  BY <1>1, TickReleases

\* A step that removes a key of an unexpired value blocks nothing new.
LEMMA StepLiveReleases == KernelTypeOK /\ MapStep => LiveRollbackReleases
<1> SUFFICES ASSUME KernelTypeOK, MapStep,
                    \/ \E p \in DOMAIN globalBans \ DOMAIN globalBans' : ~is_expired(globalBans[p])
                    \/ \E k \in DOMAIN srcBans \ DOMAIN srcBans' : ~is_expired(srcBans[k])
             PROVE  Dropped' \subseteq Dropped
  BY DEF LiveRollbackReleases
<1>1. CASE kernelMaps' = << << >>, << >>, << >> >>
  BY <1>1, EmptiedDropsNothing DEF kernelMaps
<1>2. ASSUME kernelMaps' # << << >>, << >>, << >> >>,
             NEW p \in DOMAIN globalBans \ DOMAIN globalBans', ~is_expired(globalBans[p])
      PROVE  Dropped' \subseteq Dropped
  <2>1. PICK q \in Prefixes : DeleteGlobal(q) /\ UNCHANGED now
    BY <1>2 DEF MapStep, PutGlobal, PutTarget, PutScoped, DeleteScoped, KernelTick, kernelMaps,
                kernelVars, SetKey
  <2>2. q = p
    BY <1>2, <2>1 DEF DeleteGlobal, DropKey
  <2> QED
    BY <1>2, <2>1, <2>2, LiveDeleteReleases
<1>3. ASSUME kernelMaps' # << << >>, << >>, << >> >>,
             NEW k \in DOMAIN srcBans \ DOMAIN srcBans', ~is_expired(srcBans[k])
      PROVE  Dropped' \subseteq Dropped
  <2>1. PICK tid \in TargetIds, q \in Prefixes : DeleteScoped(tid, q) /\ UNCHANGED now
    BY <1>3 DEF MapStep, PutGlobal, PutTarget, PutScoped, DeleteGlobal, KernelTick, kernelMaps,
                kernelVars, SetKey
  <2>2. k = <<tid, q>>
    BY <1>3, <2>1 DEF DeleteScoped, DropKey
  <2> QED
    BY <1>3, <2>1, <2>2, LiveScopedDeleteReleases
<1> QED
  BY <1>1, <1>2, <1>3

-----------------------------------------------------------------------------
(* What the operator is told.                                              *)

\* ClassifyTTL calls an entry expired that the XDP program still obeys only at
\* its last instant.
LEMMA AliveIsListed ==
  ASSUME now \in Nat, NEW v \in Values, ~is_expired(v)
  PROVE  ClassifyTTL(v) # "expired" \/ v.expires = now
<1>1. v.expires = 0 \/ ~(v.expires <= now) \/ v.expires = now
  BY DEF is_expired, Values
<1>2. v.expires = 0 => ClassifyTTL(v) = "permanent"
  BY DEF ClassifyTTL
<1>3. v.expires # 0 /\ ~(v.expires <= now) => ClassifyTTL(v) = "live"
  BY DEF ClassifyTTL
<1> QED
  BY <1>1, <1>2, <1>3

\* Every dropped packet has an entry that drops it.
LEMMA DroppedHasEntry ==
  ASSUME KernelTypeOK, NEW f \in Dropped
  PROVE  \/ \E p \in GlobalHit(f[1]) :
              globalBans[p] \in Values /\ ~is_expired(globalBans[p])
         \/ /\ f[2] \in DOMAIN targetHosts
            /\ \E p \in ScopedHit(f[1], targetHosts[f[2]]) :
                 LET v == srcBans[<<targetHosts[f[2]], p>>] IN v \in Values /\ ~is_expired(v)
<1>1. Stopped(f[1], f[2])
  BY DroppedIsStopped
<1>2. \A p \in GlobalHit(f[1]) : globalBans[p] \in Values
  BY DEF GlobalHit, LongestMatch, KernelTypeOK
<1>3. \A p \in ScopedHit(f[1], targetHosts[f[2]]) : srcBans[<<targetHosts[f[2]], p>>] \in Values
  BY DEF ScopedHit, ScopedKeys, LongestMatch, KernelTypeOK
<1> QED
  BY <1>1, <1>2, <1>3 DEF Stopped, GlobalLive, ScopedLive

\* What `why` finds covers every block, but for the last instant.
LEMMA WhySeesDrops == KernelTypeOK => WhyMissesOnlyTheLastInstant
<1> SUFFICES ASSUME KernelTypeOK, NEW f \in Dropped
             PROVE  \/ writeWhy(f[1])
                    \/ \E p \in GlobalHit(f[1]) : globalBans[p].expires = now
                    \/ \E h \in DOMAIN targetHosts : \E p \in ScopedHit(f[1], targetHosts[h]) :
                         srcBans[<<targetHosts[h], p>>].expires = now
  BY DEF WhyMissesOnlyTheLastInstant
<1>1. now \in Nat
  BY DEF KernelTypeOK
<1>2. CASE \E p \in GlobalHit(f[1]) : globalBans[p] \in Values /\ ~is_expired(globalBans[p])
  BY <1>1, <1>2, AliveIsListed DEF writeWhy, LiveForWhy
<1>3. CASE /\ f[2] \in DOMAIN targetHosts
           /\ \E p \in ScopedHit(f[1], targetHosts[f[2]]) :
                LET v == srcBans[<<targetHosts[f[2]], p>>] IN v \in Values /\ ~is_expired(v)
  BY <1>1, <1>3, AliveIsListed DEF writeWhy, LiveForWhy
<1> QED
  BY <1>2, <1>3, DroppedHasEntry

\* So does what `status` lists.
LEMMA StatusSeesDrops == KernelTypeOK => StatusListsEveryBlock
<1> SUFFICES ASSUME KernelTypeOK, NEW f \in Dropped
             PROVE  \E e \in writeStatus :
                      Covers(e.from, f[1]) /\ f[2] \in e.to /\ (e.state # "expired" \/ e.ends = now)
  BY DEF StatusListsEveryBlock
<1>1. now \in Nat /\ f[2] \in Hosts
  BY DroppedIsStopped DEF KernelTypeOK
<1>2. ASSUME NEW p \in GlobalHit(f[1]), globalBans[p] \in Values, ~is_expired(globalBans[p])
      PROVE  \E e \in globalEntries :
               Covers(e.from, f[1]) /\ f[2] \in e.to /\ (e.state # "expired" \/ e.ends = now)
  <2> DEFINE e == Entry(p, Hosts, globalBans[p])
  <2>1. e \in globalEntries /\ Covers(p, f[1])
    BY DEF globalEntries, GlobalHit, LongestMatch
  <2>2. e.from = p /\ e.to = Hosts /\ e.state = ClassifyTTL(globalBans[p])
        /\ e.ends = globalBans[p].expires
    BY DEF Entry
  <2>3. ClassifyTTL(globalBans[p]) # "expired" \/ globalBans[p].expires = now
    BY <1>1, <1>2, AliveIsListed
  <2> QED
    BY <1>1, <2>1, <2>2, <2>3
<1>3. ASSUME f[2] \in DOMAIN targetHosts, NEW p \in ScopedHit(f[1], targetHosts[f[2]]),
             srcBans[<<targetHosts[f[2]], p>>] \in Values,
             ~is_expired(srcBans[<<targetHosts[f[2]], p>>])
      PROVE  \E e \in scopedEntries :
               Covers(e.from, f[1]) /\ f[2] \in e.to /\ (e.state # "expired" \/ e.ends = now)
  <2> DEFINE k == <<targetHosts[f[2]], p>>
             e == Entry(k[2], targetEntries(k[1]), srcBans[k])
  <2>1. k \in DOMAIN srcBans /\ Covers(p, f[1])
    BY DEF ScopedHit, ScopedKeys, LongestMatch
  <2>2. e \in scopedEntries /\ f[2] \in targetEntries(k[1])
    BY <1>3, <2>1 DEF scopedEntries, targetEntries
  <2>3. e.from = p /\ e.to = targetEntries(k[1]) /\ e.state = ClassifyTTL(srcBans[k])
        /\ e.ends = srcBans[k].expires
    BY DEF Entry
  <2>4. ClassifyTTL(srcBans[k]) # "expired" \/ srcBans[k].expires = now
    BY <1>1, <1>3, AliveIsListed
  <2> QED
    BY <2>1, <2>2, <2>3, <2>4
<1> QED
  BY <1>2, <1>3, DroppedHasEntry DEF writeStatus

-----------------------------------------------------------------------------
(* The maps on their own.                                                  *)

\* Ids are counted, so there are finitely many hosts with one.
MapsInv == KernelTypeOK /\ IsFiniteSet(DOMAIN targetHosts)

\* The maps are empty and no id is taken at the start.
LEMMA MapsInit == KernelInit => MapsInv
BY FS_EmptySet, KernelAssumption DEF KernelInit, MapsInv, KernelTypeOK, KernelAssumption

\* The steps of the maps on their own are among those the lemmas are about.
LEMMA NextIsMapStep == MapsInv /\ [KernelNext]_kernelVars => MapStep
<1> SUFFICES ASSUME MapsInv, KernelNext PROVE MapStep
  BY DEF MapStep
<1>1. now \in Nat /\ TTLs \subseteq Nat
  BY KernelAssumption DEF MapsInv, KernelTypeOK, KernelAssumption
<1>2. Cardinality(DOMAIN targetHosts) + 1 \in TargetIds
  BY FS_CardinalityType DEF MapsInv, TargetIds
<1>3. ASSUME NEW at \in 0..now, NEW ttl \in TTLs, ApplyGlobal(at, ttl) PROVE MapStep
  BY <1>1, <1>3, EncodedIsValue DEF ApplyGlobal, MapStep
<1>4. CASE RevokeGlobal
  BY <1>4 DEF RevokeGlobal, MapStep, MapsInv, KernelTypeOK
<1>5. CASE RegisterTarget
  BY <1>2, <1>5 DEF RegisterTarget, MapStep
<1>6. ASSUME NEW at \in 0..now, NEW ttl \in TTLs, ApplyScoped(at, ttl) PROVE MapStep
  <2>1. PICK h \in DOMAIN targetHosts, p \in Prefixes, r \in Rules :
          PutScoped(targetHosts[h], p, EncodeValue(at, ttl, r)) /\ UNCHANGED now
    BY <1>6 DEF ApplyScoped
  <2>2. targetHosts[h] \in TargetIds /\ EncodeValue(at, ttl, r) \in Values
    BY <1>1, EncodedIsValue DEF MapsInv, KernelTypeOK
  <2> QED
    BY <2>1, <2>2 DEF MapStep
<1>7. CASE RevokeScoped
  <2>1. PICK k \in DOMAIN srcBans : DeleteScoped(k[1], k[2]) /\ UNCHANGED now
    BY <1>7 DEF RevokeScoped
  <2>2. k[1] \in TargetIds /\ k[2] \in Prefixes
    BY DEF MapsInv, KernelTypeOK
  <2> QED
    BY <2>1, <2>2 DEF MapStep
<1>8. CASE KernelTick
  BY <1>8 DEF MapStep
<1> QED
  BY <1>3, <1>4, <1>5, <1>6, <1>7, <1>8 DEF KernelNext

\* Ids are given out in order, so the table of hosts never runs out of them.
LEMMA MapsStep == MapsInv /\ [KernelNext]_kernelVars => MapsInv'
<1> SUFFICES ASSUME MapsInv, [KernelNext]_kernelVars PROVE MapsInv'
  OBVIOUS
<1>1. KernelTypeOK'
  BY NextIsMapStep, MapStepType DEF MapsInv
<1>2. CASE RegisterTarget
  <2>1. PICK h \in Hosts : DOMAIN targetHosts' = DOMAIN targetHosts \union {h}
    BY <1>2 DEF RegisterTarget, PutTarget, SetKey
  <2> QED
    BY <1>1, <2>1, FS_AddElement DEF MapsInv
<1>3. CASE ~RegisterTarget
  <2>1. targetHosts' = targetHosts
    BY <1>3 DEF KernelNext, kernelVars, ApplyGlobal, RevokeGlobal, ApplyScoped, RevokeScoped,
                PutGlobal, DeleteGlobal, PutScoped, DeleteScoped, KernelTick, kernelMaps
  <2> QED
    BY <1>1, <2>1 DEF MapsInv
<1> QED
  BY <1>2, <1>3

\* So the maps always satisfy their invariant.
LEMMA MapsHold == KernelSpec => []MapsInv
BY MapsInit, MapsStep, PTL DEF KernelSpec

\* Keys, values and ids stay well formed, for any number of ids handed out.
THEOREM KernelTypeCorrect == KernelSpec => []KernelTypeOK
<1>1. MapsInv => KernelTypeOK
  BY DEF MapsInv
<1> QED
  BY <1>1, MapsHold, PTL

\* The passing of time only lets packets through, whatever entries hide others
\* in the tries (is_expired in bpf/xdp_filter.c).
THEOREM TimeReleasesAlways == KernelSpec => TimeOnlyReleases
<1>1. MapsInv /\ [KernelNext]_kernelVars => [now' # now => Dropped' \subseteq Dropped]_kernelVars
  BY NextIsMapStep, StepReleases DEF MapsInv, TimeReleases
<1> QED
  BY <1>1, MapsHold, PTL DEF KernelSpec, TimeOnlyReleases

\* A value that reaches the maps within its lifetime lets nothing through: it is
\* alive, and the only entry it can hide another behind (executor.go encodes it
\* when Apply begins and writes it later).
THEOREM WritesHoldAlways == KernelSpec => WritesInTimeNeverRelease
<1> DEFINE Written ==
      \/ \E at \in 0..now, ttl \in TTLs : InTime(at, ttl) /\ (ApplyGlobal(at, ttl) \/ ApplyScoped(at, ttl))
      \/ RegisterTarget
<1>1. ASSUME MapsInv, Written PROVE Dropped \subseteq Dropped'
  <2>1. now \in Nat /\ TTLs \subseteq Nat /\ KernelTypeOK
    BY <1>1, KernelAssumption DEF MapsInv, KernelTypeOK, KernelAssumption
  <2>2. ASSUME NEW at \in 0..now, NEW ttl \in TTLs, InTime(at, ttl), ApplyGlobal(at, ttl)
        PROVE  Dropped \subseteq Dropped'
    <3>1. PICK p \in Prefixes, r \in Rules : PutGlobal(p, EncodeValue(at, ttl, r)) /\ UNCHANGED now
      BY <2>2 DEF ApplyGlobal
    <3>2. EncodeValue(at, ttl, r) \in Values /\ ~is_expired(EncodeValue(at, ttl, r))
      BY <2>1, <2>2, EncodedIsValue, InTimeAlive
    <3> QED
      BY <2>1, <3>1, <3>2, GlobalWriteHolds
  <2>3. ASSUME NEW at \in 0..now, NEW ttl \in TTLs, InTime(at, ttl), ApplyScoped(at, ttl)
        PROVE  Dropped \subseteq Dropped'
    <3>1. PICK h \in DOMAIN targetHosts, p \in Prefixes, r \in Rules :
            PutScoped(targetHosts[h], p, EncodeValue(at, ttl, r)) /\ UNCHANGED now
      BY <2>3 DEF ApplyScoped
    <3>2. EncodeValue(at, ttl, r) \in Values /\ ~is_expired(EncodeValue(at, ttl, r))
      BY <2>1, <2>3, EncodedIsValue, InTimeAlive
    <3>3. targetHosts[h] \in TargetIds
      BY <2>1 DEF KernelTypeOK
    <3> QED
      BY <2>1, <3>1, <3>2, <3>3, ScopedWriteHolds
  <2>4. CASE RegisterTarget
    <3>1. Cardinality(DOMAIN targetHosts) + 1 \in TargetIds
      BY <1>1, FS_CardinalityType DEF MapsInv, TargetIds
    <3> QED
      BY <2>4, <3>1, RegistrationHolds DEF RegisterTarget
  <2> QED
    BY <1>1, <2>2, <2>3, <2>4
<1>2. MapsInv /\ [KernelNext]_kernelVars => [Written => Dropped \subseteq Dropped']_kernelVars
  BY <1>1
<1> QED
  BY <1>2, MapsHold, PTL DEF KernelSpec, WritesInTimeNeverRelease

\* Rolling back a live rule, of either table, never starts to drop a packet
\* (RevokeGlobal and RevokeScoped in executor.go).
THEOREM LiveRollbackAlways == KernelSpec => LiveRollbackOnlyReleases
<1>1. MapsInv /\ [KernelNext]_kernelVars =>
        [(\/ \E p \in DOMAIN globalBans \ DOMAIN globalBans' : ~is_expired(globalBans[p])
          \/ \E k \in DOMAIN srcBans \ DOMAIN srcBans' : ~is_expired(srcBans[k]))
         => Dropped' \subseteq Dropped]_kernelVars
  BY NextIsMapStep, StepLiveReleases DEF MapsInv, LiveRollbackReleases
<1> QED
  BY <1>1, MapsHold, PTL DEF KernelSpec, LiveRollbackOnlyReleases

\* The exit code of `why` is right but at the last instant of an entry.
THEOREM WhyIsRight == KernelSpec => []WhyMissesOnlyTheLastInstant
BY KernelTypeCorrect, WhySeesDrops, PTL

\* `status` lists, for every packet that is dropped, an entry that says so.
THEOREM StatusIsComplete == KernelSpec => []StatusListsEveryBlock
BY KernelTypeCorrect, StatusSeesDrops, PTL

=============================================================================
