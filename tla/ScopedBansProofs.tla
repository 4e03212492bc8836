-------------------------- MODULE ScopedBansProofs --------------------------
(***************************************************************************)
(* Proofs about ScopedBans, for any bans, hosts, handlers, ladders, quotas  *)
(* and sizes of selections, and any number of stops, restarts and reloads:  *)
(* the types, the lock, the lifecycle, and that the three places that count *)
(* prefixes agree.                                                         *)
(*                                                                         *)
(* The counts are sums over finite sets, and what is needed of sums comes   *)
(* first.  Each fact about them is proved by looking at a least set that    *)
(* would refute it.                                                        *)
(***************************************************************************)
EXTENDS ScopedBans, FiniteSetTheorems, TLAPS

-----------------------------------------------------------------------------
(* Sums over finite sets.                                                  *)

\* Of any sets among the subsets of a finite set, one is least.
LEMMA LeastSubset ==
  ASSUME NEW D, IsFiniteSet(D), NEW T, T \subseteq SUBSET D, T # {}
  PROVE  \E t \in T : \A s \in T : s \subseteq t => s = t
<1>1. T \subseteq FiniteSubsetsOf(D)
  BY FS_Subset DEF FiniteSubsetsOf
<1>2. IsWellFoundedOn(StrictSubsetOrdering(D), FiniteSubsetsOf(D))
  BY FS_StrictSubsetOrderingWellFounded
<1>3. PICK t \in T : \A s \in T : ~(<<s, t>> \in StrictSubsetOrdering(D))
  BY <1>1, <1>2, WFMin
<1>4. ASSUME NEW s \in T, s \subseteq t, s # t PROVE FALSE
  <2>1. <<s, t>> \in (SUBSET D) \X (SUBSET D)
    OBVIOUS
  <2>2. <<s, t>> \in StrictSubsetOrdering(D)
    BY <1>4, <2>1 DEF StrictSubsetOrdering
  <2> QED
    BY <1>3, <2>2
<1> QED
  BY <1>4

\* The element the fold takes out of a set.
First(s) == CHOOSE x \in s : TRUE

\* g gives the sum of f over every subset of S, and SumOf the one over S itself:
\* what the fold of the community modules unfolds to.
Sums(f, S, g) ==
  g = [s \in SUBSET S |-> IF s = {} THEN 0 ELSE f[First(s)] + g[s \ {First(s)}]]

SumOf(f, S) == (CHOOSE g : Sums(f, S, g))[S]

\* The fold takes out an element that is there.
LEMMA FirstIn == ASSUME NEW s, s # {} PROVE First(s) \in s
BY DEF First

\* Two such functions agree where both are defined.
LEMMA SumsAgree ==
  ASSUME NEW D, IsFiniteSet(D), NEW f, NEW S \in SUBSET D, NEW T \in SUBSET D,
         NEW g, NEW h, Sums(f, S, g), Sums(f, T, h), NEW s, s \subseteq S, s \subseteq T
  PROVE  g[s] = h[s]
<1> DEFINE Bad == { t \in SUBSET D : t \subseteq S /\ t \subseteq T /\ g[t] # h[t] }
<1>1. CASE Bad # {}
  <2>1. PICK t \in Bad : \A u \in Bad : u \subseteq t => u = t
    <3>1. Bad \subseteq SUBSET D
      OBVIOUS
    <3> HIDE DEF Bad
    <3> QED
      BY <1>1, <3>1, LeastSubset
  <2>2. t # {} => First(t) \in t
    BY FirstIn
  <2> DEFINE u == t \ {First(t)}
  <2>3. t # {} => g[u] = h[u]
    <3>1. ASSUME t # {} PROVE u \notin Bad
      BY <2>1, <2>2, <3>1
    <3> QED
      BY <2>1, <3>1
  <2>4. g[t] = (IF t = {} THEN 0 ELSE f[First(t)] + g[u])
    BY <2>1 DEF Sums
  <2>5. h[t] = (IF t = {} THEN 0 ELSE f[First(t)] + h[u])
    BY <2>1 DEF Sums
  <2> QED
    BY <2>1, <2>3, <2>4, <2>5
<1> QED
  BY <1>1

\* There is such a function for every finite set.
LEMMA SumsExist ==
  ASSUME NEW D, IsFiniteSet(D), NEW f, NEW S \in SUBSET D
  PROVE  \E g : Sums(f, S, g)
<1> DEFINE Bad == { t \in SUBSET D : ~ \E g : Sums(f, t, g) }
<1>1. CASE Bad # {}
  <2>1. PICK t \in Bad : \A u \in Bad : u \subseteq t => u = t
    <3>1. Bad \subseteq SUBSET D
      OBVIOUS
    <3> HIDE DEF Bad
    <3> QED
      BY <1>1, <3>1, LeastSubset
  <2> DEFINE whole == [s \in SUBSET t |-> IF s = {} THEN 0
                                            ELSE f[First(s)] + SumOf(f, s \ {First(s)})]
             smaller == { s \in SUBSET t : s # t }
  <2>2. ASSUME NEW s \in smaller PROVE Sums(f, s, CHOOSE g : Sums(f, s, g))
    BY <2>1
  <2>3. ASSUME NEW s \in smaller PROVE SumOf(f, s) = whole[s]
    <3> DEFINE g == CHOOSE g : Sums(f, s, g)
               r == s \ {First(s)}
               h == CHOOSE h : Sums(f, r, h)
    <3>1. Sums(f, s, g)
      BY <2>2
    <3>2. CASE s = {}
      BY <3>1, <3>2 DEF Sums, SumOf
    <3>3. CASE s # {}
      <4>1. r \in smaller /\ First(s) \in s
        BY <3>3, FirstIn
      <4>2. Sums(f, r, h)
        BY <2>2, <4>1
      <4> HIDE DEF g, h
      <4>3. g[r] = h[r]
        BY <3>1, <4>1, <4>2, SumsAgree
      <4>4. g[s] = f[First(s)] + g[r]
        BY <3>1, <3>3 DEF Sums
      <4> QED
        BY <3>3, <4>3, <4>4 DEF SumOf, g, h
    <3> QED
      BY <3>2, <3>3
  <2>4. Sums(f, t, whole)
    <3>1. ASSUME NEW s \in SUBSET t, s # {} PROVE SumOf(f, s \ {First(s)}) = whole[s \ {First(s)}]
      <4>1. s \ {First(s)} \in smaller
        BY <3>1, FirstIn
      <4> HIDE DEF whole, smaller
      <4> QED
        BY <2>3, <4>1
    <3> DEFINE again == [s \in SUBSET t |-> IF s = {} THEN 0
                                              ELSE f[First(s)] + whole[s \ {First(s)}]]
    <3>2. whole = again
      <4>1. ASSUME NEW s \in SUBSET t
            PROVE  (IF s = {} THEN 0 ELSE f[First(s)] + SumOf(f, s \ {First(s)})) =
                   (IF s = {} THEN 0 ELSE f[First(s)] + whole[s \ {First(s)}])
        <5> HIDE DEF whole
        <5> QED
          BY <3>1
      <4> QED
        BY <4>1, Zenon
    <3> HIDE DEF whole
    <3> QED
      BY <3>2 DEF Sums
  <2> QED
    BY <2>1, <2>4
<1> QED
  BY <1>1

\* A sum is its first term and the rest.
LEMMA SumRec ==
  ASSUME NEW D, IsFiniteSet(D), NEW f, NEW S \in SUBSET D
  PROVE  SumOf(f, S) = IF S = {} THEN 0 ELSE f[First(S)] + SumOf(f, S \ {First(S)})
<1> DEFINE g == CHOOSE g : Sums(f, S, g)
           R == S \ {First(S)}
           h == CHOOSE h : Sums(f, R, h)
<1>1. Sums(f, S, g)
  BY SumsExist
<1>2. Sums(f, R, h)
  BY SumsExist
<1> HIDE DEF g, h
<1>3. g[R] = h[R]
  BY <1>1, <1>2, SumsAgree
<1>4. g[S] = (IF S = {} THEN 0 ELSE f[First(S)] + g[R])
  BY <1>1 DEF Sums
<1> QED
  BY <1>3, <1>4 DEF SumOf, g, h

\* Natural terms have a natural sum.
LEMMA SumType ==
  ASSUME NEW D, IsFiniteSet(D), NEW f, \A x \in D : f[x] \in Nat, NEW S \in SUBSET D
  PROVE  SumOf(f, S) \in Nat
<1> DEFINE Bad == { t \in SUBSET D : SumOf(f, t) \notin Nat }
<1>1. CASE Bad # {}
  <2>1. PICK t \in Bad : \A u \in Bad : u \subseteq t => u = t
    <3>1. Bad \subseteq SUBSET D
      OBVIOUS
    <3> HIDE DEF Bad
    <3> QED
      BY <1>1, <3>1, LeastSubset
  <2>2. SumOf(f, t) = IF t = {} THEN 0 ELSE f[First(t)] + SumOf(f, t \ {First(t)})
    BY SumRec
  <2>3. t # {} => First(t) \in t
    BY FirstIn
  <2> QED
    BY <2>1, <2>2, <2>3
<1> QED
  BY <1>1

\* Equal terms have equal sums.
LEMMA SumSame ==
  ASSUME NEW D, IsFiniteSet(D), NEW f, NEW g, NEW S \in SUBSET D, \A x \in S : f[x] = g[x]
  PROVE  SumOf(f, S) = SumOf(g, S)
<1> DEFINE Bad == { t \in SUBSET D : t \subseteq S /\ SumOf(f, t) # SumOf(g, t) }
<1>1. CASE Bad # {}
  <2>1. PICK t \in Bad : \A u \in Bad : u \subseteq t => u = t
    <3>1. Bad \subseteq SUBSET D
      OBVIOUS
    <3> HIDE DEF Bad
    <3> QED
      BY <1>1, <3>1, LeastSubset
  <2>2. SumOf(f, t) = IF t = {} THEN 0 ELSE f[First(t)] + SumOf(f, t \ {First(t)})
    BY SumRec
  <2>3. SumOf(g, t) = IF t = {} THEN 0 ELSE g[First(t)] + SumOf(g, t \ {First(t)})
    BY SumRec
  <2>4. t # {} => First(t) \in t
    BY FirstIn
  <2> QED
    BY <2>1, <2>2, <2>3, <2>4
<1> QED
  BY <1>1

\* Any term may be taken out first.
LEMMA SumAny ==
  ASSUME NEW D, IsFiniteSet(D), NEW f, \A x \in D : f[x] \in Nat,
         NEW S \in SUBSET D, NEW x \in S
  PROVE  SumOf(f, S) = f[x] + SumOf(f, S \ {x})
<1> DEFINE Bad == { t \in SUBSET D : \E y \in t : SumOf(f, t) # f[y] + SumOf(f, t \ {y}) }
<1>1. CASE Bad # {}
  <2>1. PICK t \in Bad : \A u \in Bad : u \subseteq t => u = t
    <3>1. Bad \subseteq SUBSET D
      OBVIOUS
    <3> HIDE DEF Bad
    <3> QED
      BY <1>1, <3>1, LeastSubset
  <2>2. PICK y \in t : SumOf(f, t) # f[y] + SumOf(f, t \ {y})
    BY <2>1
  <2> DEFINE z == First(t)
  <2>3. z \in t
    BY <2>2, FirstIn
  <2> HIDE DEF z
  <2>4. SumOf(f, t) = f[z] + SumOf(f, t \ {z})
    <3>1. SumOf(f, t) = IF t = {} THEN 0 ELSE f[First(t)] + SumOf(f, t \ {First(t)})
      BY SumRec
    <3> QED
      BY <2>2, <3>1 DEF z
  <2>5. y # z
    BY <2>2, <2>4
  <2>6. t \ {z} \notin Bad /\ t \ {y} \notin Bad
    BY <2>1, <2>2, <2>3
  <2>7. SumOf(f, t \ {z}) = f[y] + SumOf(f, (t \ {z}) \ {y})
    BY <2>2, <2>5, <2>6
  <2>8. SumOf(f, t \ {y}) = f[z] + SumOf(f, (t \ {y}) \ {z})
    BY <2>3, <2>5, <2>6
  <2>9. (t \ {z}) \ {y} = (t \ {y}) \ {z}
    OBVIOUS
  <2>10. f[y] \in Nat /\ f[z] \in Nat /\ SumOf(f, (t \ {y}) \ {z}) \in Nat
    BY <2>2, <2>3, SumType
  <2> QED
    BY <2>2, <2>4, <2>7, <2>8, <2>9, <2>10
<1> QED
  BY <1>1

\* The fold of the community modules is this sum.
LEMMA FoldIsSum ==
  ASSUME NEW f PROVE SumFunction(f) = SumOf(f, DOMAIN f)
<1>1. SumFunction(f) = (CHOOSE g : Sums(f, DOMAIN f, g))[DOMAIN f]
  BY Zenon DEF SumFunction, SumFunctionOnSet, FoldFunctionOnSet, MapThenFoldSet, Sums, First
<1> QED
  BY <1>1 DEF SumOf

\* A sum of terms given for each element of a set.
LEMMA FoldOver ==
  ASSUME NEW D, IsFiniteSet(D), NEW S \in SUBSET D, NEW f, NEW g,
         DOMAIN f = S, \A x \in S : f[x] = g[x]
  PROVE  SumFunction(f) = SumOf(g, S)
BY FoldIsSum, SumSame

-----------------------------------------------------------------------------
(* The inductive invariant.                                                *)

Creating == {"reserve", "insert"}

\* The steps of an approval before its first row.
Ordering == {"resolve", "rereserve", "restore", "recount", "dispatch"}

\* A handler that is not idle works on a ban.
Busy == \A c \in Clerks : IF At(c, "idle") THEN clerk[c] = Idle ELSE clerk[c].ban \in Bans

\* decideMu is held exactly by the handler that approves or rejects.
LockDiscipline == \A c \in Clerks : clerk[c].pc \in LockedSteps <=> mu = c

\* A ban that is being created is not there yet, and one handler is at it.
CreatingOnce ==
  /\ \A c \in Clerks : clerk[c].pc \in Creating => ban[clerk[c].ban].state = "none"
  /\ \A c, d \in Clerks : clerk[c].pc \in Creating /\ clerk[d].ban = clerk[c].ban => c = d

KnownBan ==
  \A c \in Clerks :
    clerk[c].pc \notin Creating \union {"idle"} => ban[clerk[c].ban].state # "none"

\* Undecided bans were never approved, and only approved ones have rows.
ApprovedFirst ==
  \A b \in Bans :
    /\ ban[b].state \in {"none", "pending"} => b \notin effective
    /\ rows[b] # << >> => b \in effective

\* The ban whose rows are about to be created was approved and has none.
OrderedOnce ==
  \A c \in Clerks :
    /\ clerk[c].pc \in Ordering => clerk[c].ban \in effective /\ rows[clerk[c].ban] = << >>
    /\ At(c, "rows") => clerk[c].ban \in effective

LifeInv ==
  /\ ScopedTypeOK
  /\ Busy
  /\ LockDiscipline
  /\ CreatingOnce
  /\ KnownBan
  /\ ApprovedFirst
  /\ OrderedOnce

-----------------------------------------------------------------------------
(* Records, the ladder and the tracker.                                     *)

\* The ladder has a first level.
LEMMA TopLevelType == TopLevel \in Nat
BY EscalationAssumption DEF EscalationAssumption, TopLevel

\* Each level has a sentence.
LEMMA LevelTTLType == ASSUME NEW level \in Levels PROVE LevelTTL(level) \in Nat
BY EscalationAssumption DEF EscalationAssumption, Levels, TopLevel, LevelTTL

\* Registering a ban never leaves the ladder at either end.
LEMMA RegisterBanType ==
  ASSUME NEW row \in LadderRows PROVE RegisterBan(row) \in LadderRows
<1> DEFINE level == IF ~row.observing THEN row.level
                    ELSE IF row.level + 1 > TopLevel THEN TopLevel ELSE row.level + 1
<1>1. level \in Levels
  BY TopLevelType DEF LadderRows, Levels
<1>2. row.offenses + 1 \in Nat
  BY DEF LadderRows
<1>3. (LevelTTL(level) > 0) \in BOOLEAN
  BY <1>1, LevelTTLType
<1> QED
  BY <1>1, <1>2, <1>3 DEF RegisterBan, LadderRows

\* The sentence a ban is created with is one of the ladder.
LEMMA NextTTLType == ASSUME NEW row \in LadderRows PROVE NextTTL(row) \in Nat
<1>1. CASE row.observing /\ row.level < TopLevel
  <2>1. row.level + 1 \in Levels
    BY <1>1, TopLevelType DEF LadderRows, Levels
  <2> QED
    BY <1>1, <2>1, LevelTTLType DEF NextTTL
<1>2. CASE ~(row.observing /\ row.level < TopLevel)
  <2>1. row.level \in Levels
    BY DEF LadderRows
  <2> QED
    BY <1>2, <2>1, LevelTTLType DEF NextTTL
<1> QED
  BY <1>1, <1>2

\* Where the tracker is restored, the sum over live bans is a number.
LEMMA CountedType ==
  ASSUME ScopedTypeOK, NEW S \in SUBSET Bans
  PROVE  Counted(S) \in Nat /\ Counted(S) = SumOf([b \in Bans |-> ban[b].count], S)
<1> DEFINE f == [b \in S |-> ban[b].count]
           g == [b \in Bans |-> ban[b].count]
<1>1. IsFiniteSet(Bans) /\ \A b \in Bans : g[b] \in Nat
  BY ScopedAssumption DEF ScopedAssumption, ScopedTypeOK, BanRows
<1>2. DOMAIN f = S /\ \A b \in S : f[b] = g[b]
  OBVIOUS
<1>3. Counted(S) = SumFunction(f)
  BY DEF Counted
<1> HIDE DEF f, g
<1>4. SumFunction(f) = SumOf(g, S) /\ SumOf(g, S) \in Nat
  BY <1>1, <1>2, FoldOver, SumType
<1> QED
  BY <1>3, <1>4 DEF g

\* What is counted from the tables at a start is a number of each.
LEMMA RestoredType == ScopedTypeOK => restoreQuota \in [Kinds -> Usages]
<1> SUFFICES ASSUME ScopedTypeOK, NEW k \in Kinds
             PROVE  Counted(LiveOf(k)) \in Nat /\ Cardinality(LiveOf(k)) \in Nat
  BY DEF restoreQuota, Usages
<1>1. LiveOf(k) \in SUBSET Bans
  BY DEF LiveOf
<1>2. IsFiniteSet(LiveOf(k))
  BY <1>1, ScopedAssumption, FS_Subset DEF ScopedAssumption
<1> QED
  BY <1>1, <1>2, CountedType, FS_CardinalityType

\* A counter that would fall below zero stays there.
LEMMA AtLeastZeroIs ==
  ASSUME NEW n \in Int
  PROVE  AtLeastZero(n) = (IF n >= 0 THEN n ELSE 0) /\ AtLeastZero(n) \in Nat
<1> DEFINE m == IF n >= 0 THEN n ELSE 0
<1>1. m \in {0, n} /\ \A y \in {0, n} : m >= y
  OBVIOUS
<1>2. \A x \in {0, n} : (\A y \in {0, n} : x >= y) => x = m
  OBVIOUS
<1>3. AtLeastZero(n) = m
  BY <1>1, <1>2 DEF AtLeastZero, Max
<1> QED
  BY <1>3

\* So a release leaves numbers.
LEMMA ReleaseType ==
  ASSUME tracker \in [Kinds -> Usages], NEW k \in Kinds, NEW n \in Nat, Release(k, n)
  PROVE  tracker' \in [Kinds -> Usages]
<1>1. tracker[k].prefixes - n \in Int /\ tracker[k].rules - 1 \in Int
  BY DEF Usages
<1>2. AtLeastZero(tracker[k].prefixes - n) \in Nat /\ AtLeastZero(tracker[k].rules - 1) \in Nat
  BY <1>1, AtLeastZeroIs
<1> QED
  BY <1>2 DEF Release, Usages

\* And so does a reservation.
LEMMA ReserveType ==
  ASSUME tracker \in [Kinds -> Usages], NEW k \in Kinds, NEW n \in Nat, Reserve(k, n)
  PROVE  tracker' \in [Kinds -> Usages]
BY DEF Reserve, Usages

\* A handler at rest has no ban.
LEMMA IdleType == Idle \in ClerkRecords /\ Idle.pc = "idle" /\ Idle.ban = NoBan
BY DEF Idle, ClerkRecords, Steps

\* A handler that moves on keeps a well-formed record.
LEMMA MoveType ==
  ASSUME NEW rec \in ClerkRecords, NEW step \in Steps, NEW n \in Nat
  PROVE  /\ [rec EXCEPT !.pc = step] \in ClerkRecords
         /\ [rec EXCEPT !.pc = step, !.new = n] \in ClerkRecords
         /\ [rec EXCEPT !.pc = step, !.count = n] \in ClerkRecords
         /\ [rec EXCEPT !.pc = step, !.ttl = n] \in ClerkRecords
BY DEF ClerkRecords

-----------------------------------------------------------------------------
(* Types.                                                                  *)

\* All is well formed at the start.
LEMMA ScopedTypeInit == ScopedInit => ScopedTypeOK /\ Busy
<1> SUFFICES ASSUME ScopedInit PROVE ScopedTypeOK /\ Busy
  OBVIOUS
<1>1. [h \in Hosts |-> NoRow] \in [Hosts -> LadderRows]
  BY TopLevelType DEF NoRow, LadderRows, Levels
<1>2. [c \in Clerks |-> Idle] \in [Clerks -> ClerkRecords]
  BY IdleType
<1>3. << >> \in Seq(Nat)
  OBVIOUS
<1> QED
  BY <1>1, <1>2, <1>3, IdleType DEF ScopedInit, ScopedTypeOK, Busy, At, BanRows, BanStates, Usages

\* It stays so at each statement of a handler.
LEMMA ContinueType ==
  ASSUME ScopedTypeOK, Busy, NEW c \in Clerks, Continue(c)
  PROVE  ScopedTypeOK'
<1> DEFINE b == clerk[c].ban
<1> USE DEF ScopedTypeOK, dbVars, outside
<1>1. /\ clerk[c] \in ClerkRecords
      /\ clerk[c].count \in Nat /\ clerk[c].new \in Nat /\ clerk[c].ttl \in Nat
      /\ clerk[c].global \in BOOLEAN
      /\ Kind(clerk[c]) \in Kinds
  BY DEF ClerkRecords, Kind, Kinds
<1>2. ~At(c, "idle") => b \in Bans /\ ban[b] \in BanRows /\ size[b] \in Nat /\ HostOf[b] \in Hosts
  BY ScopedAssumption DEF ScopedAssumption, Busy
<1>3. \A step \in Steps : [clerk EXCEPT ![c].pc = step] \in [Clerks -> ClerkRecords]
  BY <1>1, MoveType
<1>4. Return(c) => mu' \in Clerks \union {NoClerk} /\ clerk' \in [Clerks -> ClerkRecords]
  BY IdleType DEF Return
<1>5. \A step \in Steps : Goto(c, step) => clerk' \in [Clerks -> ClerkRecords]
  BY <1>3 DEF Goto
<1>6. \A s \in BanStates : SetState(b, s) => ban' \in [Bans -> BanRows]
  <2>1. \A s \in BanStates, row \in BanRows : [row EXCEPT !.state = s] \in BanRows
    BY DEF BanRows
  <2>2. \A s \in BanStates : [ban EXCEPT ![b].state = s] \in [Bans -> BanRows]
    BY <2>1
  <2> QED
    BY <2>2 DEF SetState
<1>7. Release(Kind(clerk[c]), clerk[c].count) => tracker' \in [Kinds -> Usages]
  BY <1>1, ReleaseType
<1>8. \A n \in Nat : Reserve(Kind(clerk[c]), n) => tracker' \in [Kinds -> Usages]
  BY <1>1, ReserveType
<1>10. CASE scopedBanCreate_Reserve(c)
  <2>1. CASE /\ Reserve(Kind(clerk[c]), clerk[c].count) /\ UNCHANGED mu
             /\ clerk' = [clerk EXCEPT ![c].pc = "insert",
                            ![c].ttl = IF clerk[c].global THEN 0 ELSE NextTTL(ladder[HostOf[b]])]
    <3> DEFINE n == IF clerk[c].global THEN 0 ELSE NextTTL(ladder[HostOf[b]])
    <3>1. n \in Nat
      BY <1>2, <1>10, NextTTLType DEF scopedBanCreate_Reserve, At
    <3> HIDE DEF n
    <3>2. [clerk[c] EXCEPT !.pc = "insert", !.ttl = n] \in ClerkRecords
      BY <1>1, <3>1, MoveType DEF Steps
    <3>3. clerk' = [clerk EXCEPT ![c] = [clerk[c] EXCEPT !.pc = "insert", !.ttl = n]]
      BY <2>1 DEF n
    <3>4. clerk' \in [Clerks -> ClerkRecords]
      BY <3>2, <3>3
    <3> QED
      BY <1>1, <1>8, <1>10, <2>1, <3>4 DEF scopedBanCreate_Reserve
  <2>2. CASE Return(c) /\ UNCHANGED tracker
    BY <1>4, <1>10, <2>2 DEF scopedBanCreate_Reserve
  <2> QED
    BY <1>10, <2>1, <2>2 DEF scopedBanCreate_Reserve
<1>11. CASE scopedBanCreate_Insert(c)
  <2>1. [state |-> "pending", global |-> clerk[c].global,
         count |-> clerk[c].count, ttl |-> clerk[c].ttl] \in BanRows
    BY <1>1 DEF BanRows, BanStates
  <2> QED
    BY <1>4, <1>11, <2>1 DEF scopedBanCreate_Insert
<1>12. CASE scopedBanCreate_InsertFails(c)
  BY <1>4, <1>7, <1>12 DEF scopedBanCreate_InsertFails
<1>13. CASE scopedBanApprove_Commit(c)
  <2>1. CASE /\ SetState(b, "active") /\ effective' = effective \union {b} /\ UNCHANGED mu
             /\ clerk' = [clerk EXCEPT ![c].pc = "resolve", ![c].count = ban[b].count]
    <3>1. b \in Bans /\ ban[b].count \in Nat
      BY <1>2, <1>13 DEF scopedBanApprove_Commit, At, BanRows
    <3>2. [clerk[c] EXCEPT !.pc = "resolve", !.count = ban[b].count] \in ClerkRecords
      BY <1>1, <3>1, MoveType DEF Steps, LockedSteps
    <3>3. clerk' \in [Clerks -> ClerkRecords]
      BY <2>1, <3>2
    <3>4. ban' \in [Bans -> BanRows]
      BY <1>6, <2>1 DEF BanStates
    <3> QED
      BY <1>13, <2>1, <3>1, <3>3, <3>4 DEF scopedBanApprove_Commit
  <2>2. CASE Return(c) /\ UNCHANGED <<ban, effective>>
    BY <1>4, <1>13, <2>2 DEF scopedBanApprove_Commit
  <2> QED
    BY <1>13, <2>1, <2>2 DEF scopedBanApprove_Commit
<1>14. CASE scopedBanApprove_Resolve(c)
  <2> DEFINE n == size[b]
  <2>1. n \in Nat
    BY <1>2, <1>14 DEF scopedBanApprove_Resolve, At
  <2>2. clerk' \in { [clerk EXCEPT ![c] = [clerk[c] EXCEPT !.pc = step, !.new = n]] :
                     step \in {"dispatch", "rereserve"} }
    BY <1>14 DEF scopedBanApprove_Resolve
  <2> HIDE DEF n
  <2>3. \A step \in {"dispatch", "rereserve"} : [clerk[c] EXCEPT !.pc = step, !.new = n] \in ClerkRecords
    BY <1>1, <2>1, MoveType DEF Steps, LockedSteps
  <2>4. clerk' \in [Clerks -> ClerkRecords]
    BY <2>2, <2>3
  <2> QED
    BY <1>7, <1>14, <2>4 DEF scopedBanApprove_Resolve
<1>15. CASE scopedBanApprove_NoDatabase(c)
  BY <1>4, <1>15 DEF scopedBanApprove_NoDatabase
<1>16. CASE scopedBanApprove_Rereserve(c)
  BY <1>1, <1>5, <1>8, <1>16 DEF scopedBanApprove_Rereserve, Steps, LockedSteps
<1>17. CASE scopedBanApprove_Restore(c)
  BY <1>1, <1>4, <1>8, <1>17 DEF scopedBanApprove_Restore, Upsets
<1>18. CASE scopedBanApprove_Recount(c)
  <2>1. ban' \in [Bans -> BanRows]
    BY <1>1, <1>18 DEF scopedBanApprove_Recount, BanRows
  <2> QED
    BY <1>5, <1>18, <2>1 DEF scopedBanApprove_Recount, Steps, LockedSteps
<1>19. CASE scopedBanApprove_RecountFails(c)
  BY <1>5, <1>19 DEF scopedBanApprove_RecountFails, Steps, LockedSteps, Upsets
<1>20. CASE CreateDispatch_Veto(c)
  BY <1>4, <1>6, <1>20 DEF CreateDispatch_Veto, BanStates, Upsets
<1>21. CASE CreateScopedDispatch(c)
  <2>1. <<clerk[c].new>> \in Seq(Nat)
    BY <1>1
  <2>2. rows' \in [Bans -> Seq(Nat)]
    BY <1>21, <2>1 DEF CreateScopedDispatch
  <2> QED
    BY <1>5, <1>21, <2>2 DEF CreateScopedDispatch, Steps, LockedSteps
<1>22. CASE CreateGlobalScopedDispatch(c)
  <2>1. CASE rows' = [rows EXCEPT ![b] = Append(@, 1)] /\ Goto(c, "rows") /\ UNCHANGED mu
    <3>1. rows' \in [Bans -> Seq(Nat)]
      <4>1. \A s \in Seq(Nat) : Append(s, 1) \in Seq(Nat)
        OBVIOUS
      <4> QED
        BY <2>1, <4>1
    <3> QED
      BY <1>5, <1>22, <2>1, <3>1 DEF CreateGlobalScopedDispatch, Steps, LockedSteps
  <2>2. CASE Return(c) /\ UNCHANGED rows
    BY <1>4, <1>22, <2>2 DEF CreateGlobalScopedDispatch
  <2> QED
    BY <1>22, <2>1, <2>2 DEF CreateGlobalScopedDispatch
<1>23. CASE recordLadder(c)
  <2>1. ladder' \in [Hosts -> LadderRows]
    BY <1>23, RegisterBanType DEF recordLadder
  <2> QED
    BY <1>4, <1>23, <2>1 DEF recordLadder
<1>24. CASE scopedBanReject_Commit(c)
  BY <1>4, <1>5, <1>6, <1>24 DEF scopedBanReject_Commit, Steps, LockedSteps, BanStates
<1>25. CASE lookupRollback_Reject(c) \/ scopedBanRevoke_Commit(c)
  BY <1>5, <1>6, <1>25 DEF lookupRollback_Reject, scopedBanRevoke_Commit, Steps, UnlockedRollback,
    BanStates
<1>28. CASE lookupRollback_UpdateFails(c)
  BY <1>5, <1>28 DEF lookupRollback_UpdateFails, Steps, UnlockedRollback, Upsets
<1>26. CASE scopedBanRevoke_Delete(c)
  BY <1>4, <1>5, <1>26 DEF scopedBanRevoke_Delete, Steps, UnlockedRollback
<1>27. CASE ReleaseQuota(c)
  BY <1>4, <1>7, <1>27 DEF ReleaseQuota
<1> QED
  BY <1>10, <1>11, <1>12, <1>13, <1>14, <1>15, <1>16, <1>17, <1>18, <1>19, <1>20, <1>21, <1>22,
     <1>23, <1>24, <1>25, <1>26, <1>27, <1>28 DEF Continue

\* What Begin, and a submission, put in the handler's record.
LEMMA BeginType ==
  ASSUME NEW step \in Steps, NEW b \in Bans, NEW global \in BOOLEAN, NEW n \in Nat
  PROVE  LET r == [Idle EXCEPT !.pc = step, !.ban = b, !.global = global, !.count = n] IN
         r \in ClerkRecords /\ r.pc = step /\ r.ban = b /\ r.global = global /\ r.count = n
BY IdleType DEF ClerkRecords, Idle

\* And where a handler begins.
LEMMA ArriveType ==
  ASSUME ScopedTypeOK, NEW c \in Clerks, NEW b \in Bans, Arrive(c, b)
  PROVE  ScopedTypeOK'
<1> USE DEF ScopedTypeOK, dbVars, outside
<1>1. ban[b] \in BanRows /\ ban[b].global \in BOOLEAN /\ ban[b].count \in Nat
  BY DEF BanRows
<1>2. ASSUME NEW step \in Steps, Begin(c, step, b)
      PROVE  clerk' \in [Clerks -> ClerkRecords]
             /\ upsets' \subseteq Upsets
  <2>1. clerk' \in [Clerks -> ClerkRecords]
    BY <1>1, <1>2, BeginType, ZenonT(60) DEF Begin
  <2> QED
    BY <1>2, <2>1 DEF Begin, Upsets
<1>3. CASE \E global \in BOOLEAN : scopedBanCreate(c, b, global)
  <2>1. PICK global \in BOOLEAN : scopedBanCreate(c, b, global)
    BY <1>3
  <2>2. size[b] \in Nat
    BY ScopedAssumption DEF ScopedAssumption
  <2> DEFINE r == [Idle EXCEPT !.pc = "reserve", !.ban = b, !.global = global, !.count = size[b]]
  <2>3. r \in ClerkRecords
    BY <2>2, BeginType, ZenonT(60) DEF Steps
  <2>4. clerk' = [clerk EXCEPT ![c] = r]
    BY <2>1 DEF scopedBanCreate
  <2> HIDE DEF r
  <2>5. clerk' \in [Clerks -> ClerkRecords]
    BY <2>3, <2>4
  <2> QED
    BY <2>1, <2>5 DEF scopedBanCreate
<1>4. CASE scopedBanApprove(c, b)
  BY <1>2, <1>4 DEF scopedBanApprove, Lock, Steps, LockedSteps
<1>5. CASE scopedBanReject(c, b)
  BY <1>2, <1>5 DEF scopedBanReject, Lock, Steps, LockedSteps
<1>6. CASE scopedBanRevoke(c, b)
  BY <1>2, <1>6 DEF scopedBanRevoke, Steps, UnlockedRollback
<1>7. CASE lookupRollback(c, b)
  BY <1>2, <1>7 DEF lookupRollback, Steps, UnlockedRollback
<1> QED
  BY <1>3, <1>4, <1>5, <1>6, <1>7 DEF Arrive

\* What a step does to the handlers: one of them goes idle, or goes on with the
\* ban it is at, and no other moves.
LEMMA ClerkMove ==
  ASSUME ScopedTypeOK, Busy, NEW c \in Clerks, Continue(c)
  PROVE  /\ ~At(c, "idle") /\ clerk[c].ban \in Bans
         /\ \A d \in Clerks \ {c} : clerk'[d] = clerk[d]
         /\ \/ clerk'[c] = Idle /\ mu' = (IF mu = c THEN NoClerk ELSE mu)
            \/ /\ mu' = mu
               /\ clerk'[c].pc # "idle"
               /\ clerk[c].pc \in LockedSteps <=> clerk'[c].pc \in LockedSteps
               /\ clerk'[c].ban = clerk[c].ban /\ clerk'[c].global = clerk[c].global
<1> DEFINE Same == \A d \in Clerks \ {c} : clerk'[d] = clerk[d]
           Moves(steps) ==
             /\ mu' = mu
             /\ clerk'[c].pc \in steps \ {"idle"}
             /\ clerk'[c].ban = clerk[c].ban /\ clerk'[c].global = clerk[c].global
           Ends == clerk'[c] = Idle /\ mu' = (IF mu = c THEN NoClerk ELSE mu)
<1> USE DEF ScopedTypeOK, ClerkRecords
<1>1. Return(c) => Same /\ Ends
  BY DEF Return
<1>2. \A step \in Steps \ {"idle"} : Goto(c, step) /\ UNCHANGED mu => Same /\ Moves({step})
  BY DEF Goto
<1>3. \A step \in Steps \ {"idle"} : \A n :
        clerk' = [clerk EXCEPT ![c].pc = step, ![c].ttl = n] /\ UNCHANGED mu => Same /\ Moves({step})
  OBVIOUS
<1>4. \A step \in Steps \ {"idle"} : \A n :
        clerk' = [clerk EXCEPT ![c].pc = step, ![c].new = n] /\ UNCHANGED mu => Same /\ Moves({step})
  OBVIOUS
<1>5. \A step \in Steps \ {"idle"} : \A n :
        clerk' = [clerk EXCEPT ![c].pc = step, ![c].count = n] /\ UNCHANGED mu => Same /\ Moves({step})
  OBVIOUS
<1> DEFINE Locked == LockedSteps \ {"idle"}
           Free == (Steps \ LockedSteps) \ {"idle"}
           From(steps) == clerk[c].pc \in steps
<1>6. CASE scopedBanCreate_Reserve(c) \/ scopedBanCreate_Insert(c) \/ scopedBanCreate_InsertFails(c)
  <2>1. Same /\ From(Free) /\ (Ends \/ Moves(Free))
    BY <1>1, <1>3, <1>6 DEF scopedBanCreate_Reserve, scopedBanCreate_Insert,
      scopedBanCreate_InsertFails, At, Steps, LockedSteps
  <2> QED
    BY <2>1 DEF Busy, At
<1>7. CASE scopedBanApprove_Commit(c) \/ scopedBanApprove_Resolve(c) \/ scopedBanApprove_NoDatabase(c)
  <2>1. Same /\ From(Locked) /\ (Ends \/ Moves(Locked))
    BY <1>1, <1>4, <1>5, <1>7 DEF scopedBanApprove_Commit, scopedBanApprove_Resolve,
      scopedBanApprove_NoDatabase, At, Steps, LockedSteps
  <2> QED
    BY <2>1 DEF Busy, At
<1>8. CASE \/ scopedBanApprove_Rereserve(c) \/ scopedBanApprove_Restore(c)
           \/ scopedBanApprove_Recount(c) \/ scopedBanApprove_RecountFails(c)
  <2>1. Same /\ From(Locked) /\ (Ends \/ Moves(Locked))
    BY <1>1, <1>2, <1>8 DEF scopedBanApprove_Rereserve, scopedBanApprove_Restore,
      scopedBanApprove_Recount, scopedBanApprove_RecountFails, At, Steps, LockedSteps
  <2> QED
    BY <2>1 DEF Busy, At
<1>9. CASE CreateDispatch_Veto(c) \/ CreateScopedDispatch(c) \/ CreateGlobalScopedDispatch(c)
           \/ recordLadder(c) \/ scopedBanReject_Commit(c)
  <2>1. Same /\ From(Locked) /\ (Ends \/ Moves(Locked))
    BY <1>1, <1>2, <1>9 DEF CreateDispatch_Veto, CreateScopedDispatch, CreateGlobalScopedDispatch,
      recordLadder, scopedBanReject_Commit, At, Steps, LockedSteps
  <2> QED
    BY <2>1 DEF Busy, At
<1>10. CASE \/ lookupRollback_Reject(c) \/ scopedBanRevoke_Delete(c)
            \/ scopedBanRevoke_Commit(c) \/ lookupRollback_UpdateFails(c)
  <2>1. Same /\ From(Free) /\ (Ends \/ Moves(Free))
    BY <1>1, <1>2, <1>10 DEF lookupRollback_Reject, scopedBanRevoke_Delete, scopedBanRevoke_Commit,
      lookupRollback_UpdateFails, At, Steps, LockedSteps, UnlockedRollback
  <2> QED
    BY <2>1 DEF Busy, At
<1>11. CASE ReleaseQuota(c)
  BY <1>1, <1>11 DEF ReleaseQuota, Busy, At
<1> QED
  BY <1>6, <1>7, <1>8, <1>9, <1>10, <1>11 DEF Continue

\* What an arriving request does to them.
LEMMA ClerkArrives ==
  ASSUME ScopedTypeOK, NEW c \in Clerks, NEW b \in Bans, Arrive(c, b)
  PROVE  /\ At(c, "idle")
         /\ \A d \in Clerks \ {c} : clerk'[d] = clerk[d]
         /\ clerk'[c].ban = b /\ clerk'[c].pc # "idle"
         /\ IF clerk'[c].pc \in LockedSteps THEN mu = NoClerk /\ mu' = c ELSE mu' = mu
         /\ UNCHANGED <<ban, effective, rows, tracker, faults>>
         /\ \/ /\ clerk'[c].pc = "reserve" /\ ban[b].state = "none"
               /\ clerk'[c].global \in BOOLEAN
               /\ \A d \in Clerks : clerk[d].ban # b
               /\ UNCHANGED upsets
            \/ /\ <<clerk'[c].pc, ban[b].state>> \in
                    {<<"approve", "pending">>, <<"reject", "pending">>,
                     <<"roll_delete", "active">>, <<"roll_reject", "pending">>}
               /\ Begin(c, clerk'[c].pc, b)
               /\ clerk'[c].global = ban[b].global /\ clerk'[c].count = ban[b].count
<1> USE DEF ScopedTypeOK, dbVars, outside
<1>1. ban[b].global \in BOOLEAN /\ ban[b].count \in Nat
  BY DEF BanRows
<1>2. ASSUME NEW step \in Steps, Begin(c, step, b)
      PROVE  /\ clerk'[c].pc = step /\ clerk'[c].ban = b
             /\ clerk'[c].global = ban[b].global /\ clerk'[c].count = ban[b].count
             /\ \A d \in Clerks \ {c} : clerk'[d] = clerk[d]
  <2> DEFINE r == [Idle EXCEPT !.pc = step, !.ban = b, !.global = ban[b].global, !.count = ban[b].count]
  <2>1. r.pc = step /\ r.ban = b /\ r.global = ban[b].global /\ r.count = ban[b].count
    BY DEF Idle
  <2>2. clerk' = [clerk EXCEPT ![c] = r]
    BY <1>2 DEF Begin
  <2> HIDE DEF r
  <2> QED
    BY <2>1, <2>2
<1>3. CASE \E global \in BOOLEAN : scopedBanCreate(c, b, global)
  <2>1. PICK global \in BOOLEAN : scopedBanCreate(c, b, global)
    BY <1>3
  <2>2. size[b] \in Nat
    BY ScopedAssumption DEF ScopedAssumption
  <2> DEFINE r == [Idle EXCEPT !.pc = "reserve", !.ban = b, !.global = global, !.count = size[b]]
  <2>3. r.pc = "reserve" /\ r.ban = b /\ r.global = global
    BY DEF Idle
  <2>4. clerk' = [clerk EXCEPT ![c] = r]
    BY <2>1 DEF scopedBanCreate
  <2> HIDE DEF r
  <2>5. clerk'[c] = r /\ \A d \in Clerks \ {c} : clerk'[d] = clerk[d]
    BY <2>4
  <2> QED
    BY <2>1, <2>3, <2>5 DEF scopedBanCreate, LockedSteps
<1>4. CASE scopedBanApprove(c, b)
  BY <1>2, <1>4 DEF scopedBanApprove, Lock, Steps, LockedSteps
<1>5. CASE scopedBanReject(c, b)
  BY <1>2, <1>5 DEF scopedBanReject, Lock, Steps, LockedSteps
<1>6. CASE scopedBanRevoke(c, b)
  BY <1>2, <1>6 DEF scopedBanRevoke, Steps, LockedSteps, UnlockedRollback
<1>7. CASE lookupRollback(c, b)
  BY <1>2, <1>7 DEF lookupRollback, Steps, LockedSteps, UnlockedRollback
<1> QED
  BY <1>3, <1>4, <1>5, <1>6, <1>7 DEF Arrive

\* And at every other step.
LEMMA ScopedTypeStep == ScopedTypeOK /\ Busy /\ [ScopedNext]_scopedVars => (ScopedTypeOK /\ Busy)'
<1> SUFFICES ASSUME ScopedTypeOK, Busy, [ScopedNext]_scopedVars PROVE ScopedTypeOK' /\ Busy'
  OBVIOUS
<1>1. ASSUME NEW c \in Clerks, Continue(c) PROVE ScopedTypeOK' /\ Busy'
  BY <1>1, ContinueType, ClerkMove, IdleType DEF Busy, At
<1>2. ASSUME NEW c \in Clerks, NEW b \in Bans, Arrive(c, b) PROVE ScopedTypeOK' /\ Busy'
  BY <1>2, ArriveType, ClerkArrives DEF Busy, At
<1>3. ASSUME NEW c \in Clerks, Abort(c) PROVE ScopedTypeOK' /\ Busy'
  BY <1>3, IdleType DEF Abort, Return, ScopedTypeOK, Busy, At, dbVars, outside, Upsets
<1>4. CASE Restart
  BY <1>4, IdleType, RestoredType DEF Restart, ScopedTypeOK, Busy, At, dbVars, outside
<1>5. ASSUME NEW b \in Bans, Reload(b) PROVE ScopedTypeOK' /\ Busy'
  <2>1. reloads' \in Nat /\ size' \in [Bans -> Sizes]
    BY <1>5 DEF Reload, ScopedTypeOK
  <2> QED
    BY <1>5, <2>1 DEF Reload, ScopedTypeOK, Busy, At, dbVars
<1>6. ASSUME NEW x \in Hosts \union Bans, Protect(x) PROVE ScopedTypeOK' /\ Busy'
  BY <1>6 DEF Protect, ScopedTypeOK, Busy, At, dbVars
<1>7. CASE UNCHANGED scopedVars
  BY <1>7 DEF ScopedTypeOK, Busy, At, scopedVars, dbVars, outside
<1> QED
  BY <1>1, <1>2, <1>3, <1>4, <1>5, <1>6, <1>7 DEF ScopedNext

\* The types.  A handler that is not idle always has a ban, without which the
\* rows it indexes would not be there.
THEOREM ScopedTypeCorrect == ScopedSpec => []ScopedTypeOK
BY ScopedTypeInit, ScopedTypeStep, PTL DEF ScopedSpec

-----------------------------------------------------------------------------
(* decideMu.                                                               *)

\* The lock is taken at the start of a decision and let go at every end of it.
LEMMA LockStep ==
  ScopedTypeOK /\ Busy /\ LockDiscipline /\ [ScopedNext]_scopedVars => LockDiscipline'
<1> SUFFICES ASSUME ScopedTypeOK, Busy, LockDiscipline, [ScopedNext]_scopedVars
             PROVE  LockDiscipline'
  OBVIOUS
<1> USE DEF LockDiscipline
<1>0. Idle.pc \notin LockedSteps /\ NoClerk \notin Clerks
  BY ScopedAssumption DEF ScopedAssumption, Idle, LockedSteps
<1>1. ASSUME NEW c \in Clerks, Continue(c) PROVE LockDiscipline'
  BY <1>0, <1>1, ClerkMove
<1>2. ASSUME NEW c \in Clerks, NEW b \in Bans, Arrive(c, b) PROVE LockDiscipline'
  <2>1. clerk[c].pc \notin LockedSteps
    BY <1>0, <1>2, ClerkArrives DEF At, LockedSteps
  <2> QED
    BY <1>0, <1>2, <2>1, ClerkArrives
<1>3. ASSUME NEW c \in Clerks, Abort(c) PROVE LockDiscipline'
  BY <1>0, <1>3 DEF Abort, Return, ScopedTypeOK
<1>4. CASE Restart
  BY <1>0, <1>4 DEF Restart
<1>5. CASE (\E b \in Bans : Reload(b)) \/ (\E x \in Hosts \union Bans : Protect(x))
  BY <1>5 DEF Reload, Protect
<1>6. CASE UNCHANGED scopedVars
  BY <1>6 DEF scopedVars
<1> QED
  BY <1>1, <1>2, <1>3, <1>4, <1>5, <1>6 DEF ScopedNext

-----------------------------------------------------------------------------
(* The lifecycle.  Every step of a handler is, for its ban, one of these.    *)

SameRow(b) == ban'[b].state = ban[b].state /\ rows'[b] = rows[b]

\* It goes on, or ends, without any mark on the ban.
Quiet(c, b) ==
  /\ SameRow(b)
  /\ UNCHANGED effective
  /\ \/ clerk'[c] = Idle
     \/ {clerk[c].pc, clerk'[c].pc} \subseteq Creating
     \/ clerk[c].pc \in Ordering /\ clerk'[c].pc \in Ordering
     \/ {clerk[c].pc, clerk'[c].pc} \subseteq {"roll_delete", "roll_reject", "roll_revoke", "release"}

Inserts(c, b) ==
  /\ At(c, "insert")
  /\ ban'[b].state = "pending" /\ rows'[b] = rows[b]
  /\ UNCHANGED effective
  /\ clerk'[c] = Idle

Approves(c, b) ==
  /\ At(c, "approve")
  /\ ban[b].state = "pending" /\ ban'[b].state = "active"
  /\ effective' = effective \union {b}
  /\ rows'[b] = rows[b]
  /\ clerk'[c].pc = "resolve"

Orders(c, b) ==
  /\ clerk[c].pc \in {"dispatch", "rows"}
  /\ ban'[b].state = ban[b].state
  /\ rows'[b] # << >>
  /\ UNCHANGED effective
  /\ clerk'[c].pc \in {"ladder", "rows"}

Closes(c, b) ==
  /\ clerk[c].pc \in {"dispatch", "reject", "roll_reject", "roll_revoke"}
  /\ ban'[b].state \in {"rejected", "revoked", "safety_blocked"}
  /\ rows'[b] = rows[b]
  /\ UNCHANGED effective
  /\ clerk'[c] = Idle \/ clerk'[c].pc \in {"release", "release_locked"}

\* All that a statement of a handler can do to its ban, and it does it to no other.
LEMMA StepEffect ==
  ASSUME ScopedTypeOK, Busy, NEW c \in Clerks, NEW b \in Bans, b = clerk[c].ban, Continue(c)
  PROVE  /\ \A x \in Bans \ {b} : ban'[x] = ban[x] /\ rows'[x] = rows[x]
         /\ \/ Quiet(c, b)
            \/ Inserts(c, b)
            \/ Approves(c, b)
            \/ Orders(c, b)
            \/ Closes(c, b)
<1> DEFINE Effect ==
      /\ \A x \in Bans \ {b} : ban'[x] = ban[x] /\ rows'[x] = rows[x]
      /\ Quiet(c, b) \/ Inserts(c, b) \/ Approves(c, b) \/ Orders(c, b) \/ Closes(c, b)
<1> USE DEF dbVars, At, Effect
<1>1. ban \in [Bans -> BanRows] /\ rows \in [Bans -> Seq(Nat)] /\ clerk \in [Clerks -> ClerkRecords]
  BY DEF ScopedTypeOK
<1>2. Return(c) => clerk'[c] = Idle
  BY <1>1 DEF Return
<1>3. \A step : Goto(c, step) => clerk'[c].pc = step
  BY <1>1 DEF Goto, ClerkRecords
<1>4. \A s : SetState(b, s) => ban'[b].state = s /\ \A x \in Bans \ {b} : ban'[x] = ban[x]
  BY <1>1 DEF SetState, BanRows
<1>5. CASE scopedBanCreate_Reserve(c)
  <2>1. clerk'[c] = Idle \/ clerk'[c].pc = "insert"
    BY <1>1, <1>2, <1>5 DEF scopedBanCreate_Reserve, ClerkRecords
  <2> QED
    BY <1>5, <2>1 DEF scopedBanCreate_Reserve, Quiet, SameRow, Creating
<1>6. CASE scopedBanCreate_Insert(c)
  <2>1. ban'[b].state = "pending" /\ \A x \in Bans \ {b} : ban'[x] = ban[x]
    BY <1>1, <1>6 DEF scopedBanCreate_Insert
  <2> QED
    BY <1>2, <1>6, <2>1 DEF scopedBanCreate_Insert, Inserts
<1>7. CASE scopedBanCreate_InsertFails(c) \/ scopedBanApprove_NoDatabase(c)
  BY <1>2, <1>7 DEF scopedBanCreate_InsertFails, scopedBanApprove_NoDatabase, Quiet, SameRow
<1>8. CASE scopedBanApprove_Commit(c)
  <2>1. CASE ban[b].state = "pending"
    <3>1. clerk'[c].pc = "resolve"
      BY <1>1, <1>8, <2>1 DEF scopedBanApprove_Commit, ClerkRecords
    <3> QED
      BY <1>4, <1>8, <2>1, <3>1 DEF scopedBanApprove_Commit, Approves
  <2>2. CASE ban[b].state # "pending"
    BY <1>2, <1>8, <2>2 DEF scopedBanApprove_Commit, Quiet, SameRow
  <2> QED
    BY <2>1, <2>2
<1>9. CASE scopedBanApprove_Resolve(c)
  <2>1. clerk'[c].pc \in {"dispatch", "rereserve"}
    BY <1>1, <1>9 DEF scopedBanApprove_Resolve, ClerkRecords
  <2> QED
    BY <1>9, <2>1 DEF scopedBanApprove_Resolve, Quiet, SameRow, Ordering
<1>10. CASE \/ scopedBanApprove_Rereserve(c) \/ scopedBanApprove_Restore(c)
            \/ scopedBanApprove_RecountFails(c)
  BY <1>2, <1>3, <1>10 DEF scopedBanApprove_Rereserve, scopedBanApprove_Restore,
    scopedBanApprove_RecountFails, Quiet, SameRow, Ordering
<1>11. CASE scopedBanApprove_Recount(c)
  <2>1. ban'[b].state = ban[b].state /\ \A x \in Bans \ {b} : ban'[x] = ban[x]
    BY <1>1, <1>11 DEF scopedBanApprove_Recount, BanRows
  <2> QED
    BY <1>3, <1>11, <2>1 DEF scopedBanApprove_Recount, Quiet, SameRow, Ordering
<1>12. CASE CreateDispatch_Veto(c)
  BY <1>2, <1>4, <1>12 DEF CreateDispatch_Veto, Closes
<1>13. CASE CreateScopedDispatch(c)
  <2>1. rows'[b] # << >> /\ \A x \in Bans \ {b} : rows'[x] = rows[x]
    BY <1>1, <1>13 DEF CreateScopedDispatch
  <2> QED
    BY <1>3, <1>13, <2>1 DEF CreateScopedDispatch, Orders
<1>14. CASE CreateGlobalScopedDispatch(c)
  <2>1. CASE rows' = [rows EXCEPT ![b] = Append(@, 1)] /\ Goto(c, "rows") /\ UNCHANGED mu
    <3>1. \A s \in Seq(Nat) : Append(s, 1) # << >>
      OBVIOUS
    <3>2. rows'[b] # << >> /\ \A x \in Bans \ {b} : rows'[x] = rows[x]
      BY <1>1, <2>1, <3>1
    <3> QED
      BY <1>3, <1>14, <2>1, <3>2 DEF CreateGlobalScopedDispatch, Orders
  <2>2. CASE Return(c) /\ UNCHANGED rows
    BY <1>2, <1>14, <2>2 DEF CreateGlobalScopedDispatch, Quiet, SameRow
  <2> QED
    BY <1>14, <2>1, <2>2 DEF CreateGlobalScopedDispatch
<1>15. CASE recordLadder(c) \/ ReleaseQuota(c)
  BY <1>2, <1>15 DEF recordLadder, ReleaseQuota, Quiet, SameRow
<1>16. CASE scopedBanReject_Commit(c)
  BY <1>2, <1>3, <1>4, <1>16 DEF scopedBanReject_Commit, Quiet, SameRow, Closes
<1>17. CASE lookupRollback_Reject(c) \/ scopedBanRevoke_Commit(c)
  BY <1>3, <1>4, <1>17 DEF lookupRollback_Reject, scopedBanRevoke_Commit, Closes
<1>18. CASE scopedBanRevoke_Delete(c)
  BY <1>2, <1>3, <1>18 DEF scopedBanRevoke_Delete, Quiet, SameRow
<1>19. CASE lookupRollback_UpdateFails(c)
  BY <1>3, <1>19 DEF lookupRollback_UpdateFails, Quiet, SameRow
<1> HIDE DEF Effect
<1> QED
  BY <1>5, <1>6, <1>7, <1>8, <1>9, <1>10, <1>11, <1>12, <1>13, <1>14, <1>15, <1>16, <1>17, <1>18, <1>19
     DEF Continue

\* A handler that ends leaves what the others rely on.
LEMMA IdleKeeps ==
  ASSUME LifeInv, NEW S \in SUBSET Clerks, UNCHANGED <<ban, effective, rows>>,
         \A c \in S : clerk'[c] = Idle, \A c \in Clerks \ S : clerk'[c] = clerk[c]
  PROVE  (CreatingOnce /\ KnownBan /\ ApprovedFirst /\ OrderedOnce)'
<1>1. /\ Idle.pc = "idle" /\ Idle.ban = NoBan /\ NoBan \notin Bans
      /\ "idle" \notin Creating \union Ordering \union {"rows"}
  BY ScopedAssumption, IdleType DEF ScopedAssumption, Creating, Ordering
<1>2. \A c \in Clerks : clerk[c].pc # "idle" => clerk[c].ban \in Bans
  BY DEF LifeInv, Busy, At
<1>3. CreatingOnce'
  BY <1>1, <1>2 DEF LifeInv, CreatingOnce
<1>4. KnownBan'
  BY <1>1 DEF LifeInv, KnownBan
<1>5. ApprovedFirst'
  BY DEF LifeInv, ApprovedFirst
<1>6. OrderedOnce'
  BY <1>1 DEF LifeInv, OrderedOnce, At
<1> QED
  BY <1>3, <1>4, <1>5, <1>6

\* A statement of a handler keeps what the others rely on.
LEMMA ContinueKeeps ==
  ASSUME LifeInv, NEW c \in Clerks, Continue(c)
  PROVE  (CreatingOnce /\ KnownBan /\ ApprovedFirst /\ OrderedOnce)'
<1> DEFINE b == clerk[c].ban
<1> USE DEF At
<1>1. /\ b \in Bans /\ clerk[c].pc # "idle"
      /\ \A d \in Clerks \ {c} : clerk'[d] = clerk[d]
      /\ clerk'[c] = Idle \/ clerk'[c].ban = b
  BY ClerkMove DEF LifeInv
<1>2. /\ \A x \in Bans \ {b} : ban'[x] = ban[x] /\ rows'[x] = rows[x]
      /\ Quiet(c, b) \/ Inserts(c, b) \/ Approves(c, b) \/ Orders(c, b) \/ Closes(c, b)
  BY <1>1, StepEffect DEF LifeInv
<1>3. Idle.pc = "idle" /\ Idle.ban = NoBan /\ NoBan \notin Bans
  BY ScopedAssumption, IdleType DEF ScopedAssumption
<1>4. \A d \in Clerks : clerk[d].pc # "idle" => clerk[d].ban \in Bans
  BY DEF LifeInv, Busy
<1>5. \A d \in Clerks \ {c} : ~({clerk[c].pc, clerk[d].pc} \subseteq LockedSteps)
  BY DEF LifeInv, LockDiscipline
<1> HIDE DEF b
<1>6. b = clerk[c].ban
  BY DEF b
<1>7. CASE Quiet(c, b)
  <2>1. CreatingOnce'
    BY <1>1, <1>2, <1>3, <1>4, <1>6, <1>7 DEF LifeInv, CreatingOnce, Quiet, SameRow, Creating, Ordering
  <2>2. KnownBan'
    BY <1>1, <1>2, <1>3, <1>4, <1>6, <1>7 DEF LifeInv, KnownBan, Quiet, SameRow, Creating, Ordering
  <2>3. ApprovedFirst'
    BY <1>2, <1>7 DEF LifeInv, ApprovedFirst, Quiet, SameRow
  <2>4. OrderedOnce'
    BY <1>1, <1>2, <1>3, <1>4, <1>6, <1>7 DEF LifeInv, OrderedOnce, Quiet, SameRow, Creating, Ordering
  <2> QED
    BY <2>1, <2>2, <2>3, <2>4
<1>8. CASE Inserts(c, b)
  <2>1. /\ ban[b].state = "none" /\ b \notin effective
        /\ \A d \in Clerks \ {c} : clerk[d].ban # b
    BY <1>1, <1>6, <1>8 DEF LifeInv, CreatingOnce, ApprovedFirst, Inserts, Creating
  <2>2. CreatingOnce'
    BY <1>1, <1>2, <1>3, <1>4, <1>8, <2>1 DEF LifeInv, CreatingOnce, Inserts, Creating
  <2>3. KnownBan'
    BY <1>1, <1>2, <1>3, <1>4, <1>8, <2>1 DEF LifeInv, KnownBan, Inserts, Creating
  <2>4. ApprovedFirst'
    BY <1>1, <1>2, <1>8, <2>1 DEF LifeInv, ApprovedFirst, Inserts
  <2>5. OrderedOnce'
    BY <1>1, <1>2, <1>3, <1>4, <1>8, <2>1 DEF LifeInv, OrderedOnce, Inserts, Ordering
  <2> QED
    BY <2>2, <2>3, <2>4, <2>5
<1>9. CASE Approves(c, b)
  <2>1. rows[b] = << >> /\ clerk'[c].ban = b
    BY <1>1, <1>3, <1>9 DEF LifeInv, ApprovedFirst, Approves
  <2>2. CreatingOnce'
    BY <1>1, <1>2, <1>3, <1>4, <1>6, <1>9, <2>1 DEF LifeInv, CreatingOnce, Approves, Creating
  <2>3. KnownBan'
    BY <1>1, <1>2, <1>4, <1>9, <2>1 DEF LifeInv, KnownBan, Approves, Creating
  <2>4. ApprovedFirst'
    BY <1>1, <1>2, <1>9, <2>1 DEF LifeInv, ApprovedFirst, Approves
  <2>5. OrderedOnce'
    BY <1>1, <1>2, <1>4, <1>9, <2>1 DEF LifeInv, OrderedOnce, Approves, Ordering
  <2> QED
    BY <2>2, <2>3, <2>4, <2>5
<1>10. CASE Orders(c, b)
  <2>1. b \in effective /\ clerk'[c].ban = b
    BY <1>1, <1>3, <1>6, <1>10 DEF LifeInv, OrderedOnce, Orders, Ordering
  <2>2. \A d \in Clerks \ {c} : clerk[d].pc \notin Ordering \union {"rows"}
    BY <1>5, <1>10 DEF Orders, Ordering, LockedSteps
  <2>3. CreatingOnce'
    BY <1>1, <1>2, <1>4, <1>6, <1>10, <2>1 DEF LifeInv, CreatingOnce, KnownBan, Orders, Creating
  <2>4. KnownBan'
    BY <1>1, <1>2, <1>4, <1>6, <1>10, <2>1 DEF LifeInv, KnownBan, Orders, Creating
  <2>5. ApprovedFirst'
    BY <1>1, <1>2, <1>10, <2>1 DEF LifeInv, ApprovedFirst, Orders
  <2>6. OrderedOnce'
    BY <1>1, <1>2, <1>4, <1>10, <2>1, <2>2 DEF LifeInv, OrderedOnce, Orders, Ordering
  <2> QED
    BY <2>3, <2>4, <2>5, <2>6
<1>11. CASE Closes(c, b)
  <2>1. \A d \in Clerks : clerk[d].pc \in Creating => clerk[d].ban # b
    BY <1>6, <1>11 DEF LifeInv, CreatingOnce, KnownBan, Closes, Creating
  <2>2. clerk'[c].pc \notin Creating \union Ordering \union {"rows"}
    BY <1>3, <1>11 DEF Closes, Creating, Ordering
  <2>3. CreatingOnce'
    BY <1>1, <1>2, <1>3, <1>4, <2>1, <2>2 DEF LifeInv, CreatingOnce, Creating
  <2>4. KnownBan'
    BY <1>1, <1>2, <1>3, <1>4, <1>11, <2>2 DEF LifeInv, KnownBan, Closes
  <2>5. ApprovedFirst'
    BY <1>2, <1>11 DEF LifeInv, ApprovedFirst, Closes
  <2>6. OrderedOnce'
    BY <1>1, <1>2, <1>4, <1>11, <2>2 DEF LifeInv, OrderedOnce, Closes, Ordering
  <2> QED
    BY <2>3, <2>4, <2>5, <2>6
<1> QED
  BY <1>2, <1>7, <1>8, <1>9, <1>10, <1>11

\* So does the beginning of one.
LEMMA ArriveKeeps ==
  ASSUME LifeInv, NEW c \in Clerks, NEW b \in Bans, Arrive(c, b)
  PROVE  (CreatingOnce /\ KnownBan /\ ApprovedFirst /\ OrderedOnce)'
<1>1. /\ \A d \in Clerks \ {c} : clerk'[d] = clerk[d]
      /\ clerk'[c].ban = b
      /\ UNCHANGED <<ban, effective, rows>>
      /\ \/ /\ clerk'[c].pc = "reserve" /\ ban[b].state = "none"
            /\ \A d \in Clerks : clerk[d].ban # b
         \/ /\ clerk'[c].pc \in {"approve", "reject", "roll_delete", "roll_reject"}
            /\ ban[b].state # "none"
  BY ArriveType, ClerkArrives DEF LifeInv
<1> USE <1>1 DEF LifeInv
<1>2. CreatingOnce'
  BY DEF CreatingOnce, Creating
<1>3. KnownBan'
  BY DEF KnownBan, Creating
<1>4. ApprovedFirst'
  BY DEF ApprovedFirst
<1>5. OrderedOnce'
  BY DEF OrderedOnce, Ordering, At
<1> QED
  BY <1>2, <1>3, <1>4, <1>5

\* There are no bans at the start.
LEMMA LifeInit == ScopedInit => LifeInv
<1> SUFFICES ASSUME ScopedInit PROVE LifeInv
  OBVIOUS
<1> USE DEF ScopedInit
<1>1. mu \notin Clerks /\ \A c \in Clerks : clerk[c].pc = "idle"
  BY ScopedAssumption, IdleType DEF ScopedAssumption
<1>2. LockDiscipline
  BY <1>1 DEF LockDiscipline, LockedSteps
<1>3. CreatingOnce /\ KnownBan /\ OrderedOnce
  BY <1>1 DEF CreatingOnce, KnownBan, OrderedOnce, Creating, Ordering, At
<1>4. ApprovedFirst
  BY DEF ApprovedFirst
<1> QED
  BY <1>2, <1>3, <1>4, ScopedTypeInit DEF LifeInv

\* All steps keep it, restarts included.
LEMMA LifeStep == LifeInv /\ [ScopedNext]_scopedVars => LifeInv'
<1> SUFFICES ASSUME LifeInv, [ScopedNext]_scopedVars
             PROVE  (CreatingOnce /\ KnownBan /\ ApprovedFirst /\ OrderedOnce)'
  BY ScopedTypeStep, LockStep DEF LifeInv
<1>1. ASSUME NEW c \in Clerks, Continue(c)
      PROVE  (CreatingOnce /\ KnownBan /\ ApprovedFirst /\ OrderedOnce)'
  BY <1>1, ContinueKeeps
<1>2. ASSUME NEW c \in Clerks, NEW b \in Bans, Arrive(c, b)
      PROVE  (CreatingOnce /\ KnownBan /\ ApprovedFirst /\ OrderedOnce)'
  BY <1>2, ArriveKeeps
<1>3. ASSUME NEW c \in Clerks, Abort(c)
      PROVE  (CreatingOnce /\ KnownBan /\ ApprovedFirst /\ OrderedOnce)'
  <2>1. clerk'[c] = Idle /\ \A d \in Clerks \ {c} : clerk'[d] = clerk[d]
    BY <1>3 DEF Abort, Return, LifeInv, ScopedTypeOK
  <2>2. UNCHANGED <<ban, effective, rows>>
    BY <1>3 DEF Abort, dbVars
  <2> DEFINE S == {c}
  <2>3. S \in SUBSET Clerks /\ \A d \in S : clerk'[d] = Idle
    BY <2>1
  <2>4. \A d \in Clerks \ S : clerk'[d] = clerk[d]
    BY <2>1
  <2> HIDE DEF S
  <2> QED
    BY <2>2, <2>3, <2>4, IdleKeeps
<1>4. CASE Restart
  <2>1. \A d \in Clerks : clerk'[d] = Idle
    BY <1>4 DEF Restart
  <2>2. UNCHANGED <<ban, effective, rows>>
    BY <1>4 DEF Restart, dbVars
  <2> QED
    BY <2>1, <2>2, IdleKeeps
<1>5. CASE UNCHANGED <<ban, effective, rows, clerk>>
  <2> DEFINE S == {}
  <2>1. S \in SUBSET Clerks /\ \A d \in S : clerk'[d] = Idle
    OBVIOUS
  <2>2. \A d \in Clerks \ S : clerk'[d] = clerk[d]
    BY <1>5
  <2>3. UNCHANGED <<ban, effective, rows>>
    BY <1>5
  <2> HIDE DEF S
  <2> QED
    BY <2>1, <2>2, <2>3, IdleKeeps
<1>6. ASSUME NEW b \in Bans, Reload(b) PROVE UNCHANGED <<ban, effective, rows, clerk>>
  BY <1>6 DEF Reload, dbVars
<1>7. ASSUME NEW x \in Hosts \union Bans, Protect(x) PROVE UNCHANGED <<ban, effective, rows, clerk>>
  BY <1>7 DEF Protect, dbVars
<1>8. CASE UNCHANGED scopedVars
  BY <1>5, <1>8 DEF scopedVars, dbVars
<1> QED
  BY <1>1, <1>2, <1>3, <1>4, <1>5, <1>6, <1>7, <1>8 DEF ScopedNext

\* So it always holds.
LEMMA LifeInvariant == ScopedSpec => []LifeInv
BY LifeInit, LifeStep, PTL DEF ScopedSpec

\* The lifecycle sees a step of one ban as a change of its phase and its orders.
LEMMA LifecycleView ==
  ASSUME NEW b \in Bans,
         \A x \in Bans \ {b} : ban'[x] = ban[x] /\ rows'[x] = rows[x],
         NEW p, p = Phase(ban'[b].state), NEW n, n = (IF rows'[b] = << >> THEN 0 ELSE 1)
  PROVE  /\ [x \in Bans |-> Phase(ban[x].state)]' =
              [[x \in Bans |-> Phase(ban[x].state)] EXCEPT ![b] = p]
         /\ [x \in Bans |-> IF rows[x] = << >> THEN 0 ELSE 1]' =
              [[x \in Bans |-> IF rows[x] = << >> THEN 0 ELSE 1] EXCEPT ![b] = n]
<1>1. \A x \in Bans \ {b} : /\ Phase(ban'[x].state) = Phase(ban[x].state)
                            /\ rows'[x] = << >> <=> rows[x] = << >>
  OBVIOUS
<1> HIDE DEF Phase
<1> QED
  BY <1>1

\* Every step is a step of the lifecycle of one ban, or none.
LEMMA LifecycleStep == LifeInv /\ [ScopedNext]_scopedVars => [Lifecycle!LifecycleNext]_Lifecycle!lifecycleVars
<1> SUFFICES ASSUME LifeInv, [ScopedNext]_scopedVars
             PROVE  [Lifecycle!LifecycleNext]_Lifecycle!lifecycleVars
  OBVIOUS
<1> DEFINE phase == [x \in Bans |-> Phase(ban[x].state)]
           orders == [x \in Bans |-> IF rows[x] = << >> THEN 0 ELSE 1]
<1> USE DEF Lifecycle!LifecycleNext, Lifecycle!lifecycleVars, Lifecycle!Submit, Lifecycle!Approve,
            Lifecycle!Close, Lifecycle!Order
<1>1. CASE UNCHANGED <<ban, effective, rows>>
  BY <1>1
<1>2. ASSUME NEW c \in Clerks, Continue(c)
      PROVE  [Lifecycle!LifecycleNext]_Lifecycle!lifecycleVars
  <2> DEFINE b == clerk[c].ban
  <2>1. b \in Bans
    BY <1>2, ClerkMove DEF LifeInv
  <2>2. /\ \A x \in Bans \ {b} : ban'[x] = ban[x] /\ rows'[x] = rows[x]
        /\ Quiet(c, b) \/ Inserts(c, b) \/ Approves(c, b) \/ Orders(c, b) \/ Closes(c, b)
    BY <1>2, <2>1, StepEffect DEF LifeInv
  <2>3. PICK p, n : p = Phase(ban'[b].state) /\ n = (IF rows'[b] = << >> THEN 0 ELSE 1)
    OBVIOUS
  <2> HIDE DEF b
  <2>4. b = clerk[c].ban
    BY DEF b
  <2>5. phase' = [phase EXCEPT ![b] = p] /\ orders' = [orders EXCEPT ![b] = n]
    BY <2>1, <2>2, <2>3, LifecycleView, Zenon
  <2>6. phase[b] = Phase(ban[b].state) /\ orders[b] = (IF rows[b] = << >> THEN 0 ELSE 1)
    BY <2>1
  <2>7. phase = [phase EXCEPT ![b] = phase[b]] /\ orders = [orders EXCEPT ![b] = orders[b]]
    OBVIOUS
  <2>8. CASE Quiet(c, b)
    <3>1. p = phase[b] /\ n = orders[b]
      BY <2>3, <2>6, <2>8 DEF Quiet, SameRow
    <3> QED
      BY <2>5, <2>7, <2>8, <3>1 DEF Quiet
  <2>9. CASE Inserts(c, b)
    <3>1. phase[b] = "none" /\ p = "pending" /\ n = orders[b]
      BY <2>3, <2>6, <2>4, <2>9 DEF Inserts, LifeInv, CreatingOnce, Creating, At, Phase
    <3> QED
      BY <2>1, <2>5, <2>7, <2>9, <3>1 DEF Inserts
  <2>10. CASE Approves(c, b)
    <3>1. phase[b] = "pending" /\ p = "active" /\ n = orders[b]
      BY <2>3, <2>6, <2>10 DEF Approves, Phase
    <3> QED
      BY <2>1, <2>5, <2>7, <2>10, <3>1 DEF Approves
  <2>11. CASE Orders(c, b)
    <3>1. p = phase[b] /\ n = 1 /\ orders[b] \in {0, 1}
      BY <2>3, <2>6, <2>11 DEF Orders
    <3>2. b \in effective
      BY <2>4, <2>11 DEF Orders, LifeInv, OrderedOnce, Ordering, At
    <3> QED
      BY <2>1, <2>5, <2>7, <2>11, <3>1, <3>2 DEF Orders
  <2>12. CASE Closes(c, b)
    <3>1. p = "closed" /\ n = orders[b]
      BY <2>3, <2>6, <2>12 DEF Closes, Phase
    <3>2. ban[b].state \in BanStates \ {"none"}
      BY <2>1, <2>4, <2>12 DEF Closes, LifeInv, ScopedTypeOK, BanRows, KnownBan, Creating
    <3>3. phase[b] \in {"pending", "active", "closed"}
      BY <2>6, <3>2 DEF Phase, BanStates
    <3> QED
      BY <2>1, <2>5, <2>7, <2>12, <3>1, <3>3 DEF Closes
  <2> QED
    BY <2>2, <2>8, <2>9, <2>10, <2>11, <2>12
<1>3. ASSUME NEW c \in Clerks, NEW b \in Bans, Arrive(c, b) PROVE UNCHANGED <<ban, effective, rows>>
  BY <1>3, ClerkArrives DEF LifeInv
<1> QED
  BY <1>1, <1>2, <1>3 DEF ScopedNext, Abort, Restart, Reload, Protect, scopedVars, dbVars

\* Both start without bans.
LEMMA LifecycleStart == ScopedInit => Lifecycle!LifecycleInit
BY DEF ScopedInit, Lifecycle!LifecycleInit, Phase

\* Bans by country and AS keep the promises of the plain ones: approved once and
\* from pending only, never reopened, and no row without an approval, although
\* the rollbacks take no lock and a global ban becomes many rows.
THEOREM ScopedLifecycle == ScopedSpec => ScopedImplementsLifecycle
BY LifecycleStart, LifecycleStep, LifeInvariant, PTL
   DEF ScopedSpec, ScopedImplementsLifecycle, Lifecycle!LifecycleSpec

-----------------------------------------------------------------------------
(* The rows and the column.                                                *)

\* A ban without rows blocks no prefix.
LEMMA SumEmpty == SumFunction(<< >>) = 0
<1>1. DOMAIN << >> = {} /\ IsFiniteSet({})
  BY FS_EmptySet
<1>2. SumOf(<< >>, {}) = 0
  BY <1>1, SumRec
<1> QED
  BY <1>1, <1>2, FoldIsSum

\* A sequence with one more element has that much more as its sum.
LEMMA SumAppend ==
  ASSUME NEW s \in Seq(Nat), NEW n \in Nat
  PROVE  SumFunction(Append(s, n)) = SumFunction(s) + n /\ SumFunction(s) \in Nat
<1> DEFINE L == Len(s)
           t == Append(s, n)
<1>1. L \in Nat /\ DOMAIN s = 1 .. L /\ \A x \in 1 .. L : s[x] \in Nat
  OBVIOUS
<1>2. /\ DOMAIN t = 1 .. L + 1 /\ t[L + 1] = n
      /\ \A x \in 1 .. L : t[x] = s[x]
      /\ \A x \in 1 .. L + 1 : t[x] \in Nat
  OBVIOUS
<1> HIDE DEF L, t
<1>3. IsFiniteSet(1 .. L) /\ IsFiniteSet(1 .. L + 1)
  BY <1>1, FS_Interval
<1>4. (1 .. L + 1) \ {L + 1} = 1 .. L /\ L + 1 \in 1 .. L + 1
  BY <1>1
<1> DEFINE D == 1 .. L + 1
           E == 1 .. L
           last == L + 1
<1> HIDE DEF D, E, last
<1>5. SumOf(t, D) = t[last] + SumOf(t, D \ {last})
  <2>1. IsFiniteSet(D) /\ D \in SUBSET D /\ last \in D /\ \A x \in D : t[x] \in Nat
    BY <1>2, <1>3, <1>4 DEF D, last
  <2> QED
    BY <2>1, SumAny
<1>6. SumOf(t, E) = SumOf(s, E)
  <2>1. IsFiniteSet(E) /\ E \in SUBSET E /\ \A x \in E : t[x] = s[x]
    BY <1>2, <1>3 DEF E
  <2> QED
    BY <2>1, SumSame
<1>7. SumOf(s, 1 .. L) \in Nat
  BY <1>1, <1>3, SumType
<1>8. SumFunction(t) = SumOf(t, 1 .. L + 1) /\ SumFunction(s) = SumOf(s, 1 .. L)
  BY <1>1, <1>2, FoldIsSum
<1>9. /\ SumFunction(t) = SumOf(t, D) /\ SumFunction(s) = SumOf(s, E)
      /\ SumOf(s, E) \in Nat /\ t[last] = n /\ D \ {last} = E
  BY <1>2, <1>4, <1>7, <1>8 DEF D, E, last
<1>10. SumOf(t, D) = n + SumOf(s, E)
  BY <1>5, <1>6, <1>9, Zenon
<1>11. PICK m \in Nat : m = SumOf(s, E)
  BY <1>9
<1>12. n + m = m + n
  OBVIOUS
<1>13. SumFunction(t) = SumFunction(s) + n /\ SumFunction(s) \in Nat
  BY <1>9, <1>10, <1>11, <1>12, Zenon
<1> QED
  BY <1>13 DEF t

\* While no handler has stopped halfway: the count a handler holds is the one of
\* the column before it resolves the selection again, and the new one is when it
\* creates the rows; and the rows of a global ban grow up to it, one prefix each.
CountsFor(c) ==
  LET b == clerk[c].ban IN
  /\ At(c, "rows") => Len(rows[b]) <= clerk[c].new /\ SumFunction(rows[b]) = Len(rows[b])
  /\ faults = 0 /\ clerk[c].pc \in {"resolve", "rereserve"} => clerk[c].count = ban[b].count
  /\ faults = 0 /\ clerk[c].pc \in {"dispatch", "rows"} => clerk[c].new = ban[b].count

RowsInv == LifeInv /\ (\A c \in Clerks : CountsFor(c)) /\ RowsMatchCount

CountingSteps == {"resolve", "rereserve", "dispatch", "rows"}

\* What is enough for a step of c at b: that the others are not counting b where
\* it changes, and that c leaves its own part in order.
LEMMA CountsKept ==
  ASSUME RowsInv, NEW c \in Clerks, NEW b \in Bans,
         \A d \in Clerks \ {c} : clerk'[d] = clerk[d],
         \A x \in Bans \ {b} : ban'[x] = ban[x] /\ rows'[x] = rows[x],
         faults' = 0 => faults = 0,
         clerk[c].ban = b \/ At(c, "idle"),
         \/ rows'[b] = rows[b] /\ ban'[b].count = ban[b].count
         \/ \A d \in Clerks \ {c} : clerk[d].pc \in CountingSteps => clerk[d].ban # b,
         CountsFor(c)',
         \/ faults' # 0
         \/ rows'[b] = rows[b] /\ ban'[b].count = ban[b].count /\ ~At(c, "rows")
         \/ rows'[b] = << >>
         \/ At(c, "rows")' /\ clerk'[c].ban = b
         \/ SumFunction(rows'[b]) = ban'[b].count
  PROVE  (\A d \in Clerks : CountsFor(d))' /\ RowsMatchCount'
<1>1. \A d \in Clerks : clerk[d].pc # "idle" => clerk[d].ban \in Bans
  BY DEF RowsInv, LifeInv, Busy, At
<1>2. ASSUME NEW d \in Clerks \ {c} PROVE CountsFor(d)'
  <2>1. CASE clerk[d].pc \in CountingSteps
    <3>1. CountsFor(d) /\ clerk'[d] = clerk[d] /\ clerk[d].ban \in Bans
      BY <1>1, <2>1 DEF RowsInv, CountingSteps
    <3>2. rows'[clerk[d].ban] = rows[clerk[d].ban] /\ ban'[clerk[d].ban].count = ban[clerk[d].ban].count
      BY <2>1, <3>1
    <3> QED
      BY <3>1, <3>2 DEF CountsFor, At
  <2>2. CASE clerk[d].pc \notin CountingSteps
    BY <2>2 DEF CountsFor, At, CountingSteps
  <2> QED
    BY <2>1, <2>2
<1>3. ASSUME faults' = 0, NEW x \in Bans
      PROVE  \/ rows'[x] = << >>
             \/ \E d \in Clerks : At(d, "rows")' /\ clerk'[d].ban = x
             \/ SumFunction(rows'[x]) = ban'[x].count
  <2>1. \/ rows[x] = << >>
        \/ \E d \in Clerks : At(d, "rows") /\ clerk[d].ban = x
        \/ SumFunction(rows[x]) = ban[x].count
    BY <1>3 DEF RowsInv, RowsMatchCount
  <2>2. CASE \E d \in Clerks \ {c} : At(d, "rows") /\ clerk[d].ban = x
    BY <2>2 DEF At
  <2>3. CASE /\ x # b \/ (rows'[b] = rows[b] /\ ban'[b].count = ban[b].count /\ ~At(c, "rows"))
             /\ ~ \E d \in Clerks \ {c} : At(d, "rows") /\ clerk[d].ban = x
    <3>1. rows'[x] = rows[x] /\ ban'[x].count = ban[x].count
      BY <2>3
    <3>2. ~(At(c, "rows") /\ clerk[c].ban = x)
      BY <2>3 DEF At
    <3> QED
      BY <2>1, <2>3, <3>1, <3>2
  <2> QED
    BY <1>3, <2>2, <2>3
<1>4. RowsMatchCount'
  BY <1>3 DEF RowsMatchCount
<1> QED
  BY <1>2, <1>4

\* A statement of a handler keeps the rows and the column in step.
LEMMA ContinueCounts ==
  ASSUME RowsInv, NEW c \in Clerks, Continue(c)
  PROVE  (\A d \in Clerks : CountsFor(d))' /\ RowsMatchCount'
<1> DEFINE b == clerk[c].ban
           Kept == rows'[b] = rows[b] /\ ban'[b].count = ban[b].count
           Good == (\A d \in Clerks : CountsFor(d))' /\ RowsMatchCount'
<1>1. /\ b \in Bans /\ clerk[c].pc # "idle"
      /\ \A d \in Clerks \ {c} : clerk'[d] = clerk[d]
      /\ clerk'[c] = Idle \/ clerk'[c].ban = b
  BY ClerkMove DEF RowsInv, LifeInv, At
<1>2. \A x \in Bans \ {b} : ban'[x] = ban[x] /\ rows'[x] = rows[x]
  BY <1>1, StepEffect DEF RowsInv, LifeInv
<1>3. faults \in Nat /\ (faults' = faults \/ faults' = faults + 1)
  BY DEF RowsInv, LifeInv, ScopedTypeOK, Continue, scopedBanCreate_Reserve, scopedBanCreate_Insert,
     scopedBanCreate_InsertFails, scopedBanApprove_Commit, scopedBanApprove_Resolve,
     scopedBanApprove_NoDatabase, scopedBanApprove_Rereserve, scopedBanApprove_Restore,
     scopedBanApprove_Recount, scopedBanApprove_RecountFails, CreateDispatch_Veto,
     CreateScopedDispatch, CreateGlobalScopedDispatch, recordLadder, scopedBanReject_Commit,
     lookupRollback_Reject, scopedBanRevoke_Delete, scopedBanRevoke_Commit,
     lookupRollback_UpdateFails, ReleaseQuota
<1>4. faults' = 0 => faults = 0
  BY <1>3
<1>5. \A d \in Clerks \ {c} : ~({clerk[c].pc, clerk[d].pc} \subseteq LockedSteps)
  BY DEF RowsInv, LifeInv, LockDiscipline
<1>6. CountsFor(c)
  BY DEF RowsInv
<1>7. /\ ban \in [Bans -> BanRows] /\ rows \in [Bans -> Seq(Nat)] /\ clerk \in [Clerks -> ClerkRecords]
      /\ Idle.pc = "idle" /\ clerk[c].new \in Nat
  BY IdleType DEF RowsInv, LifeInv, ScopedTypeOK, ClerkRecords
<1> HIDE DEF b
<1>8. b = clerk[c].ban
  BY DEF b
<1>9. ASSUME Kept, clerk[c].pc # "rows", clerk'[c].pc \notin CountingSteps PROVE Good
  <2>1. CountsFor(c)'
    BY <1>9 DEF CountsFor, At, CountingSteps
  <2> QED
    BY <1>1, <1>2, <1>4, <1>8, <1>9, <2>1, CountsKept DEF At
<1>10. Return(c) => clerk'[c].pc = "idle"
  BY <1>7 DEF Return
<1>11. \A step : Goto(c, step) => /\ clerk'[c].pc = step /\ clerk'[c].ban = clerk[c].ban
                                  /\ clerk'[c].count = clerk[c].count
                                  /\ clerk'[c].new = clerk[c].new
  BY <1>7 DEF Goto, ClerkRecords
<1>12. \A s : SetState(b, s) => ban'[b].count = ban[b].count
  BY <1>1, <1>7 DEF SetState, BanRows
<1>13. CASE \/ scopedBanCreate_Reserve(c) \/ scopedBanCreate_InsertFails(c)
            \/ scopedBanApprove_NoDatabase(c) \/ scopedBanApprove_Rereserve(c)
            \/ scopedBanApprove_Restore(c) \/ recordLadder(c) \/ scopedBanRevoke_Delete(c)
            \/ lookupRollback_UpdateFails(c) \/ ReleaseQuota(c)
  <2>1. Kept /\ clerk[c].pc # "rows"
    BY <1>13 DEF scopedBanCreate_Reserve, scopedBanCreate_InsertFails, scopedBanApprove_NoDatabase,
      scopedBanApprove_Rereserve, scopedBanApprove_Restore, recordLadder, scopedBanRevoke_Delete,
      lookupRollback_UpdateFails, ReleaseQuota, At, dbVars
  <2>2. clerk'[c].pc \in {"idle", "insert", "recount", "restore", "roll_revoke", "release"}
    <3>1. CASE scopedBanCreate_Reserve(c)
      BY <1>7, <1>10, <3>1 DEF scopedBanCreate_Reserve, ClerkRecords
    <3>2. CASE ~scopedBanCreate_Reserve(c)
      BY <1>7, <1>10, <1>11, <1>13, <3>2 DEF scopedBanCreate_InsertFails,
        scopedBanApprove_NoDatabase, scopedBanApprove_Rereserve, scopedBanApprove_Restore,
        recordLadder, scopedBanRevoke_Delete, lookupRollback_UpdateFails, ReleaseQuota, ClerkRecords
    <3> QED
      BY <3>1, <3>2
  <2> QED
    BY <1>9, <2>1, <2>2 DEF CountingSteps
<1>14. CASE scopedBanReject_Commit(c) \/ lookupRollback_Reject(c) \/ scopedBanRevoke_Commit(c)
            \/ CreateDispatch_Veto(c)
  <2>1. Kept /\ clerk[c].pc # "rows"
    BY <1>8, <1>12, <1>14 DEF scopedBanReject_Commit, lookupRollback_Reject, scopedBanRevoke_Commit,
      CreateDispatch_Veto, At
  <2>2. clerk'[c].pc \in {"idle", "release", "release_locked"}
    BY <1>7, <1>10, <1>11, <1>14 DEF scopedBanReject_Commit, lookupRollback_Reject,
      scopedBanRevoke_Commit, CreateDispatch_Veto, ClerkRecords
  <2> QED
    BY <1>9, <2>1, <2>2 DEF CountingSteps
<1>15. CASE scopedBanCreate_Insert(c)
  <2>1. rows'[b] = << >> /\ \A d \in Clerks \ {c} : clerk[d].ban # b
    BY <1>1, <1>8, <1>15 DEF scopedBanCreate_Insert, RowsInv, LifeInv, CreatingOnce, ApprovedFirst,
      Creating, At
  <2>2. CountsFor(c)'
    BY <1>10, <1>15 DEF scopedBanCreate_Insert, CountsFor, At
  <2> QED
    BY <1>1, <1>2, <1>4, <1>8, <2>1, <2>2, CountsKept
<1>16. CASE scopedBanApprove_Commit(c)
  <2>1. CASE ban[b].state = "pending"
    <3>1. Kept
      BY <1>8, <1>12, <1>16, <2>1 DEF scopedBanApprove_Commit
    <3>2. clerk'[c].pc = "resolve" /\ clerk'[c].count = ban[b].count /\ clerk'[c].ban = b
      BY <1>7, <1>8, <1>16, <2>1 DEF scopedBanApprove_Commit, ClerkRecords
    <3>3. CountsFor(c)'
      BY <3>1, <3>2 DEF CountsFor, At
    <3> QED
      BY <1>1, <1>2, <1>4, <1>8, <1>16, <3>1, <3>3, CountsKept DEF scopedBanApprove_Commit, At
  <2>2. CASE ban[b].state # "pending"
    BY <1>8, <1>9, <1>10, <1>16, <2>2 DEF scopedBanApprove_Commit, At, CountingSteps
  <2> QED
    BY <2>1, <2>2
<1>17. CASE scopedBanApprove_Resolve(c)
  <2>1. Kept /\ faults' = faults
    BY <1>17 DEF scopedBanApprove_Resolve, dbVars
  <2>2. /\ clerk'[c].count = clerk[c].count /\ clerk'[c].ban = b
        /\ \/ clerk'[c].pc = "dispatch" /\ clerk'[c].new = clerk[c].count
           \/ clerk'[c].pc = "rereserve"
    BY <1>7, <1>8, <1>17 DEF scopedBanApprove_Resolve, ClerkRecords
  <2>3. CountsFor(c)'
    BY <1>6, <1>8, <1>17, <2>1, <2>2 DEF scopedBanApprove_Resolve, CountsFor, At
  <2> QED
    BY <1>1, <1>2, <1>4, <1>8, <1>17, <2>1, <2>3, CountsKept DEF scopedBanApprove_Resolve, At
<1>18. CASE scopedBanApprove_Recount(c)
  <2>1. rows'[b] = << >> /\ ban'[b].count = clerk[c].new
    <3>1. rows[b] = << >>
      BY <1>8, <1>18 DEF scopedBanApprove_Recount, RowsInv, LifeInv, OrderedOnce, Ordering, At
    <3> QED
      BY <1>1, <1>7, <1>8, <1>18, <3>1 DEF scopedBanApprove_Recount, BanRows
  <2>2. clerk'[c].pc = "dispatch" /\ clerk'[c].new = clerk[c].new /\ clerk'[c].ban = b
    BY <1>7, <1>8, <1>11, <1>18 DEF scopedBanApprove_Recount, ClerkRecords
  <2>3. CountsFor(c)'
    BY <2>1, <2>2 DEF CountsFor, At
  <2>4. \A d \in Clerks \ {c} : clerk[d].pc \notin CountingSteps
    BY <1>5, <1>18 DEF scopedBanApprove_Recount, At, LockedSteps, CountingSteps
  <2> QED
    BY <1>1, <1>2, <1>4, <1>8, <2>1, <2>3, <2>4, CountsKept
<1>19. CASE scopedBanApprove_RecountFails(c)
  <2>1. Kept /\ faults' # 0
    BY <1>3, <1>19 DEF scopedBanApprove_RecountFails, dbVars
  <2>2. clerk'[c].pc = "dispatch"
    BY <1>7, <1>11, <1>19 DEF scopedBanApprove_RecountFails, ClerkRecords
  <2>3. CountsFor(c)'
    BY <2>1, <2>2 DEF CountsFor, At
  <2> QED
    BY <1>1, <1>2, <1>4, <1>8, <2>1, <2>3, CountsKept
<1>20. CASE CreateScopedDispatch(c)
  <2>1. rows'[b] = <<clerk[c].new>> /\ ban' = ban /\ faults' = faults
    BY <1>1, <1>7, <1>8, <1>20 DEF CreateScopedDispatch, RowsInv, LifeInv, OrderedOnce, Ordering, At
  <2>2. clerk'[c].pc = "ladder"
    BY <1>7, <1>11, <1>20 DEF CreateScopedDispatch, ClerkRecords
  <2>3. CountsFor(c)'
    BY <2>2 DEF CountsFor, At
  <2>4. SumFunction(rows'[b]) = clerk[c].new
    <3>1. Append(<< >>, clerk[c].new) = <<clerk[c].new>> /\ << >> \in Seq(Nat)
      BY <1>7
    <3>2. SumFunction(Append(<< >>, clerk[c].new)) = 0 + clerk[c].new
      BY <1>7, <3>1, SumAppend, SumEmpty
    <3> QED
      BY <1>7, <2>1, <3>1, <3>2
  <2>5. faults' = 0 => SumFunction(rows'[b]) = ban'[b].count
    BY <1>6, <1>8, <1>20, <2>1, <2>4 DEF CreateScopedDispatch, CountsFor, At
  <2>6. \A d \in Clerks \ {c} : clerk[d].pc \notin CountingSteps
    BY <1>5, <1>20 DEF CreateScopedDispatch, At, LockedSteps, CountingSteps
  <2> QED
    BY <1>1, <1>2, <1>4, <1>8, <2>3, <2>5, <2>6, CountsKept
<1>21. CASE CreateGlobalScopedDispatch(c)
  <2>1. /\ clerk[c].pc \in {"dispatch", "rows"} /\ ban' = ban /\ faults' = faults
        /\ Len(rows[b]) <= clerk[c].new /\ SumFunction(rows[b]) = Len(rows[b])
        /\ Len(rows[b]) \in Nat /\ rows[b] \in Seq(Nat)
    <3>1. At(c, "dispatch") => rows[b] = << >>
      BY <1>8 DEF RowsInv, LifeInv, OrderedOnce, Ordering, At
    <3>2. At(c, "dispatch") => Len(rows[b]) = 0 /\ SumFunction(rows[b]) = 0
      BY <3>1, SumEmpty
    <3>3. rows[b] \in Seq(Nat) /\ Len(rows[b]) \in Nat
      BY <1>1, <1>7
    <3>4. At(c, "rows") => Len(rows[b]) <= clerk[c].new /\ SumFunction(rows[b]) = Len(rows[b])
      BY <1>6, <1>8 DEF CountsFor
    <3>5. (At(c, "dispatch") \/ At(c, "rows")) /\ ban' = ban /\ faults' = faults
      BY <1>21 DEF CreateGlobalScopedDispatch
    <3> QED
      BY <1>7, <3>2, <3>3, <3>4, <3>5 DEF At
  <2>2. \A d \in Clerks \ {c} : clerk[d].pc \notin CountingSteps
    BY <1>5, <2>1 DEF LockedSteps, CountingSteps
  <2>3. CASE Len(rows[b]) < clerk[c].new
    <3>1. rows'[b] = Append(rows[b], 1) /\ clerk'[c].pc = "rows"
      BY <1>1, <1>7, <1>8, <1>11, <1>21, <2>1, <2>3 DEF CreateGlobalScopedDispatch, ClerkRecords
    <3>2. clerk'[c].new = clerk[c].new /\ clerk'[c].ban = b
      BY <1>1, <1>7, <1>8, <1>11, <1>21, <2>1, <2>3 DEF CreateGlobalScopedDispatch, ClerkRecords
    <3>3. Len(rows'[b]) = Len(rows[b]) + 1 /\ SumFunction(rows'[b]) = SumFunction(rows[b]) + 1
      BY <2>1, <3>1, SumAppend
    <3>4. faults' = 0 => clerk[c].new = ban[b].count
      BY <1>4, <1>6, <1>8, <2>1 DEF CountsFor
    <3>5. Len(rows'[b]) <= clerk'[c].new /\ SumFunction(rows'[b]) = Len(rows'[b])
      BY <1>7, <2>1, <2>3, <3>2, <3>3
    <3>6. CountsFor(c)'
      BY <2>1, <3>1, <3>2, <3>4, <3>5 DEF CountsFor, At
    <3> QED
      BY <1>1, <1>2, <1>4, <1>8, <2>2, <3>1, <3>2, <3>6, CountsKept DEF At
  <2>4. CASE Len(rows[b]) >= clerk[c].new
    <3>1. rows' = rows /\ clerk'[c].pc = "idle"
      BY <1>7, <1>8, <1>10, <1>21, <2>1, <2>4 DEF CreateGlobalScopedDispatch
    <3>2. CountsFor(c)'
      BY <3>1 DEF CountsFor, At
    <3>3. faults' = 0 => SumFunction(rows'[b]) = ban'[b].count
      BY <1>6, <1>7, <1>8, <2>1, <2>4, <3>1 DEF CountsFor, At
    <3> QED
      BY <1>1, <1>2, <1>4, <1>8, <2>2, <3>1, <3>2, <3>3, CountsKept
  <2> QED
    BY <1>7, <2>1, <2>3, <2>4
<1> QED
  BY <1>13, <1>14, <1>15, <1>16, <1>17, <1>18, <1>19, <1>20, <1>21 DEF Continue

\* There are no rows at the start.
LEMMA RowsInit == ScopedInit => RowsInv
<1> SUFFICES ASSUME ScopedInit PROVE (\A c \in Clerks : CountsFor(c)) /\ RowsMatchCount
  BY LifeInit DEF RowsInv
<1>1. \A c \in Clerks : clerk[c].pc = "idle"
  BY IdleType DEF ScopedInit
<1> QED
  BY <1>1 DEF ScopedInit, CountsFor, RowsMatchCount, At

\* All steps keep the rows and the column in step.
LEMMA RowsStep == RowsInv /\ [ScopedNext]_scopedVars => RowsInv'
<1> DEFINE Good == (\A c \in Clerks : CountsFor(c))' /\ RowsMatchCount'
<1> SUFFICES ASSUME RowsInv, [ScopedNext]_scopedVars PROVE Good
  BY LifeStep DEF RowsInv
<1>0. faults \in Nat /\ Idle.pc = "idle" /\ clerk \in [Clerks -> ClerkRecords]
  BY IdleType DEF RowsInv, LifeInv, ScopedTypeOK
<1>1. ASSUME NEW c \in Clerks, Continue(c) PROVE Good
  BY <1>1, ContinueCounts
<1>2. ASSUME NEW c \in Clerks, NEW b \in Bans, Arrive(c, b) PROVE Good
  <2>1. /\ At(c, "idle") /\ \A d \in Clerks \ {c} : clerk'[d] = clerk[d]
        /\ clerk'[c].pc \in {"reserve", "approve", "reject", "roll_delete", "roll_reject"}
        /\ UNCHANGED <<ban, rows, faults>>
    BY <1>2, ClerkArrives DEF RowsInv, LifeInv
  <2>2. CountsFor(c)'
    BY <2>1 DEF CountsFor, At
  <2> QED
    BY <2>1, <2>2, CountsKept DEF At
<1>3. ASSUME UNCHANGED <<ban, rows>>, faults' = faults + 1,
             \A c \in Clerks : clerk'[c] = clerk[c] \/ clerk'[c] = Idle
      PROVE  Good
  <2>1. faults' # 0
    BY <1>0, <1>3
  <2>2. ASSUME NEW c \in Clerks PROVE CountsFor(c)'
    BY <1>0, <1>3, <2>1 DEF RowsInv, CountsFor, At
  <2> QED
    BY <2>1, <2>2 DEF RowsMatchCount
<1>4. ASSUME NEW c \in Clerks, Abort(c) PROVE Good
  BY <1>0, <1>3, <1>4 DEF Abort, Return, dbVars
<1>5. CASE Restart
  BY <1>3, <1>5 DEF Restart, dbVars
<1>6. CASE UNCHANGED <<ban, rows, clerk, faults>>
  BY <1>6 DEF RowsInv, CountsFor, RowsMatchCount, At
<1>7. ASSUME NEW b \in Bans, Reload(b) PROVE Good
  BY <1>6, <1>7 DEF Reload, dbVars
<1>8. ASSUME NEW x \in Hosts \union Bans, Protect(x) PROVE Good
  BY <1>6, <1>8 DEF Protect, dbVars
<1>9. CASE UNCHANGED scopedVars
  BY <1>6, <1>9 DEF scopedVars, dbVars
<1> QED
  BY <1>1, <1>2, <1>4, <1>5, <1>7, <1>8, <1>9 DEF ScopedNext

\* As long as no handler stopped halfway, the rows of a ban hold as many prefixes
\* as its column says once they are all there: also when the database was reloaded
\* between the submission and the approval, and for a global ban, whose rows are
\* created one by one while others go on.
THEOREM RowsMatchColumn == ScopedSpec => []RowsMatchCount
<1>1. RowsInv => RowsMatchCount
  BY DEF RowsInv
<1> QED
  BY <1>1, RowsInit, RowsStep, PTL DEF ScopedSpec

-----------------------------------------------------------------------------
(* The quota: what a ban holds.                                             *)

\* The greatest of one number.
LEMMA MaxOfOne == ASSUME NEW n \in Nat PROVE Max({n}) = n
<1>1. \A x : x \in {n} /\ (\A y \in {n} : x >= y) <=> x = n
  OBVIOUS
<1> QED
  BY <1>1 DEF Max

\* The handler at work on b, if there is one, decides what b holds.
HoldsBy(c, b) ==
  CASE clerk[c].pc \in {"rereserve", "restore"} -> {}
    [] clerk[c].pc = "recount" -> {clerk[c].new}
    [] clerk[c].pc \in {"insert", "release", "release_locked"} -> {clerk[c].count}
    [] OTHER -> IF Live(b) THEN {ban[b].count} ELSE {}

KindBy(c, b) == IF At(c, "insert") THEN Kind(clerk[c]) ELSE Kind(ban[b])

ByHandler ==
  \A b \in Bans, c \in Clerks :
    clerk[c].ban = b /\ (\A d \in Clerks : clerk[d].ban = b => d = c)
      => Reserved(b) = HoldsBy(c, b) /\ KindNow(b) = KindBy(c, b)

\* It is so, whatever the handler is at.
LEMMA HandlerView == ByHandler
<1> SUFFICES ASSUME NEW b \in Bans, NEW c \in Clerks, clerk[c].ban = b,
                    \A d \in Clerks : clerk[d].ban = b => d = c
             PROVE  Reserved(b) = HoldsBy(c, b) /\ KindNow(b) = KindBy(c, b)
  BY DEF ByHandler
<1> DEFINE by(steps) == { d \in Clerks : clerk[d].ban = b /\ clerk[d].pc \in steps }
<1>1. \A steps : by(steps) = IF clerk[c].pc \in steps THEN {c} ELSE {}
  OBVIOUS
<1>2. /\ { clerk[d].new : d \in {c} } = {clerk[c].new}
      /\ { clerk[d].count : d \in {c} } = {clerk[c].count}
  OBVIOUS
<1>3. Reserved(b) =
        CASE by({"rereserve", "restore"}) # {} -> {}
          [] by({"recount"}) # {} -> { clerk[d].new : d \in by({"recount"}) }
          [] by({"insert", "release", "release_locked"}) # {} ->
               { clerk[d].count : d \in by({"insert", "release", "release_locked"}) }
          [] OTHER -> IF Live(b) THEN {ban[b].count} ELSE {}
  BY DEF Reserved
<1> DEFINE creating == { d \in Clerks : clerk[d].ban = b /\ At(d, "insert") }
<1>4. creating = IF At(c, "insert") THEN {c} ELSE {}
  BY DEF At
<1>5. (CHOOSE d \in {c} : TRUE) = c
  OBVIOUS
<1>6. KindNow(b) = IF creating = {} THEN Kind(ban[b]) ELSE Kind(clerk[CHOOSE d \in creating : TRUE])
  BY DEF KindNow
<1> HIDE DEF by, creating
<1>7. KindNow(b) = KindBy(c, b)
  BY <1>4, <1>5, <1>6 DEF KindBy
<1>8. Reserved(b) = HoldsBy(c, b)
  <2>1. CASE clerk[c].pc \in {"rereserve", "restore"}
    BY <1>1, <1>3, <2>1 DEF HoldsBy
  <2>2. CASE clerk[c].pc = "recount"
    BY <1>1, <1>2, <1>3, <2>2 DEF HoldsBy
  <2>3. CASE clerk[c].pc \in {"insert", "release", "release_locked"}
    BY <1>1, <1>2, <1>3, <2>3 DEF HoldsBy
  <2>4. CASE clerk[c].pc \notin {"rereserve", "restore", "recount", "insert", "release", "release_locked"}
    BY <1>1, <1>3, <2>4 DEF HoldsBy
  <2> QED
    BY <2>1, <2>2, <2>3, <2>4
<1> QED
  BY <1>7, <1>8

ByColumn ==
  \A b \in Bans :
    (\A c \in Clerks : clerk[c].ban # b)
      => /\ Reserved(b) = (IF Live(b) THEN {ban[b].count} ELSE {})
         /\ KindNow(b) = Kind(ban[b])

\* Without one, the column does.
LEMMA FreeView == ByColumn
<1> SUFFICES ASSUME NEW b \in Bans, \A c \in Clerks : clerk[c].ban # b
             PROVE  /\ Reserved(b) = (IF Live(b) THEN {ban[b].count} ELSE {})
                    /\ KindNow(b) = Kind(ban[b])
  BY DEF ByColumn
<1>1. \A steps : { d \in Clerks : clerk[d].ban = b /\ clerk[d].pc \in steps } = {}
  OBVIOUS
<1>2. { d \in Clerks : clerk[d].ban = b /\ At(d, "insert") } = {}
  OBVIOUS
<1> QED
  BY <1>1, <1>2 DEF Reserved, KindNow

\* A step of one handler does not change what the bans of the others hold.
LEMMA OthersView ==
  ASSUME NEW c \in Clerks, \A d \in Clerks \ {c} : clerk'[d] = clerk[d],
         NEW x \in Bans, clerk[c].ban # x, clerk'[c].ban # x, ban'[x] = ban[x]
  PROVE  Reserved(x)' = Reserved(x) /\ KindNow(x)' = KindNow(x)
<1> DEFINE by(steps) == { d \in Clerks : clerk[d].ban = x /\ clerk[d].pc \in steps }
           next(steps) == { d \in Clerks : clerk'[d].ban = x /\ clerk'[d].pc \in steps }
<1>1. \A steps : next(steps) = by(steps) /\ \A d \in by(steps) : clerk'[d] = clerk[d]
  OBVIOUS
<1>2. \A steps : /\ { clerk'[d].new : d \in by(steps) } = { clerk[d].new : d \in by(steps) }
                 /\ { clerk'[d].count : d \in by(steps) } = { clerk[d].count : d \in by(steps) }
  BY <1>1
<1>3. Reserved(x) =
        CASE by({"rereserve", "restore"}) # {} -> {}
          [] by({"recount"}) # {} -> { clerk[d].new : d \in by({"recount"}) }
          [] by({"insert", "release", "release_locked"}) # {} ->
               { clerk[d].count : d \in by({"insert", "release", "release_locked"}) }
          [] OTHER -> IF Live(x) THEN {ban[x].count} ELSE {}
  BY DEF Reserved
<1>4. Reserved(x)' =
        CASE next({"rereserve", "restore"}) # {} -> {}
          [] next({"recount"}) # {} -> { clerk'[d].new : d \in next({"recount"}) }
          [] next({"insert", "release", "release_locked"}) # {} ->
               { clerk'[d].count : d \in next({"insert", "release", "release_locked"}) }
          [] OTHER -> IF Live(x)' THEN {ban'[x].count} ELSE {}
  BY DEF Reserved
<1>5. Live(x)' = Live(x)
  BY DEF Live
<1> DEFINE creating == { d \in Clerks : clerk[d].ban = x /\ At(d, "insert") }
           creates == { d \in Clerks : clerk'[d].ban = x /\ At(d, "insert")' }
<1>6. creates = creating /\ \A d \in creating : clerk'[d] = clerk[d]
  BY DEF At
<1>7. KindNow(x) = IF creating = {} THEN Kind(ban[x]) ELSE Kind(clerk[CHOOSE d \in creating : TRUE])
  BY DEF KindNow
<1>8. KindNow(x)' = IF creates = {} THEN Kind(ban'[x]) ELSE Kind(clerk'[CHOOSE d \in creates : TRUE])
  BY DEF KindNow
<1>9. creating # {} => (CHOOSE d \in creating : TRUE) \in creating
  OBVIOUS
<1> HIDE DEF by, next, creating, creates
<1>10. KindNow(x)' = KindNow(x)
  BY <1>6, <1>7, <1>8, <1>9
<1>11. Reserved(x)' = Reserved(x)
  BY <1>1, <1>2, <1>3, <1>4, <1>5, Zenon
<1> QED
  BY <1>10, <1>11

-----------------------------------------------------------------------------
(* The quota: the tracker against the sum of what is held.                  *)

Exact ==
  \A k \in Kinds :
    tracker[k] = [prefixes |-> SumFunction([b \in Held(k) |-> Max(Reserved(b))]),
                  rules |-> Cardinality(Held(k))]

Singles == \A b \in Bans : Reserved(b) = {} \/ \E n \in Nat : Reserved(b) = {n}

Amounts == [b \in Bans |-> IF Reserved(b) = {} THEN 0 ELSE Max(Reserved(b))]

ExactSums ==
  \A k \in Kinds :
    tracker[k] = [prefixes |-> SumOf(Amounts, Held(k)), rules |-> Cardinality(Held(k))]

\* The same sums, over amounts that every ban has.
LEMMA ExactView == Singles => Amounts \in [Bans -> Nat] /\ (Exact <=> ExactSums)
<1> SUFFICES ASSUME Singles
             PROVE  /\ Amounts \in [Bans -> Nat]
                    /\ \A k \in Kinds :
                         SumFunction([b \in Held(k) |-> Max(Reserved(b))]) = SumOf(Amounts, Held(k))
  BY DEF Exact, ExactSums
<1>1. \A b \in Bans : Reserved(b) # {} => Max(Reserved(b)) \in Nat
  BY MaxOfOne DEF Singles
<1>2. ASSUME NEW k \in Kinds
      PROVE  SumFunction([b \in Held(k) |-> Max(Reserved(b))]) = SumOf(Amounts, Held(k))
  <2> DEFINE f == [b \in Held(k) |-> Max(Reserved(b))]
  <2>1. Held(k) \in SUBSET Bans /\ DOMAIN f = Held(k)
    BY DEF Held
  <2>2. \A b \in Held(k) : f[b] = Amounts[b]
    BY DEF Held, Amounts
  <2>3. IsFiniteSet(Bans)
    BY ScopedAssumption DEF ScopedAssumption
  <2> HIDE DEF f
  <2>4. SumFunction(f) = SumOf(Amounts, Held(k))
    BY <2>1, <2>2, <2>3, FoldOver
  <2> QED
    BY <2>4 DEF f
<1> QED
  BY <1>1, <1>2 DEF Amounts

\* One more term, or one less.
LEMMA OneTerm ==
  ASSUME NEW f \in [Bans -> Nat], NEW g \in [Bans -> Nat], NEW S \in SUBSET Bans,
         NEW b \in Bans \ S, \A x \in S : f[x] = g[x]
  PROVE  /\ SumOf(f, S) \in Nat /\ Cardinality(S) \in Nat
         /\ SumOf(g, S \union {b}) = SumOf(f, S) + g[b]
         /\ Cardinality(S \union {b}) = Cardinality(S) + 1
<1>1. IsFiniteSet(Bans) /\ IsFiniteSet(S)
  BY ScopedAssumption, FS_Subset DEF ScopedAssumption
<1> DEFINE T == S \union {b}
<1>2. T \in SUBSET Bans /\ b \in T /\ T \ {b} = S
  OBVIOUS
<1>3. SumOf(f, S) \in Nat /\ SumOf(f, S) = SumOf(g, S)
  <2>1. (\A x \in Bans : f[x] \in Nat)
    OBVIOUS
  <2> QED
    BY <1>1, <2>1, SumType, SumSame
<1>4. SumOf(g, T) = g[b] + SumOf(g, T \ {b})
  <2>1. \A x \in Bans : g[x] \in Nat
    OBVIOUS
  <2> HIDE DEF T
  <2> QED
    BY <1>1, <1>2, <2>1, SumAny
<1>5. Cardinality(T) = Cardinality(S) + 1 /\ Cardinality(S) \in Nat
  BY <1>1, FS_AddElement, FS_CardinalityType
<1>6. g[b] \in Nat
  OBVIOUS
<1> HIDE DEF T
<1>7. PICK m \in Nat : m = SumOf(f, S)
  BY <1>3
<1>8. SumOf(g, T) = g[b] + m
  BY <1>2, <1>3, <1>4, <1>7, Zenon
<1>9. g[b] + m = m + g[b]
  BY <1>6
<1>10. SumOf(g, T) = SumOf(f, S) + g[b]
  BY <1>7, <1>8, <1>9, Zenon
<1> QED
  BY <1>3, <1>5, <1>10 DEF T

\* The three things a step may do: nothing that the quota sees, a reservation
\* that succeeds, or giving one back.
LEMMA QuotaMove ==
  ASSUME ScopedTypeOK, Singles, Singles', Exact, NEW b \in Bans, NEW k \in Kinds, NEW n \in Nat,
         \A x \in Bans \ {b} : Reserved(x)' = Reserved(x) /\ KindNow(x)' = KindNow(x),
         \/ /\ UNCHANGED tracker
            /\ Reserved(b)' = Reserved(b)
            /\ Reserved(b) = {} \/ KindNow(b)' = KindNow(b)
         \/ /\ Reserve(k, n)
            /\ Reserved(b) = {} /\ Reserved(b)' = {n} /\ KindNow(b)' = k
         \/ /\ Release(k, n)
            /\ Reserved(b) = {n} /\ Reserved(b)' = {} /\ KindNow(b) = k
  PROVE  Exact'
<1>1. Amounts \in [Bans -> Nat] /\ ExactSums
  BY ExactView
<1>2. (Singles => Amounts \in [Bans -> Nat] /\ (Exact <=> ExactSums))'
  BY ExactView, PTL
<1>3. PICK f, g : f = Amounts /\ g = Amounts'
  OBVIOUS
<1>4. PICK S, T : S = [j \in Kinds |-> Held(j)] /\ T = [j \in Kinds |-> Held(j)']
  OBVIOUS
<1>5. PICK R, Q, K, L : /\ R = [x \in Bans |-> Reserved(x)] /\ Q = [x \in Bans |-> Reserved(x)']
                        /\ K = [x \in Bans |-> KindNow(x)] /\ L = [x \in Bans |-> KindNow(x)']
  OBVIOUS
<1>6. \A j \in Kinds : /\ S[j] = { x \in Bans : K[x] = j /\ R[x] # {} }
                       /\ T[j] = { x \in Bans : L[x] = j /\ Q[x] # {} }
  <2>1. ASSUME NEW j \in Kinds PROVE S[j] = { x \in Bans : KindNow(x) = j /\ Reserved(x) # {} }
    BY <1>4 DEF Held
  <2>2. ASSUME NEW j \in Kinds PROVE T[j] = { x \in Bans : KindNow(x)' = j /\ Reserved(x)' # {} }
    BY <1>4 DEF Held
  <2>3. \A x \in Bans : /\ K[x] = KindNow(x) /\ R[x] = Reserved(x)
                        /\ L[x] = KindNow(x)' /\ Q[x] = Reserved(x)'
    BY <1>5
  <2>4. ASSUME NEW j \in Kinds PROVE S[j] = { x \in Bans : K[x] = j /\ R[x] # {} }
    BY <2>1, <2>3
  <2>5. ASSUME NEW j \in Kinds PROVE T[j] = { x \in Bans : L[x] = j /\ Q[x] # {} }
    BY <2>2, <2>3
  <2> QED
    BY <2>4, <2>5
<1>7. \A x \in Bans : /\ f[x] = IF R[x] = {} THEN 0 ELSE Max(R[x])
                      /\ g[x] = IF Q[x] = {} THEN 0 ELSE Max(Q[x])
  <2>1. \A x \in Bans : /\ f[x] = IF Reserved(x) = {} THEN 0 ELSE Max(Reserved(x))
                        /\ g[x] = IF Reserved(x)' = {} THEN 0 ELSE Max(Reserved(x)')
    BY <1>3 DEF Amounts
  <2> QED
    BY <1>5, <2>1
<1>8. f \in [Bans -> Nat] /\ g \in [Bans -> Nat]
  BY <1>1, <1>2, <1>3
<1>9. \A j \in Kinds : tracker[j] = [prefixes |-> SumOf(f, S[j]), rules |-> Cardinality(S[j])]
  BY <1>1, <1>3, <1>4 DEF ExactSums
<1>10. \A x \in Bans \ {b} : R[x] = Q[x] /\ K[x] = L[x] /\ f[x] = g[x]
  BY <1>5, <1>7
<1>11. IsFiniteSet(Bans) /\ \A j \in Kinds : S[j] \in SUBSET Bans /\ T[j] \in SUBSET Bans
  BY <1>6, ScopedAssumption DEF ScopedAssumption
<1>12. ASSUME NEW j \in Kinds, T[j] = S[j], \A x \in S[j] : f[x] = g[x], tracker'[j] = tracker[j]
       PROVE  tracker'[j] = [prefixes |-> SumOf(g, T[j]), rules |-> Cardinality(T[j])]
  <2>1. SumOf(f, S[j]) = SumOf(g, S[j])
    BY <1>11, <1>12, SumSame
  <2> QED
    BY <1>9, <1>12, <2>1
<1>13. CASE UNCHANGED tracker /\ Q[b] = R[b] /\ (R[b] = {} \/ L[b] = K[b])
  <2>1. ASSUME NEW j \in Kinds PROVE T[j] = S[j] /\ \A x \in S[j] : f[x] = g[x]
    <3>1. \A x \in Bans : /\ L[x] = j /\ Q[x] # {} <=> K[x] = j /\ R[x] # {}
                          /\ f[x] = g[x]
      BY <1>7, <1>10, <1>13
    <3> QED
      BY <1>6, <3>1
  <2>2. \A j \in Kinds : tracker'[j] = [prefixes |-> SumOf(g, T[j]), rules |-> Cardinality(T[j])]
    BY <1>12, <1>13, <2>1
  <2> QED
    BY <1>2, <1>3, <1>4, <2>2 DEF ExactSums
<1>14. CASE Reserve(k, n) /\ R[b] = {} /\ Q[b] = {n} /\ L[b] = k
  <2>1. \A j \in Kinds : b \notin S[j] /\ \A x \in S[j] : f[x] = g[x]
    BY <1>6, <1>10, <1>14
  <2>2. T[k] = S[k] \union {b} /\ \A j \in Kinds \ {k} : T[j] = S[j]
    <3>1. \A x \in Bans : L[x] = k /\ Q[x] # {} <=> (K[x] = k /\ R[x] # {}) \/ x = b
      BY <1>10, <1>14
    <3>2. T[k] = S[k] \union {b}
      BY <1>6, <3>1
    <3>3. ASSUME NEW j \in Kinds \ {k} PROVE T[j] = S[j]
      <4>1. \A x \in Bans : L[x] = j /\ Q[x] # {} <=> K[x] = j /\ R[x] # {}
        BY <1>10, <1>14
      <4>2. S[j] = { x \in Bans : K[x] = j /\ R[x] # {} } /\ T[j] = { x \in Bans : L[x] = j /\ Q[x] # {} }
        BY <1>6
      <4> QED
        BY <4>1, <4>2
    <3> QED
      BY <3>2, <3>3
  <2>3. g[b] = n
    BY <1>7, <1>14, MaxOfOne
  <2>4. PICK U : U = S[k]
    OBVIOUS
  <2>5. /\ SumOf(f, U) \in Nat /\ Cardinality(U) \in Nat
        /\ SumOf(g, U \union {b}) = SumOf(f, U) + g[b]
        /\ Cardinality(U \union {b}) = Cardinality(U) + 1
    <3>1. U \in SUBSET Bans /\ b \in Bans \ U /\ \A x \in U : f[x] = g[x]
      BY <1>11, <2>1, <2>4
    <3> QED
      BY <1>8, <3>1, OneTerm
  <2>6. /\ tracker'[k] = [prefixes |-> tracker[k].prefixes + n, rules |-> tracker[k].rules + 1]
        /\ \A j \in Kinds \ {k} : tracker'[j] = tracker[j]
    BY <1>14 DEF Reserve, ScopedTypeOK
  <2>7. tracker[k].prefixes = SumOf(f, U) /\ tracker[k].rules = Cardinality(U)
    <3>1. tracker[k] = [prefixes |-> SumOf(f, U), rules |-> Cardinality(U)]
      BY <1>9, <2>4, Zenon
    <3> QED
      BY <3>1
  <2>8. tracker'[k] = [prefixes |-> SumOf(g, T[k]), rules |-> Cardinality(T[k])]
    BY <2>2, <2>3, <2>4, <2>5, <2>6, <2>7, Zenon
  <2>9. \A j \in Kinds : tracker'[j] = [prefixes |-> SumOf(g, T[j]), rules |-> Cardinality(T[j])]
    BY <1>12, <2>1, <2>2, <2>6, <2>8
  <2> QED
    BY <1>2, <1>3, <1>4, <2>9 DEF ExactSums
<1>15. CASE Release(k, n) /\ R[b] = {n} /\ Q[b] = {} /\ K[b] = k
  <2>1. \A j \in Kinds : b \notin T[j] /\ \A x \in T[j] : g[x] = f[x]
    BY <1>6, <1>10, <1>15
  <2>2. S[k] = T[k] \union {b} /\ \A j \in Kinds \ {k} : T[j] = S[j]
    <3>1. \A x \in Bans : K[x] = k /\ R[x] # {} <=> (L[x] = k /\ Q[x] # {}) \/ x = b
      BY <1>10, <1>15
    <3>2. S[k] = T[k] \union {b}
      BY <1>6, <3>1
    <3>3. ASSUME NEW j \in Kinds \ {k} PROVE T[j] = S[j]
      <4>1. \A x \in Bans : L[x] = j /\ Q[x] # {} <=> K[x] = j /\ R[x] # {}
        BY <1>10, <1>15
      <4>2. S[j] = { x \in Bans : K[x] = j /\ R[x] # {} } /\ T[j] = { x \in Bans : L[x] = j /\ Q[x] # {} }
        BY <1>6
      <4> QED
        BY <4>1, <4>2
    <3> QED
      BY <3>2, <3>3
  <2>3. f[b] = n
    BY <1>7, <1>15, MaxOfOne
  <2>4. PICK U : U = T[k]
    OBVIOUS
  <2>5. /\ SumOf(g, U) \in Nat /\ Cardinality(U) \in Nat
        /\ SumOf(f, U \union {b}) = SumOf(g, U) + f[b]
        /\ Cardinality(U \union {b}) = Cardinality(U) + 1
    <3>1. U \in SUBSET Bans /\ b \in Bans \ U /\ \A x \in U : g[x] = f[x]
      BY <1>11, <2>1, <2>4
    <3> QED
      BY <1>8, <3>1, OneTerm
  <2>6. /\ tracker'[k] = [prefixes |-> AtLeastZero(tracker[k].prefixes - n),
                          rules |-> AtLeastZero(tracker[k].rules - 1)]
        /\ \A j \in Kinds \ {k} : tracker'[j] = tracker[j]
    BY <1>15 DEF Release, ScopedTypeOK
  <2>7. tracker[k].prefixes = SumOf(g, U) + n /\ tracker[k].rules = Cardinality(U) + 1
    <3>1. tracker[k] = [prefixes |-> SumOf(f, U \union {b}), rules |-> Cardinality(U \union {b})]
      BY <1>9, <2>2, <2>4, Zenon
    <3>2. tracker[k].prefixes = SumOf(f, U \union {b}) /\ tracker[k].rules = Cardinality(U \union {b})
      BY <3>1
    <3> QED
      BY <2>3, <2>5, <3>2, Zenon
  <2>8. PICK m \in Nat, q \in Nat : m = SumOf(g, U) /\ q = Cardinality(U)
    BY <2>5
  <2>9. tracker[k].prefixes - n = m /\ tracker[k].rules - 1 = q
    BY <2>7, <2>8
  <2>10. AtLeastZero(m) = m /\ AtLeastZero(q) = q
    BY AtLeastZeroIs
  <2>11. tracker'[k] = [prefixes |-> SumOf(g, T[k]), rules |-> Cardinality(T[k])]
    BY <2>4, <2>6, <2>8, <2>9, <2>10, Zenon
  <2>12. \A j \in Kinds \ {k} : tracker'[j] = [prefixes |-> SumOf(g, T[j]), rules |-> Cardinality(T[j])]
    <3>1. ASSUME NEW j \in Kinds \ {k}
          PROVE  T[j] = S[j] /\ (\A x \in S[j] : f[x] = g[x]) /\ tracker'[j] = tracker[j]
      BY <2>1, <2>2, <2>6
    <3> QED
      BY <1>12, <3>1
  <2>13. \A j \in Kinds : tracker'[j] = [prefixes |-> SumOf(g, T[j]), rules |-> Cardinality(T[j])]
    BY <2>11, <2>12
  <2> QED
    BY <1>2, <1>3, <1>4, <2>13 DEF ExactSums
<1>16. R[b] = Reserved(b) /\ Q[b] = Reserved(b)' /\ K[b] = KindNow(b) /\ L[b] = KindNow(b)'
  BY <1>5
<1> QED
  BY <1>13, <1>14, <1>15, <1>16

-----------------------------------------------------------------------------
(* The quota: what a handler knows while nothing is out of order.           *)

OneHandler ==
  upsets = {} =>
    \A c, d \in Clerks : clerk[c].ban = clerk[d].ban /\ clerk[c].ban # NoBan => c = d

\* The state its ban is in, and that its record still is what the row says.
Knows(c) ==
  LET b == clerk[c].ban IN
  /\ clerk[c].pc \in {"approve", "reject", "roll_reject"} => ban[b].state = "pending"
  /\ clerk[c].pc \in Ordering \union {"rows", "ladder", "roll_delete", "roll_revoke"} =>
       ban[b].state = "active"
  /\ clerk[c].pc \in {"release", "release_locked"} => ban[b].state \in {"rejected", "revoked"}
  /\ clerk[c].pc \notin Creating \union {"idle"} => clerk[c].global = ban[b].global
  /\ clerk[c].pc \notin Creating \union {"idle", "recount", "dispatch", "rows", "ladder"} =>
       clerk[c].count = ban[b].count

HandlerKnows == upsets = {} => \A c \in Clerks : Knows(c)

QuotaInv == LifeInv /\ OneHandler /\ HandlerKnows /\ QuotaExact

\* What a step of c means for the quota of b.
Move(c, b, k, n) ==
  \/ /\ UNCHANGED tracker
     /\ HoldsBy(c, b)' = HoldsBy(c, b)
     /\ HoldsBy(c, b) = {} \/ KindBy(c, b)' = KindBy(c, b)
  \/ /\ Reserve(k, n)
     /\ HoldsBy(c, b) = {} /\ HoldsBy(c, b)' = {n} /\ KindBy(c, b)' = k
  \/ /\ Release(k, n)
     /\ HoldsBy(c, b) = {n} /\ HoldsBy(c, b)' = {} /\ KindBy(c, b) = k

\* A ban has one reservation or none.
LEMMA SinglesHold == ScopedTypeOK /\ Busy /\ OneHandler /\ upsets = {} => Singles
<1> SUFFICES ASSUME ScopedTypeOK, Busy, OneHandler, upsets = {}, NEW b \in Bans
             PROVE  Reserved(b) = {} \/ \E n \in Nat : Reserved(b) = {n}
  BY DEF Singles
<1>1. ban[b].count \in Nat
  BY DEF ScopedTypeOK, BanRows
<1>2. CASE \A c \in Clerks : clerk[c].ban # b
  BY <1>1, <1>2, FreeView DEF ByColumn
<1>3. ASSUME NEW c \in Clerks, clerk[c].ban = b PROVE Reserved(b) = {} \/ \E n \in Nat : Reserved(b) = {n}
  <2>1. \A d \in Clerks : clerk[d].ban = b => d = c
    BY <1>3, ScopedAssumption DEF ScopedAssumption, OneHandler
  <2>2. Reserved(b) = HoldsBy(c, b)
    BY <1>3, <2>1, HandlerView DEF ByHandler
  <2>3. clerk[c].count \in Nat /\ clerk[c].new \in Nat
    BY DEF ScopedTypeOK, ClerkRecords
  <2> QED
    BY <1>1, <2>2, <2>3 DEF HoldsBy
<1> QED
  BY <1>2, <1>3

\* A step of the one handler of a ban, reduced to what it does to that ban.
LEMMA HandlerQuota ==
  ASSUME QuotaInv, LifeInv', upsets = {}, upsets' = {}, NEW c \in Clerks, NEW b \in Bans,
         clerk[c].ban = b \/ clerk[c] = Idle,
         clerk'[c].ban = b \/ clerk'[c] = Idle,
         \A d \in Clerks \ {c} : clerk'[d] = clerk[d] /\ clerk[d].ban # b,
         \A x \in Bans \ {b} : ban'[x] = ban[x],
         Knows(c)',
         \E k \in Kinds, n \in Nat : Move(c, b, k, n)
  PROVE  (OneHandler /\ HandlerKnows /\ QuotaExact)'
<1>1. Idle.pc = "idle" /\ Idle.ban = NoBan /\ NoBan \notin Bans
  BY ScopedAssumption, IdleType DEF ScopedAssumption
<1>2. OneHandler'
  BY <1>1 DEF QuotaInv, OneHandler
<1>3. ASSUME NEW d \in Clerks \ {c} PROVE Knows(d)'
  <2>1. CASE clerk[d].pc = "idle"
    BY <2>1 DEF Knows, Ordering, Creating
  <2>2. CASE clerk[d].pc # "idle"
    <3>1. clerk[d].ban \in Bans \ {b} /\ clerk'[d] = clerk[d] /\ Knows(d)
      BY <2>2 DEF QuotaInv, LifeInv, Busy, At, HandlerKnows
    <3>2. ban'[clerk[d].ban] = ban[clerk[d].ban]
      BY <3>1
    <3> QED
      BY <3>1, <3>2 DEF Knows
  <2> QED
    BY <2>1, <2>2
<1>4. HandlerKnows'
  BY <1>3 DEF HandlerKnows
<1>5. Singles /\ Singles'
  <2>1. Singles
    BY SinglesHold DEF QuotaInv, LifeInv
  <2>2. (ScopedTypeOK /\ Busy /\ OneHandler /\ upsets = {} => Singles)'
    BY SinglesHold, PTL
  <2> QED
    BY <1>2, <2>1, <2>2 DEF LifeInv
<1>6. Reserved(b) = HoldsBy(c, b) /\ KindNow(b) = KindBy(c, b)
  <2>1. CASE clerk[c].ban = b
    BY <2>1, HandlerView DEF ByHandler
  <2>2. CASE clerk[c] = Idle
    BY <1>1, <2>2, FreeView DEF ByColumn, HoldsBy, KindBy, At
  <2> QED
    BY <2>1, <2>2
<1>7. Reserved(b)' = HoldsBy(c, b)' /\ KindNow(b)' = KindBy(c, b)'
  <2>1. CASE clerk'[c].ban = b
    <3>1. ByHandler'
      BY HandlerView, PTL
    <3> QED
      BY <2>1, <3>1 DEF ByHandler
  <2>2. CASE clerk'[c] = Idle
    <3>1. ByColumn'
      BY FreeView, PTL
    <3>2. \A d \in Clerks : clerk'[d].ban # b
      BY <1>1, <2>2
    <3> QED
      BY <1>1, <2>2, <3>1, <3>2 DEF ByColumn, HoldsBy, KindBy, At
  <2> QED
    BY <2>1, <2>2
<1>8. \A x \in Bans \ {b} : Reserved(x)' = Reserved(x) /\ KindNow(x)' = KindNow(x)
  <2>1. ASSUME NEW x \in Bans \ {b} PROVE Reserved(x)' = Reserved(x) /\ KindNow(x)' = KindNow(x)
    BY <1>1, OthersView
  <2> QED
    BY <2>1
<1>9. Exact
  BY DEF QuotaInv, QuotaExact, Exact
<1>10. ASSUME NEW k \in Kinds, NEW n \in Nat, Move(c, b, k, n) PROVE Exact'
  BY <1>5, <1>6, <1>7, <1>8, <1>9, <1>10, QuotaMove DEF Move, QuotaInv, LifeInv
<1>11. QuotaExact'
  BY <1>10 DEF QuotaExact, Exact
<1> QED
  BY <1>2, <1>4, <1>11

\* What a handler that ends, and one that is at any other step, hold.
LEMMA HoldsAtRest ==
  ASSUME NEW c \in Clerks, NEW b \in Bans
  PROVE  /\ clerk[c].pc \notin {"rereserve", "restore", "recount", "insert", "release", "release_locked"}
              => HoldsBy(c, b) = IF Live(b) THEN {ban[b].count} ELSE {}
         /\ clerk[c].pc \in {"insert", "release", "release_locked"} => HoldsBy(c, b) = {clerk[c].count}
         /\ clerk[c].pc \in {"rereserve", "restore"} => HoldsBy(c, b) = {}
         /\ clerk[c].pc = "recount" => HoldsBy(c, b) = {clerk[c].new}
         /\ clerk[c].pc # "insert" => KindBy(c, b) = Kind(ban[b])
         /\ clerk[c].pc = "insert" => KindBy(c, b) = Kind(clerk[c])
BY DEF HoldsBy, KindBy, At

\* What the handler of a ban says of it after a step.
LEMMA HoldsNext ==
  ASSUME NEW c \in Clerks, NEW b \in Bans
  PROVE  /\ clerk'[c].pc \notin {"rereserve", "restore", "recount", "insert", "release", "release_locked"}
              => HoldsBy(c, b)' = IF ban'[b].state \in {"pending", "active"} THEN {ban'[b].count} ELSE {}
         /\ clerk'[c].pc \in {"insert", "release", "release_locked"} => HoldsBy(c, b)' = {clerk'[c].count}
         /\ clerk'[c].pc \in {"rereserve", "restore"} => HoldsBy(c, b)' = {}
         /\ clerk'[c].pc = "recount" => HoldsBy(c, b)' = {clerk'[c].new}
         /\ clerk'[c].pc # "insert" => KindBy(c, b)' = Kind(ban'[b])
         /\ clerk'[c].pc = "insert" => KindBy(c, b)' = Kind(clerk'[c])
BY DEF HoldsBy, KindBy, At, Live

\* A statement of a handler keeps the tracker exact.
LEMMA ContinueQuota ==
  ASSUME QuotaInv, LifeInv', upsets = {}, upsets' = {}, NEW c \in Clerks, Continue(c)
  PROVE  (OneHandler /\ HandlerKnows /\ QuotaExact)'
<1>1. PICK b \in Bans : b = clerk[c].ban
  BY ClerkMove DEF QuotaInv, LifeInv
<1>2. /\ clerk[c].pc # "idle"
      /\ \A d \in Clerks \ {c} : clerk'[d] = clerk[d]
      /\ clerk'[c] = Idle \/ clerk'[c].ban = b
  BY <1>1, ClerkMove DEF QuotaInv, LifeInv, At
<1>3. \A x \in Bans \ {b} : ban'[x] = ban[x]
  BY <1>1, StepEffect DEF QuotaInv, LifeInv
<1>4. \A d \in Clerks \ {c} : clerk[d].ban # b
  BY <1>1, ScopedAssumption DEF ScopedAssumption, QuotaInv, OneHandler
<1>5. Knows(c)
  BY DEF QuotaInv, HandlerKnows
<1>6. /\ ban \in [Bans -> BanRows] /\ clerk \in [Clerks -> ClerkRecords]
      /\ Idle.pc = "idle" /\ clerk[c].new \in Nat /\ clerk[c].count \in Nat /\ ban[b].count \in Nat
      /\ Kind(clerk[c]) \in Kinds
  BY IdleType DEF QuotaInv, LifeInv, ScopedTypeOK, ClerkRecords, BanRows, Kind, Kinds
<1>7. clerk[c].pc \in Creating => ban[b].state = "none"
  BY <1>1 DEF QuotaInv, LifeInv, CreatingOnce
<1>8. Return(c) => clerk'[c] = Idle /\ clerk'[c].pc = "idle"
  BY <1>6 DEF Return
<1>9. \A step : Goto(c, step) =>
        /\ clerk'[c].pc = step /\ clerk'[c].ban = b
        /\ clerk'[c].global = clerk[c].global /\ clerk'[c].count = clerk[c].count
        /\ clerk'[c].new = clerk[c].new
  BY <1>1, <1>6 DEF Goto, ClerkRecords
<1>10. \A s : SetState(b, s) =>
         ban'[b].state = s /\ ban'[b].count = ban[b].count /\ ban'[b].global = ban[b].global
  BY <1>6 DEF SetState, BanRows
<1>11. \A row, r : row.global = r.global => Kind(row) = Kind(r)
  BY DEF Kind
<1> DEFINE Ok == Knows(c)' /\ \E k \in Kinds, n \in Nat : Move(c, b, k, n)
<1>12. ASSUME Knows(c)', UNCHANGED tracker, HoldsBy(c, b)' = HoldsBy(c, b),
              HoldsBy(c, b) = {} \/ KindBy(c, b)' = KindBy(c, b)
       PROVE  Ok
  <2>1. Move(c, b, Kind(clerk[c]), 0)
    BY <1>12 DEF Move
  <2> QED
    BY <1>6, <1>12, <2>1
<1>13. ASSUME NEW n \in Nat, Knows(c)', Reserve(Kind(clerk[c]), n),
              HoldsBy(c, b) = {}, HoldsBy(c, b)' = {n}, KindBy(c, b)' = Kind(clerk[c])
       PROVE  Ok
  BY <1>6, <1>13 DEF Move
<1>14. ASSUME NEW n \in Nat, Knows(c)', Release(Kind(clerk[c]), n),
              HoldsBy(c, b) = {n}, HoldsBy(c, b)' = {}, KindBy(c, b) = Kind(clerk[c])
       PROVE  Ok
  BY <1>6, <1>14 DEF Move
<1>15. clerk'[c].pc = "idle" => Knows(c)'
  BY DEF Knows, Ordering, Creating
<1> HIDE DEF Ok
<1>16. ASSUME scopedBanCreate_Reserve(c) PROVE Ok
  <2>0. HoldsBy(c, b) = {}
    BY <1>7, <1>16, HoldsAtRest DEF scopedBanCreate_Reserve, At, Creating, Live
  <2>1. CASE Return(c) /\ UNCHANGED tracker
    <3>1. HoldsBy(c, b)' = {}
      BY <1>7, <1>8, <1>16, <2>1, HoldsNext DEF scopedBanCreate_Reserve, At, Creating, dbVars
    <3> QED
      BY <1>8, <1>12, <1>15, <2>0, <2>1, <3>1
  <2>2. CASE ~(Return(c) /\ UNCHANGED tracker)
    <3>1. /\ clerk'[c].pc = "insert" /\ clerk'[c].count = clerk[c].count
          /\ clerk'[c].global = clerk[c].global
          /\ Reserve(Kind(clerk[c]), clerk[c].count)
      BY <1>6, <1>16, <2>2 DEF scopedBanCreate_Reserve, ClerkRecords
    <3>2. Knows(c)'
      BY <3>1 DEF Knows, Ordering, Creating
    <3>3. HoldsBy(c, b)' = {clerk[c].count} /\ KindBy(c, b)' = Kind(clerk[c])
      BY <1>11, <3>1, HoldsNext
    <3> QED
      BY <1>6, <1>13, <2>0, <3>1, <3>2, <3>3
  <2> QED
    BY <2>1, <2>2
<1>17. ASSUME scopedBanCreate_Insert(c) PROVE Ok
  <2>1. /\ ban'[b].state = "pending" /\ ban'[b].count = clerk[c].count
        /\ ban'[b].global = clerk[c].global /\ UNCHANGED tracker /\ clerk'[c].pc = "idle"
    BY <1>1, <1>6, <1>8, <1>17 DEF scopedBanCreate_Insert
  <2>2. /\ HoldsBy(c, b) = {clerk[c].count} /\ KindBy(c, b) = Kind(clerk[c])
        /\ HoldsBy(c, b)' = {clerk[c].count} /\ KindBy(c, b)' = Kind(clerk[c])
    BY <1>11, <1>17, <2>1, HoldsAtRest, HoldsNext DEF scopedBanCreate_Insert, At
  <2> QED
    BY <1>12, <1>15, <2>1, <2>2
<1>18. ASSUME scopedBanCreate_InsertFails(c) PROVE Ok
  <2>1. /\ clerk[c].pc = "insert" /\ clerk'[c].pc = "idle" /\ ban' = ban
        /\ Release(Kind(clerk[c]), clerk[c].count) /\ ban[b].state = "none"
    BY <1>7, <1>8, <1>18 DEF scopedBanCreate_InsertFails, At, dbVars, Creating
  <2>2. /\ HoldsBy(c, b) = {clerk[c].count} /\ KindBy(c, b) = Kind(clerk[c])
        /\ HoldsBy(c, b)' = {}
    BY <2>1, HoldsAtRest, HoldsNext
  <2> QED
    BY <1>6, <1>14, <1>15, <2>1, <2>2
<1>19. ASSUME scopedBanApprove_Commit(c) PROVE Ok
  <2>1. clerk[c].pc = "approve" /\ ban[b].state = "pending" /\ UNCHANGED tracker
        /\ clerk[c].global = ban[b].global
    BY <1>1, <1>5, <1>19 DEF scopedBanApprove_Commit, At, Knows, Creating
  <2>2. /\ clerk'[c].pc = "resolve" /\ clerk'[c].ban = b /\ clerk'[c].count = ban[b].count
        /\ clerk'[c].global = clerk[c].global /\ SetState(b, "active")
    BY <1>1, <1>6, <1>19, <2>1 DEF scopedBanApprove_Commit, ClerkRecords
  <2>3. Knows(c)'
    BY <1>10, <2>1, <2>2 DEF Knows, Ordering, Creating
  <2>4. /\ HoldsBy(c, b) = {ban[b].count} /\ KindBy(c, b) = Kind(ban[b])
        /\ HoldsBy(c, b)' = {ban[b].count} /\ KindBy(c, b)' = Kind(ban[b])
    BY <1>10, <1>11, <2>1, <2>2, HoldsAtRest, HoldsNext DEF Live
  <2> QED
    BY <1>12, <2>1, <2>3, <2>4
<1>20. ASSUME scopedBanApprove_Resolve(c) PROVE Ok
  <2>1. /\ clerk[c].pc = "resolve" /\ ban[b].state = "active" /\ ban' = ban
        /\ clerk[c].global = ban[b].global /\ clerk[c].count = ban[b].count
    BY <1>1, <1>5, <1>20 DEF scopedBanApprove_Resolve, At, Knows, Ordering, Creating, dbVars
  <2>2. /\ clerk'[c].ban = b /\ clerk'[c].count = clerk[c].count /\ clerk'[c].global = clerk[c].global
        /\ \/ clerk'[c].pc = "dispatch" /\ UNCHANGED tracker
           \/ clerk'[c].pc = "rereserve" /\ Release(Kind(clerk[c]), clerk[c].count)
    BY <1>1, <1>6, <1>20 DEF scopedBanApprove_Resolve, ClerkRecords
  <2>3. Knows(c)'
    BY <2>1, <2>2 DEF Knows, Ordering, Creating
  <2>4. /\ HoldsBy(c, b) = {clerk[c].count} /\ KindBy(c, b) = Kind(clerk[c])
        /\ KindBy(c, b)' = Kind(clerk[c])
        /\ HoldsBy(c, b)' = IF clerk'[c].pc = "rereserve" THEN {} ELSE {clerk[c].count}
    BY <1>11, <2>1, <2>2, HoldsAtRest, HoldsNext DEF Live
  <2> QED
    BY <1>6, <1>12, <1>14, <2>2, <2>3, <2>4
<1>21. ASSUME \/ scopedBanApprove_NoDatabase(c) \/ CreateScopedDispatch(c)
              \/ CreateGlobalScopedDispatch(c)
              \/ recordLadder(c) \/ scopedBanRevoke_Delete(c)
       PROVE  Ok
  <2>1. /\ clerk[c].pc \in {"resolve", "dispatch", "rows", "ladder", "roll_delete"}
        /\ ban' = ban /\ UNCHANGED tracker
    BY <1>21 DEF scopedBanApprove_NoDatabase, CreateScopedDispatch, CreateGlobalScopedDispatch,
      recordLadder, scopedBanRevoke_Delete, At, dbVars
  <2>2. /\ ban[b].state = "active" /\ clerk[c].global = ban[b].global
        /\ clerk[c].pc = "roll_delete" => clerk[c].count = ban[b].count
    BY <1>1, <1>5, <2>1 DEF Knows, Ordering, Creating
  <2>3. \/ clerk'[c].pc = "idle"
        \/ /\ \/ clerk'[c].pc \in {"ladder", "rows"}
              \/ clerk'[c].pc = "roll_revoke" /\ clerk[c].pc = "roll_delete"
           /\ clerk'[c].ban = b /\ clerk'[c].global = clerk[c].global
           /\ clerk'[c].count = clerk[c].count
    BY <1>8, <1>9, <1>21 DEF scopedBanApprove_NoDatabase, CreateScopedDispatch,
      CreateGlobalScopedDispatch, recordLadder, scopedBanRevoke_Delete, At
  <2>4. Knows(c)'
    BY <1>15, <2>1, <2>2, <2>3 DEF Knows, Ordering, Creating
  <2>5. HoldsBy(c, b) = {ban[b].count} /\ KindBy(c, b) = Kind(ban[b])
    BY <2>1, <2>2, HoldsAtRest DEF Live
  <2>6. HoldsBy(c, b)' = {ban[b].count} /\ KindBy(c, b)' = Kind(ban[b])
    BY <2>1, <2>2, <2>3, HoldsNext DEF Live
  <2> QED
    BY <1>12, <2>1, <2>4, <2>5, <2>6
<1>22. ASSUME scopedBanApprove_Rereserve(c) PROVE Ok
  <2>1. /\ clerk[c].pc = "rereserve" /\ ban[b].state = "active" /\ ban' = ban
        /\ clerk[c].global = ban[b].global /\ clerk[c].count = ban[b].count
    BY <1>1, <1>5, <1>22 DEF scopedBanApprove_Rereserve, At, Knows, Ordering, Creating, dbVars
  <2>2. /\ clerk'[c].ban = b /\ clerk'[c].count = clerk[c].count /\ clerk'[c].global = clerk[c].global
        /\ clerk'[c].new = clerk[c].new
        /\ \/ clerk'[c].pc = "restore" /\ UNCHANGED tracker
           \/ clerk'[c].pc = "recount" /\ Reserve(Kind(clerk[c]), clerk[c].new)
    BY <1>9, <1>22 DEF scopedBanApprove_Rereserve
  <2>3. Knows(c)'
    BY <2>1, <2>2 DEF Knows, Ordering, Creating
  <2>4. /\ HoldsBy(c, b) = {} /\ KindBy(c, b)' = Kind(clerk[c])
        /\ HoldsBy(c, b)' = IF clerk'[c].pc = "restore" THEN {} ELSE {clerk[c].new}
    BY <1>11, <2>1, <2>2, HoldsAtRest, HoldsNext
  <2> QED
    BY <1>6, <1>12, <1>13, <2>2, <2>3, <2>4
<1>23. ASSUME scopedBanApprove_Restore(c) PROVE Ok
  <2>1. /\ clerk[c].pc = "restore" /\ ban[b].state = "active" /\ ban' = ban
        /\ clerk[c].global = ban[b].global /\ clerk[c].count = ban[b].count
    BY <1>1, <1>5, <1>23 DEF scopedBanApprove_Restore, At, Knows, Ordering, Creating, dbVars
  <2>2. clerk'[c].pc = "idle" /\ Reserve(Kind(clerk[c]), clerk[c].count)
    BY <1>8, <1>23 DEF scopedBanApprove_Restore
  <2>3. /\ HoldsBy(c, b) = {} /\ KindBy(c, b)' = Kind(clerk[c])
        /\ HoldsBy(c, b)' = {clerk[c].count}
    BY <1>11, <2>1, <2>2, HoldsAtRest, HoldsNext
  <2> QED
    BY <1>6, <1>13, <1>15, <2>2, <2>3
<1>24. ASSUME scopedBanApprove_Recount(c) PROVE Ok
  <2>1. /\ clerk[c].pc = "recount" /\ ban[b].state = "active" /\ UNCHANGED tracker
        /\ clerk[c].global = ban[b].global
    BY <1>1, <1>5, <1>24 DEF scopedBanApprove_Recount, At, Knows, Ordering, Creating
  <2>2. /\ ban'[b].state = "active" /\ ban'[b].count = clerk[c].new /\ ban'[b].global = ban[b].global
    BY <1>1, <1>6, <1>24, <2>1 DEF scopedBanApprove_Recount, BanRows
  <2>3. clerk'[c].pc = "dispatch" /\ clerk'[c].ban = b /\ clerk'[c].global = clerk[c].global
    BY <1>9, <1>24 DEF scopedBanApprove_Recount
  <2>4. Knows(c)'
    BY <2>1, <2>2, <2>3 DEF Knows, Ordering, Creating
  <2>5. Kind(ban'[b]) = Kind(ban[b])
    BY <2>2 DEF Kind
  <2>6. HoldsBy(c, b) = {clerk[c].new} /\ HoldsBy(c, b)' = {clerk[c].new}
    BY <2>1, <2>2, <2>3, HoldsAtRest, HoldsNext
  <2>7. KindBy(c, b)' = KindBy(c, b)
    BY <2>1, <2>3, <2>5, HoldsAtRest, HoldsNext
  <2> QED
    BY <1>12, <2>1, <2>4, <2>6, <2>7
<1>25. ASSUME \/ scopedBanApprove_RecountFails(c) \/ CreateDispatch_Veto(c)
              \/ lookupRollback_UpdateFails(c)
       PROVE  Ok
  BY <1>25 DEF scopedBanApprove_RecountFails, CreateDispatch_Veto, lookupRollback_UpdateFails
<1>26. ASSUME scopedBanReject_Commit(c) \/ lookupRollback_Reject(c) \/ scopedBanRevoke_Commit(c) PROVE Ok
  <2>1. /\ clerk[c].pc \in {"reject", "roll_reject", "roll_revoke"} /\ UNCHANGED tracker
        /\ ban[b].state \in {"pending", "active"}
        /\ clerk[c].pc = "reject" => ban[b].state = "pending"
        /\ clerk[c].global = ban[b].global /\ clerk[c].count = ban[b].count
    BY <1>1, <1>5, <1>26 DEF scopedBanReject_Commit, lookupRollback_Reject, scopedBanRevoke_Commit,
      At, Knows, Ordering, Creating
  <2>2. /\ clerk'[c].pc \in {"release", "release_locked"}
        /\ clerk'[c].ban = b /\ clerk'[c].global = clerk[c].global /\ clerk'[c].count = clerk[c].count
        /\ SetState(b, "rejected") \/ SetState(b, "revoked")
    BY <1>1, <1>9, <1>26, <2>1 DEF scopedBanReject_Commit, lookupRollback_Reject,
      scopedBanRevoke_Commit, At
  <2>3. Knows(c)'
    BY <1>10, <2>1, <2>2 DEF Knows, Ordering, Creating
  <2>4. /\ HoldsBy(c, b) = {ban[b].count} /\ KindBy(c, b) = Kind(ban[b])
        /\ HoldsBy(c, b)' = {ban[b].count} /\ KindBy(c, b)' = Kind(ban[b])
    BY <1>10, <1>11, <2>1, <2>2, HoldsAtRest, HoldsNext DEF Live
  <2> QED
    BY <1>12, <2>1, <2>3, <2>4
<1>27. ASSUME ReleaseQuota(c) PROVE Ok
  <2>1. /\ clerk[c].pc \in {"release", "release_locked"} /\ ban' = ban
        /\ ban[b].state \in {"rejected", "revoked"} /\ clerk[c].global = ban[b].global
    BY <1>1, <1>5, <1>27 DEF ReleaseQuota, Knows, Creating, dbVars
  <2>2. clerk'[c].pc = "idle" /\ Release(Kind(clerk[c]), clerk[c].count)
    BY <1>8, <1>27 DEF ReleaseQuota
  <2>3. /\ HoldsBy(c, b) = {clerk[c].count} /\ KindBy(c, b) = Kind(clerk[c])
        /\ HoldsBy(c, b)' = {}
    BY <1>11, <2>1, <2>2, HoldsAtRest, HoldsNext
  <2> QED
    BY <1>6, <1>14, <1>15, <2>2, <2>3
<1>28. Ok
  BY <1>16, <1>17, <1>18, <1>19, <1>20, <1>21, <1>22, <1>23, <1>24, <1>25, <1>26, <1>27 DEF Continue
<1> QED
  BY <1>1, <1>2, <1>3, <1>4, <1>28, HandlerQuota DEF Ok

\* So does the beginning of one.
LEMMA ArriveQuota ==
  ASSUME QuotaInv, LifeInv', upsets = {}, upsets' = {}, NEW c \in Clerks, NEW b \in Bans, Arrive(c, b)
  PROVE  (OneHandler /\ HandlerKnows /\ QuotaExact)'
<1> DEFINE step == clerk'[c].pc
<1>1. /\ At(c, "idle")
      /\ \A d \in Clerks \ {c} : clerk'[d] = clerk[d]
      /\ clerk'[c].ban = b
      /\ step \in LockedSteps => mu = NoClerk
      /\ UNCHANGED <<ban, tracker>>
      /\ \/ step = "reserve" /\ \A d \in Clerks : clerk[d].ban # b
         \/ /\ <<step, ban[b].state>> \in {<<"approve", "pending">>, <<"reject", "pending">>,
                                           <<"roll_delete", "active">>, <<"roll_reject", "pending">>}
            /\ Begin(c, step, b)
            /\ clerk'[c].global = ban[b].global /\ clerk'[c].count = ban[b].count
  BY ClerkArrives DEF QuotaInv, LifeInv
<1>2. clerk[c] = Idle /\ clerk[c].pc = "idle"
  BY <1>1 DEF QuotaInv, LifeInv, Busy, At
<1>3. ASSUME NEW d \in Clerks \ {c} PROVE clerk[d].ban # b
  <2> SUFFICES ASSUME clerk[d].ban = b PROVE FALSE
    OBVIOUS
  <2>1. /\ ban[b].state \in {"pending", "active"}
        /\ step \in {"approve", "reject", "roll_delete", "roll_reject"}
        /\ Begin(c, step, b)
    BY <1>1
  <2>2. {step, clerk[d].pc} \intersect UnlockedRollback = {}
    BY <2>1 DEF Begin
  <2>3. step \in {"approve", "reject"} /\ clerk[d].pc \notin UnlockedRollback
    BY <2>1, <2>2 DEF UnlockedRollback
  <2>4. clerk[d].pc \notin LockedSteps
    BY <1>1, <2>3, ScopedAssumption
       DEF ScopedAssumption, QuotaInv, LifeInv, LockDiscipline, LockedSteps
  <2>5. clerk[d].pc # "idle"
    BY ScopedAssumption, IdleType DEF ScopedAssumption, QuotaInv, LifeInv, Busy, At
  <2>6. clerk[d].pc \in Steps
    BY DEF QuotaInv, LifeInv, ScopedTypeOK, ClerkRecords
  <2>7. clerk[d].pc \in Creating
    BY <2>3, <2>4, <2>5, <2>6 DEF Steps, Creating
  <2> QED
    BY <2>1, <2>7 DEF QuotaInv, LifeInv, CreatingOnce
<1>4. Knows(c)'
  BY <1>1 DEF Knows, Ordering, Creating
<1>5. step \in {"reserve", "approve", "reject", "roll_delete", "roll_reject"}
  BY <1>1
<1>6. HoldsBy(c, b) = IF ban[b].state \in {"pending", "active"} THEN {ban[b].count} ELSE {}
  BY <1>2, HoldsAtRest DEF Live
<1>7. HoldsBy(c, b)' = IF ban'[b].state \in {"pending", "active"} THEN {ban'[b].count} ELSE {}
  BY <1>5, HoldsNext
<1>8. KindBy(c, b) = Kind(ban[b]) /\ KindBy(c, b)' = Kind(ban'[b])
  BY <1>2, <1>5, HoldsAtRest, HoldsNext
<1>9. Move(c, b, "scoped", 0)
  BY <1>1, <1>6, <1>7, <1>8 DEF Move
<1>10. \E k \in Kinds, n \in Nat : Move(c, b, k, n)
  BY <1>9 DEF Kinds
<1> QED
  BY <1>1, <1>2, <1>3, <1>4, <1>10, HandlerQuota

\* What a start counts is what the bans hold when nobody is at work.
LEMMA RestartQuota ==
  ASSUME QuotaInv, LifeInv', Restart
  PROVE  (OneHandler /\ HandlerKnows /\ QuotaExact)'
<1>1. /\ \A c \in Clerks : clerk'[c].pc = "idle" /\ clerk'[c].ban = NoBan
      /\ NoBan \notin Bans /\ ban' = ban /\ tracker' = restoreQuota
  BY IdleType, ScopedAssumption DEF ScopedAssumption, Restart, dbVars
<1>2. OneHandler'
  BY <1>1 DEF OneHandler
<1>3. HandlerKnows'
  BY <1>1 DEF HandlerKnows, Knows, Ordering, Creating
<1>4. ByColumn'
  BY FreeView, PTL
<1>5. ASSUME NEW b \in Bans
      PROVE  /\ Reserved(b)' = IF Live(b) THEN {ban[b].count} ELSE {}
             /\ KindNow(b)' = Kind(ban[b])
  BY <1>1, <1>4 DEF ByColumn, Live
<1>6. ASSUME NEW k \in Kinds
      PROVE  tracker'[k] = [prefixes |-> SumFunction([b \in Held(k) |-> Max(Reserved(b))])',
                            rules |-> Cardinality(Held(k))']
  <2>1. Held(k)' = LiveOf(k)
    <3>1. Held(k)' = { b \in Bans : KindNow(b)' = k /\ Reserved(b)' # {} }
      BY DEF Held
    <3>2. \A b \in Bans : KindNow(b)' = k /\ Reserved(b)' # {} <=> Kind(ban[b]) = k /\ Live(b)
      BY <1>5
    <3> QED
      BY <3>1, <3>2 DEF LiveOf
  <2>2. ASSUME NEW b \in LiveOf(k) PROVE Max(Reserved(b)') = ban[b].count
    <3>1. b \in Bans /\ Live(b) /\ ban[b].count \in Nat
      BY DEF LiveOf, QuotaInv, LifeInv, ScopedTypeOK, BanRows
    <3>2. Reserved(b)' = {ban[b].count}
      BY <1>5, <3>1
    <3> QED
      BY <3>1, <3>2, MaxOfOne
  <2>3. [b \in Held(k)' |-> Max(Reserved(b)')] = [b \in LiveOf(k) |-> ban[b].count]
    BY <2>1, <2>2, Zenon
  <2>4. SumFunction([b \in Held(k) |-> Max(Reserved(b))])' = Counted(LiveOf(k))
    BY <2>3 DEF Counted
  <2> QED
    BY <1>1, <2>1, <2>4 DEF restoreQuota
<1>7. Exact'
  BY <1>6 DEF Exact
<1> QED
  BY <1>2, <1>3, <1>7 DEF QuotaExact, Exact

\* Nothing is reserved at the start.
LEMMA QuotaInit == ScopedInit => QuotaInv
<1> SUFFICES ASSUME ScopedInit PROVE OneHandler /\ HandlerKnows /\ QuotaExact
  BY LifeInit DEF QuotaInv
<1>1. \A c \in Clerks : clerk[c].pc = "idle" /\ clerk[c].ban = NoBan
  BY IdleType DEF ScopedInit
<1>2. OneHandler
  BY <1>1 DEF OneHandler
<1>3. HandlerKnows
  BY <1>1 DEF HandlerKnows, Knows, Ordering, Creating
<1>4. \A b \in Bans : Reserved(b) = {}
  BY <1>1, FreeView, ScopedAssumption DEF ScopedAssumption, ByColumn, ScopedInit, Live
<1>5. \A k \in Kinds : Held(k) = {}
  BY <1>4 DEF Held
<1>6. ASSUME NEW k \in Kinds PROVE SumOf(Amounts, Held(k)) = 0 /\ Cardinality(Held(k)) = 0
  <2>1. {} \in SUBSET {} /\ IsFiniteSet({}) /\ Cardinality({}) = 0
    BY FS_EmptySet
  <2>2. SumOf(Amounts, {}) = 0
    BY <2>1, SumRec
  <2> QED
    BY <1>5, <2>1, <2>2
<1>7. ExactSums
  BY <1>6 DEF ExactSums, ScopedInit
<1>8. Singles
  BY <1>4 DEF Singles
<1> QED
  BY <1>2, <1>3, <1>7, <1>8, ExactView DEF QuotaExact, Exact

\* All steps keep the tracker exact, restarts included.
LEMMA QuotaStep == QuotaInv /\ [ScopedNext]_scopedVars => QuotaInv'
<1> DEFINE Good == (OneHandler /\ HandlerKnows /\ QuotaExact)'
<1> SUFFICES ASSUME QuotaInv, [ScopedNext]_scopedVars, LifeInv' PROVE Good
  BY LifeStep DEF QuotaInv
<1>1. upsets' # {} => Good
  BY DEF OneHandler, HandlerKnows, QuotaExact
<1>2. ASSUME NEW c \in Clerks, Continue(c) PROVE Good
  <2>1. upsets \subseteq upsets'
    BY <1>2 DEF Continue, scopedBanCreate_Reserve, scopedBanCreate_Insert,
      scopedBanCreate_InsertFails, scopedBanApprove_Commit, scopedBanApprove_Resolve,
      scopedBanApprove_NoDatabase, scopedBanApprove_Rereserve, scopedBanApprove_Restore,
      scopedBanApprove_Recount, scopedBanApprove_RecountFails, CreateDispatch_Veto,
      CreateScopedDispatch, CreateGlobalScopedDispatch, recordLadder, scopedBanReject_Commit,
      lookupRollback_Reject, scopedBanRevoke_Delete, scopedBanRevoke_Commit,
      lookupRollback_UpdateFails, ReleaseQuota
  <2> QED
    BY <1>1, <1>2, <2>1, ContinueQuota
<1>3. ASSUME NEW c \in Clerks, NEW b \in Bans, Arrive(c, b) PROVE Good
  <2>1. upsets \subseteq upsets'
    BY <1>3, ClerkArrives DEF QuotaInv, LifeInv, Begin
  <2> QED
    BY <1>1, <1>3, <2>1, ArriveQuota
<1>4. ASSUME NEW c \in Clerks, Abort(c) PROVE Good
  BY <1>1, <1>4 DEF Abort
<1>5. CASE Restart
  BY <1>5, RestartQuota
<1>6. ASSUME UNCHANGED <<ban, tracker, clerk, upsets>> PROVE Good
  <2>1. (OneHandler /\ HandlerKnows)'
    BY <1>6 DEF QuotaInv, OneHandler, HandlerKnows, Knows
  <2>2. ASSUME NEW b \in Bans PROVE Reserved(b)' = Reserved(b) /\ KindNow(b)' = KindNow(b)
    BY <1>6 DEF Reserved, KindNow, Live, At
  <2>3. ASSUME NEW k \in Kinds
        PROVE  /\ Held(k)' = Held(k)
               /\ [b \in Held(k) |-> Max(Reserved(b))]' = [b \in Held(k) |-> Max(Reserved(b))]
    <3>1. Held(k)' = { b \in Bans : KindNow(b)' = k /\ Reserved(b)' # {} }
      BY DEF Held
    <3>2. Held(k) = { b \in Bans : KindNow(b) = k /\ Reserved(b) # {} }
      BY DEF Held
    <3>3. Held(k)' = Held(k) /\ Held(k) \subseteq Bans
      BY <2>2, <3>1, <3>2
    <3>4. [b \in Held(k)' |-> Max(Reserved(b)')] = [b \in Held(k) |-> Max(Reserved(b))]
      BY <2>2, <3>3
    <3> QED
      BY <3>3, <3>4
  <2>4. QuotaExact'
    BY <1>6, <2>3 DEF QuotaInv, QuotaExact
  <2> QED
    BY <2>1, <2>4
<1>7. ASSUME NEW b \in Bans, Reload(b) PROVE Good
  BY <1>6, <1>7 DEF Reload, dbVars
<1>8. ASSUME NEW x \in Hosts \union Bans, Protect(x) PROVE Good
  BY <1>6, <1>8 DEF Protect, dbVars
<1>9. CASE UNCHANGED scopedVars
  BY <1>6, <1>9 DEF scopedVars, dbVars
<1> QED
  BY <1>2, <1>3, <1>4, <1>5, <1>7, <1>8, <1>9 DEF ScopedNext

\* The tracker counts exactly what the live bans and the handlers at work hold:
\* through submissions, approvals that count again, rejections and rollbacks, in
\* any order and any number at once, and again after every start, as long as none
\* stopped halfway, was vetoed, lost an old reservation, overlapped a rollback or
\* rolled back a ban whose new state was not saved.
THEOREM QuotaIsExact == ScopedSpec => []QuotaExact
<1>1. QuotaInv => QuotaExact
  BY DEF QuotaInv
<1> QED
  BY <1>1, QuotaInit, QuotaStep, PTL DEF ScopedSpec

=============================================================================
