----------------------------- MODULE PrefixRange -----------------------------
(***************************************************************************)
(* From the lines of a prefix library to the prefixes a country or an AS    *)
(* stands for (internal/prefixdb: normalize, Load, applyOverrides, Resolve, *)
(* rangeToCIDRs).  Pure functions: PrefixStore says when a library is in    *)
(* service, RangeBans what is done with the prefixes.                       *)
(*                                                                         *)
(* The text of a line is left out: a line is the record its fields parse    *)
(* to, and lines that do not parse are skipped by the code without effect.  *)
(* A library is a set of lines, since their order and repetition are lost   *)
(* when Resolve sorts and merges.                                           *)
(***************************************************************************)
EXTENDS AddressSpace, Sequences, FiniteSetsExt

CONSTANTS Countries, ASNs

NoCountry == "NONE"  \* ip2asn's word for no country, or no country asked for
NoASN     == 0

ASSUME RangeAssumption ==
  /\ NoCountry \notin Countries /\ Countries # {}
  /\ ASNs \subseteq Nat \ {NoASN}

-----------------------------------------------------------------------------
(* Libraries.                                                              *)

\* A line of ip2asn, and a line of a registry, which has a count for an end.
Lines ==
  [start : Addresses, end : Addresses,
   country : Countries \union {NoCountry}, asn : ASNs \union {NoASN}]

Delegations ==
  [start : Addresses, count : 0..Top, country : Countries]

Entries == { e \in Lines : e.start <= e.end }

\* What an operator imported and what was written by hand.
LibraryRecords ==
  [lines : SUBSET Lines, delegations : SUBSET Delegations, rules : SUBSET Entries]

\* A fault: the end is not brought back to 32 bits.
UnboundedEnd(d) == d.start + d.count - 1

\* In 32 bits, so a count that runs past the last address comes round.
DelegatedEnd(d) == (d.start + d.count - 1) % (Top + 1)

\* normalize of the format rir_delegated.
Delegated(ds) ==
  { [start |-> d.start, end |-> DelegatedEnd(d), country |-> d.country, asn |-> NoASN] :
      d \in { x \in ds : x.count # 0 /\ DelegatedEnd(x) >= x.start } }

Load(lines) == { e \in lines : e.end >= e.start }

overlapsAny(e, rules) == \E o \in rules : e.start <= o.end /\ o.start <= e.end

\* A record that a rule touches is dropped as a whole, the part outside the rule too.
applyOverrides(entries, rules) ==
  { e \in entries : ~overlapsAny(e, rules) } \union rules

\* The database that Reload puts in service.
Database(library) ==
  applyOverrides(Load(library.lines \union Delegated(library.delegations)), library.rules)

-----------------------------------------------------------------------------
(* Resolution.                                                             *)

Selectors ==
  [country : Countries \union {NoCountry}, asn : ASNs \union {NoASN}]
    \ {[country |-> NoCountry, asn |-> NoASN]}

Matches(e, sel) ==
  /\ sel.country = NoCountry \/ e.country = sel.country
  /\ sel.asn = NoASN \/ e.asn = sel.asn

candidates(db, sel) == { e \in db : Matches(e, sel) }

\* Ranges meet when they share an address or follow each other; nothing follows
\* the last address.
Meets(cur, r) == r.start <= cur.end \/ (cur.end # Top /\ r.start = cur.end + 1)

\* A fault: the later range is taken to be the one that ends later.
TakesLaterEnd(r, merged) ==
  LET last == Len(merged) IN
  IF last > 0 /\ Meets(merged[last], r)
  THEN [merged EXCEPT ![last].end = r.end]
  ELSE Append(merged, r)

\* One more range; the last of the merged ones is the `cur` of the code.
Absorb(r, merged) ==
  LET last == Len(merged) IN
  IF last > 0 /\ Meets(merged[last], r)
  THEN [merged EXCEPT ![last].end = IF r.end > @ THEN r.end ELSE @]
  ELSE Append(merged, r)

\* Ranges that start together may be sorted either way, with the same outcome.
LastOf(ranges) == CHOOSE r \in ranges : \A s \in ranges : s.start <= r.start

\* The ranges in the order of their starts, each joined to those before it.
Merged(ranges) == MapThenFoldSet(Absorb, << >>, LAMBDA r : r, LastOf, ranges)

\* The largest block that begins at start and does not go past the end.
LargestLen(start, end) ==
  Min({ len \in 0..AddrBits : start % BlockSize(len) = 0 /\ BlockSize(len) <= end - start + 1 })

rangeToCIDRs(first, end) ==
  LET from[start \in first .. end] ==
        LET len  == LargestLen(start, end)
            next == start + BlockSize(len)
        IN <<[addr |-> start, len |-> len]>> \o
             IF next > Top \/ next > end THEN <<>> ELSE from[next]
  IN from[first]

\* The prefixes of each range, one range after the other.
allCIDRs(merged) ==
  MapThenFoldSet(LAMBDA cidrs, out : out \o cidrs, << >>,
                 LAMBDA i : rangeToCIDRs(merged[i].start, merged[i].end), Max, DOMAIN merged)

Resolve(db, sel) ==
  allCIDRs(Merged({ [start |-> e.start, end |-> e.end] : e \in candidates(db, sel) }))

\* quota.Check and Preview: the addresses of a list of prefixes.
AddressCount(cidrs) == SumFunction([i \in DOMAIN cidrs |-> BlockSize(cidrs[i].len)])

-----------------------------------------------------------------------------
(* What resolution has to give, without prefixes, sorting or wraparound.    *)

\* The addresses that belong to a selector: a rule decides where there is one,
\* and elsewhere the lines that no rule has touched.
Belongs(library, sel) ==
  LET given   == { [start |-> d.start, end |-> d.start + d.count - 1,
                    country |-> d.country, asn |-> NoASN] :
                     d \in { x \in library.delegations : x.start + x.count - 1 <= Top } }
      holds(e, a) == e.start <= a /\ a <= e.end
      ruled(a)    == { o \in library.rules : holds(o, a) }
      touched(e)  == \E a \in Addresses : holds(e, a) /\ ruled(a) # {}
  IN { a \in Addresses :
         IF ruled(a) # {} THEN \E o \in ruled(a) : Matches(o, sel)
         ELSE \E e \in library.lines \union given :
                holds(e, a) /\ Matches(e, sel) /\ ~touched(e) }

\* No prefix twice, none within another, and no two that one prefix would do for.
Minimal(prefixes) ==
  \A p, q \in prefixes : p # q =>
    /\ ~Overlaps(p, q)
    /\ ~(p.len = q.len /\ Masked(p.addr, p.len - 1) = Masked(q.addr, q.len - 1))

=============================================================================
