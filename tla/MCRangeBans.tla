----------------------------- MODULE MCRangeBans -----------------------------
(* Eight addresses.  The first import has any two lines, the one of the AS    *)
(* first, or any line and one of a few rules, or any record of a registry;    *)
(* the later one has a rule, and a range that lies about its end.             *)
EXTENDS RangeBans

Line(start, end, country, asn) ==
  [start |-> start, end |-> end, country |-> country, asn |-> asn]

Library(lines, delegations, rules) ==
  [lines |-> lines, delegations |-> delegations, rules |-> rules]

Ranges == { r \in Addresses \X Addresses : r[1] <= r[2] }

MCCountries == {"c1", "c2"}
MCASNs == {1}
MCShields == {[addr |-> 3, len |-> 3]}
MCHardCoded == {[addr |-> 0, len |-> 3]}
MCClients == {6}

Pairs ==
  { Library({Line(r[1], r[2], "c1", 1), Line(s[1], s[2], "c1", 0)}, {}, {}) :
      <<r, s>> \in { p \in Ranges \X Ranges : p[1][1] <= p[2][1] } }

Ruled ==
  { Library({Line(r[1], r[2], "c1", 1)}, {}, {Line(s[1], s[2], "c2", 0)}) :
      r \in Ranges, s \in {<<0, 1>>, <<2, 5>>, <<7, 7>>} }

Registered ==
  { Library({}, {[start |-> a, count |-> n, country |-> "c1"]}, {}) :
      a \in Addresses, n \in 0..Top }

MCFirstImports == Pairs \union Ruled \union Registered

MCImports ==
  { Library({Line(1, 6, "c1", 1), Line(5, 4, "c1", 1), Line(6, 7, "c1", 1), Line(2, 2, "c2", 0)},
            {}, {Line(3, 3, "c2", 0)}) }
=============================================================================
