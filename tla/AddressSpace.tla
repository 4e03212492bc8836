---------------------------- MODULE AddressSpace ----------------------------
(***************************************************************************)
(* IPv4 source addresses and prefixes, with AddrBits bits in place of 32:   *)
(* what net/netip and the LPM tries of the kernel do with them.             *)
(***************************************************************************)
EXTENDS Integers

CONSTANT AddrBits  \* width of a source address (32 in the code)

ASSUME AddressAssumption == AddrBits \in Nat

\* Powers of two, as a function that can be reasoned about.
Power[k \in 0..AddrBits] == IF k = 0 THEN 1 ELSE 2 * Power[k - 1]

Top == Power[AddrBits] - 1

Addresses == 0..Top

BlockSize(len) == Power[AddrBits - len]

\* netip.Prefix.Masked: the host bits of a prefix are zero.
Masked(addr, len) == [addr |-> addr - (addr % BlockSize(len)), len |-> len]

Prefixes == { Masked(a, len) : a \in Addresses, len \in 0..AddrBits }

Covers(p, a) == a - (a % BlockSize(p.len)) = p.addr

Block(p) == { a \in Addresses : Covers(p, a) }

\* netip.Prefix.Overlaps: the two agree as far as the shorter one reaches.
Overlaps(p, q) ==
  LET len == IF p.len < q.len THEN p.len ELSE q.len IN
  Masked(p.addr, len) = Masked(q.addr, len)

=============================================================================
