---------------------------- MODULE HdmDecoder ----------------------------
(***************************************************************************)
(* src/hdm_decoder.cpp: which node an address belongs to, and where in it. *)
(* Servers add their own range first and one range per peer that connects; *)
(* nothing in the repository sorts the ranges, so lookups scan them in the *)
(* order of add_range.  Addresses wrap at Wrap (2^64).                     *)
(***************************************************************************)
EXTENDS Integers, Sequences

CONSTANTS
  Wrap,             \* 2^64
  LocalNode,        \* the target_id of the server itself
  Inputs,           \* the <<base, size, node>> ranges are added with
  Interleavings,    \* the <<granularity, targets, base, total>> of configure_interleave
  MaxRanges         \* bound of the model

ASSUME HdmAssumption ==
  /\ Wrap \in Nat \ {0} /\ MaxRanges \in Nat
  /\ \A in \in Inputs : in[1] \in 0 .. Wrap - 1 /\ in[2] \in 0 .. Wrap - 1 /\ in[3] \in Nat
  /\ \A il \in Interleavings :
       /\ il[1] \in Nat \ {0} /\ il[3] \in 0 .. Wrap - 1 /\ il[4] \in 0 .. Wrap - 1
       /\ il[2] \in Seq(Nat)
       /\ \A i, j \in DOMAIN il[2] : il[2][i] = il[2][j] => i = j   \* what a caller has to see to

VARIABLES hdm_mode, ranges, interleave
hdmVars == <<hdm_mode, ranges, interleave>>

Addresses == 0 .. Wrap - 1
Unmapped == <<>>                        \* target_id UINT32_MAX
Mapped(node, offset, remote) == <<node, offset, remote>>
RangeOf(base, size, node, remote) == [base |-> base, size |-> size, node |-> node, remote |-> remote]
NoInterleave == [granularity |-> 256, targets |-> <<>>, base |-> 0, total |-> 0]

HdmInit ==
  /\ hdm_mode \in {"INTERLEAVED", "RANGE_BASED", "HYBRID"}
  /\ ranges = <<>> /\ interleave = NoInterleave

add_range_Bug(base, size, node, remote) ==
  /\ Len(ranges) < MaxRanges
  /\ ranges' = <<RangeOf(base, size, node, remote)>> \o ranges
  /\ UNCHANGED <<hdm_mode, interleave>>

add_range(base, size, node, remote) ==
  /\ Len(ranges) < MaxRanges
  /\ ranges' = Append(ranges, RangeOf(base, size, node, remote))
  /\ UNCHANGED <<hdm_mode, interleave>>

configure_interleave(granularity, targets, base, total) ==
  /\ interleave' = [granularity |-> granularity, targets |-> targets, base |-> base, total |-> total]
  /\ UNCHANGED <<hdm_mode, ranges>>
---------------------------------------------------------------------------
(* decode                                                                  *)

\* addr >= base && addr < base + size, the sum wrapping.
InRange(r, addr) == addr >= r.base /\ addr < (r.base + r.size) % Wrap
Hit(r, addr) == Mapped(r.node, addr - r.base, r.remote)

First(S) == CHOOSE i \in S : \A j \in S : i <= j

\* The linear scan of decode_range.
Matches(rs, addr) == {i \in DOMAIN rs : InRange(rs[i], addr)}
decode_range(addr) ==
  IF Matches(ranges, addr) = {} THEN Unmapped
  ELSE Hit(ranges[First(Matches(ranges, addr))], addr)

\* Where address rel of a region goes: the index of the target in its list of
\* n, and the offset in that target.
TargetIndex(rel, g, n) == (rel \div g) % n
LocalOffset(rel, g, n) == ((rel \div g) \div n) * g + (rel % g)

IsRemote(node) ==       \* the first range of the target says
  LET of == {i \in DOMAIN ranges : ranges[i].node = node}
  IN  of # {} /\ ranges[First(of)].remote

decode_interleaved(addr) ==
  LET n == Len(interleave.targets)
      rel == addr - interleave.base
      node == interleave.targets[TargetIndex(rel, interleave.granularity, n) + 1]
  IN  IF n = 0 \/ addr < interleave.base \/ addr >= (interleave.base + interleave.total) % Wrap
        THEN Unmapped
        ELSE Mapped(node, LocalOffset(rel, interleave.granularity, n), IsRemote(node))

decode(addr) ==
  CASE hdm_mode = "RANGE_BASED" -> decode_range(addr)
    [] hdm_mode = "INTERLEAVED" -> decode_interleaved(addr)
    [] hdm_mode = "HYBRID" -> IF decode_range(addr) # Unmapped THEN decode_range(addr)
                                                               ELSE decode_interleaved(addr)

\* The binary search of decode_range on a sorted sequence s of ranges.
SearchStep_Bug(r, addr) ==
  IF addr < r.base THEN "left" ELSE IF addr > (r.base + r.size) % Wrap THEN "right" ELSE "here"
SearchStep(r, addr) ==
  IF addr < r.base THEN "left" ELSE IF addr >= (r.base + r.size) % Wrap THEN "right" ELSE "here"

BinarySearch(s, addr) ==
  LET find[w \in (1 .. Len(s) + 1) \X (0 .. Len(s))] ==
        LET lo == w[1]  hi == w[2]  mid == lo + (hi - lo) \div 2
        IN  IF lo > hi THEN Unmapped
            ELSE LET step == SearchStep(s[mid], addr)
                 IN  CASE step = "left"  -> find[<<lo, mid - 1>>]
                       [] step = "right" -> find[<<mid + 1, hi>>]
                       [] step = "here"  -> Hit(s[mid], addr)
  IN  find[<<1, Len(s)>>]

HdmNext ==
  \/ \E in \in Inputs : add_range(in[1], in[2], in[3], in[3] # LocalNode)
  \/ \E il \in Interleavings : configure_interleave(il[1], il[2], il[3], il[4])
HdmSpec == HdmInit /\ [][HdmNext]_hdmVars
---------------------------------------------------------------------------
\* Every range, and every offset handed out, lies in the address space.
HdmTypeOK ==
  /\ Len(ranges) <= MaxRanges
  /\ \A i \in DOMAIN ranges : ranges[i].base \in Addresses /\ ranges[i].size \in Addresses
  /\ \A a \in Addresses : decode(a) = Unmapped \/ decode(a)[2] \in Addresses

\* Two addresses of the interleaved region never share a target and an offset
\* there: interleaving loses no memory, at any granularity.
InterleaveInjective ==
  \A a, b \in Addresses :
    decode_interleaved(a) # Unmapped /\ decode_interleaved(a) = decode_interleaved(b) => a = b

Home(result) == IF result = Unmapped THEN result ELSE <<result[1], result[2]>>

\* A peer that connects never moves an address that a range or the interleaving
\* had already mapped, even when its range overlaps an older one: the home of a
\* line is where its coherency state is kept.  In HYBRID mode this is so for
\* the addresses of ranges only.
HomesAreStable ==
  [][UNCHANGED interleave =>
       \A a \in Addresses :
         decode_range(a) # Unmapped \/ hdm_mode = "INTERLEAVED" =>
           Home(decode(a))' = Home(decode(a))]_hdmVars

Disjoint(s) ==
  \A i, j \in DOMAIN s : i < j => s[i].base + s[i].size <= s[j].base
NonEmpty(s) == \A i \in DOMAIN s : s[i].size > 0 /\ s[i].base + s[i].size < Wrap

\* On sorted ranges that are disjoint and not empty the binary search that
\* decode_range has ready finds what the linear scan finds.
SearchesAgree ==
  Disjoint(ranges) /\ NonEmpty(ranges) =>
    \A a \in Addresses : BinarySearch(ranges, a) = decode_range(a)
===========================================================================
