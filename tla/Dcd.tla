-------------------------------- MODULE Dcd --------------------------------
(***************************************************************************)
(* DynamicCapacityDevice (dcd_gfam.cpp): run-time add and release of       *)
(* tagged capacity.  Every public operation holds the device mutex, so one *)
(* operation is one step.  `extents` holds the active entries of extents_: *)
(* released entries stay in the vector with active = false and are skipped *)
(* by every loop of the code.  Timestamps and request counters are left    *)
(* out; no decision reads them.                                            *)
(***************************************************************************)
EXTENDS Integers, FiniteSets, FiniteSetsExt

CONSTANTS
  TotalCapacity,    \* total_capacity_bytes_
  Granularity,      \* granularity_bytes_ (the constructor makes it >= 1)
  MaxU64,           \* UINT64_MAX; as a requested base it means "any base"
  Tags,             \* the tags requests carry; 0 asks for the next free one
  MaxTag            \* bound of the model on next_tag_

ASSUME DcdAssumption ==
  /\ TotalCapacity \in Nat \ {0}
  /\ Granularity \in Nat \ {0}
  /\ MaxU64 \in Nat
  /\ TotalCapacity + TotalCapacity + Granularity < MaxU64
  /\ Tags \subseteq 0 .. MaxU64
  /\ MaxTag \in 1 .. MaxU64

VARIABLES
  extents,          \* the active extents_
  next_tag          \* next_tag_

dcdVars == <<extents, next_tag>>

U64 == 0 .. MaxU64

Extent == [base : U64, size : U64, tag : U64]
-----------------------------------------------------------------------------
ranges_overlap_Bug(a_base, a_size, b_base, b_size) ==
  /\ a_size # 0 /\ b_size # 0
  /\ a_base <= b_base
  /\ b_base - a_base < a_size

ranges_overlap(a_base, a_size, b_base, b_size) ==
  /\ a_size # 0 /\ b_size # 0
  /\ IF a_base <= b_base THEN b_base - a_base < a_size
                         ELSE a_base - b_base < b_size

range_contains(outer_base, outer_size, inner_base, inner_size) ==
  /\ inner_size # 0 /\ inner_size <= outer_size /\ inner_base >= outer_base
  /\ inner_base - outer_base <= outer_size - inner_size

\* Rounds up to the granularity; 0 when the rounded value does not fit.
align_up(value) ==
  LET remainder == value % Granularity
  IN  IF remainder = 0 THEN value
      ELSE IF value > MaxU64 - (Granularity - remainder) THEN 0
      ELSE value + Granularity - remainder

\* The whole device may be taken even when it is not a multiple of the
\* granularity.
aligned_size(size) == IF size = TotalCapacity THEN size ELSE align_up(size)

range_within_device(base, size) ==
  size > 0 /\ base < TotalCapacity /\ size <= TotalCapacity - base

range_overlaps_active(base, size) ==
  \E e \in extents : ranges_overlap(base, size, e.base, e.size)

\* The places the first-fit scan looks at, in order of address: 0 and the
\* aligned end of every extent, each with the extents still ahead of it.
ScanPoints_Bug ==
  {[at |-> 0, ahead |-> extents]} \cup
  {[at |-> align_up(e.base + e.size) + Granularity,
    ahead |-> {f \in extents : f.base > e.base}] : e \in extents}

ScanPoints ==
  {[at |-> 0, ahead |-> extents]} \cup
  {[at |-> align_up(e.base + e.size),
    ahead |-> {f \in extents : f.base > e.base}] : e \in extents}

\* The bases the scan would accept: before the next extent, or, after the
\* last one, inside the device.
FreeBases(size) ==
  {p.at : p \in {q \in ScanPoints :
     IF q.ahead = {} THEN range_within_device(q.at, size)
     ELSE \A f \in q.ahead : q.at + size <= f.base}}

\* MaxU64 stands for std::nullopt.
find_free_base(size) ==
  IF FreeBases(size) = {} THEN MaxU64 ELSE Min(FreeBases(size))

Failed(status, base, size, tag) ==
  [status |-> status, base |-> base, size |-> size, tag |-> tag]

AddResult(requested_base, size, tag) ==
  LET asize == aligned_size(size)
      base  == IF requested_base = MaxU64 THEN find_free_base(asize)
                                          ELSE requested_base
  IN  IF asize = 0 \/ asize > TotalCapacity
        THEN Failed("INVALID_REQUEST", 0, 0, tag)
      ELSE IF requested_base = MaxU64 /\ base = MaxU64
        THEN Failed("OUT_OF_CAPACITY", 0, asize, tag)
      ELSE IF requested_base # MaxU64 /\ base % Granularity # 0
        THEN Failed("INVALID_REQUEST", requested_base, asize, tag)
      ELSE IF ~ range_within_device(base, asize)
        THEN Failed("OUT_OF_CAPACITY", base, asize, tag)
      ELSE IF range_overlaps_active(base, asize)
        THEN Failed("OVERLAP", base, asize, tag)
      ELSE [status |-> "OK", base |-> base, size |-> asize,
            tag |-> IF tag = 0 THEN next_tag ELSE tag]

\* The extents release_capacity can match.  Active extents are disjoint, so
\* there is at most one and the order of the scan does not matter.
Releasable(base, size, tag) ==
  {e \in extents : /\ tag = 0 \/ e.tag = tag
                   /\ e.base = base /\ e.size = aligned_size(size)}

ReleaseStatus(base, size, tag) ==
  IF ~ range_within_device(base, aligned_size(size)) THEN "INVALID_REQUEST"
  ELSE IF Releasable(base, size, tag) # {} THEN "OK" ELSE "NOT_FOUND"

\* find_extent(addr, size).has_value()
is_allocated(addr, size) ==
  /\ size # 0 /\ addr < TotalCapacity /\ size <= TotalCapacity - addr
  /\ \E e \in extents : range_contains(e.base, e.size, addr, size)
-----------------------------------------------------------------------------

\* enable_dcd: an empty device, or one with an initial extent at base 0 (the
\* whole device unless --dcd-initial-capacity says otherwise) tagged 1.
DcdInit ==
  /\ next_tag = 1
  /\ extents \in {{}} \cup
       {{[base |-> 0, size |-> aligned_size(s), tag |-> 1]} :
          s \in {t \in 1 .. TotalCapacity : aligned_size(t) <= TotalCapacity}}

add_capacity(requested_base, size, tag) ==
  LET result == AddResult(requested_base, size, tag)
  IN  IF result.status = "OK"
      THEN /\ tag = 0 => next_tag < MaxTag
           /\ extents' = extents \cup {[base |-> result.base,
                                        size |-> result.size,
                                        tag  |-> result.tag]}
           /\ next_tag' = IF tag = 0 THEN next_tag + 1 ELSE next_tag
      ELSE UNCHANGED dcdVars

release_capacity(base, size, tag) ==
  /\ extents' = IF ReleaseStatus(base, size, tag) = "OK"
                THEN extents \ Releasable(base, size, tag) ELSE extents
  /\ UNCHANGED next_tag

DcdNext ==
  \E base, size \in U64, tag \in Tags :
     add_capacity(base, size, tag) \/ release_capacity(base, size, tag)

DcdSpec == DcdInit /\ [][DcdNext]_dcdVars
-----------------------------------------------------------------------------
\* Extents are records of 64-bit fields and tags count up from 1.
DcdTypeOK ==
  /\ extents \in SUBSET Extent
  /\ next_tag \in 1 .. MaxTag

\* No sequence of adds (placed or first-fit, aligned or not, the odd
\* full-device size included) and releases ever hands one byte of the device
\* to two live extents.
ExtentsDisjoint ==
  \A e, f \in extents :
     e # f => \/ e.base + e.size <= f.base
              \/ f.base + f.size <= e.base

\* Every live extent is non-empty, starts on a granule and ends inside the
\* device, whatever base and size the request carried.
ExtentsInDevice ==
  \A e \in extents : /\ e.size > 0
                     /\ e.base % Granularity = 0
                     /\ e.base + e.size <= TotalCapacity

\* The reference for first fit: the granule-aligned bases where an extent of
\* this size could live.
FittingBases(size) ==
  {b \in 0 .. TotalCapacity - size :
     /\ b % Granularity = 0
     /\ \A e \in extents : b + size <= e.base \/ e.base + e.size <= b}

\* find_free_base is first fit and complete: on any fragmentation reached by
\* adds and releases it returns the lowest granule-aligned base that fits,
\* and it gives up only when no such base exists.
FirstFit ==
  \A size \in 1 .. TotalCapacity :
     aligned_size(size) = size =>
       find_free_base(size) = IF FittingBases(size) = {} THEN MaxU64
                              ELSE Min(FittingBases(size))
=============================================================================
