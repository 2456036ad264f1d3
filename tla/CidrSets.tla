------------------------------ MODULE CidrSets ------------------------------
(* The CIDR arithmetic of the kill switch and of the conflict gate on an     *)
(* address of Width bits: subtraction of the secondaries' declared blocks    *)
(* from the private ranges, the test for a default route, and the test for   *)
(* an overlap, beside the sets of addresses they speak of.                   *)
(*                                                                           *)
(* Tunnels declare one block after the other, written as a user may write    *)
(* them, with host bits set.  IPv6 blocks, which every function drops, and   *)
(* the parsing of "a.b.c.d/n" are left out.                                  *)
EXTENDS Integers, Sequences, FiniteSets, SequencesExt

CONSTANTS
    Width,         \* bits of an address: 32 in the code
    BaseLists,     \* the lists subtracted from: RFC 1918 in the code
    MaxDeclared    \* declared blocks

CidrTop == 2^Width - 1           \* u32::MAX
Blocks  == [addr : 0..CidrTop, len : 0..Width]

ASSUME CidrAssumption ==
    /\ Width \in Nat \ {0} /\ MaxDeclared \in Nat
    /\ BaseLists \subseteq Seq(Blocks)

VARIABLES base, declared

cidrVars == <<base, declared>>

CidrTypeOK == base \in BaseLists /\ declared \in Seq(Blocks)

CidrInit == base \in BaseLists /\ declared = <<>>

Declare ==
    /\ Len(declared) < MaxDeclared
    /\ \E b \in Blocks : declared' = Append(declared, b)
    /\ UNCHANGED base

CidrSpec == CidrInit /\ [][Declare]_cidrVars

-----------------------------------------------------------------------------
(* What the blocks mean                                                      *)

Addresses(b) ==
    LET size == 2^(Width - b.len) IN {a \in 0..CidrTop : a \div size = b.addr \div size}
Union(bs) == UNION {Addresses(bs[i]) : i \in DOMAIN bs}

-----------------------------------------------------------------------------
(* Ranges: pairs <<first, last>>                                             *)

ToRange(b) ==
    LET size == 2^(Width - b.len) first == b.addr - (b.addr % size)
    IN <<first, first + size - 1>>

\* rfc1918_ranges: an address outside both lies between any two of its blocks.
Far(r, q)    == r[2] + 1 < q[1] \/ q[2] + 1 < r[1]
Separate(bs) == \A i, j \in DOMAIN bs : i # j => Far(ToRange(bs[i]), ToRange(bs[j]))

ASSUME BaseAssumption == \A bs \in BaseLists : Separate(bs)

Ranges(bs)     == [i \in DOMAIN bs |-> ToRange(bs[i])]
\* sort_unstable_by_key: ranges of one start come in any order.
SortRanges(rs) ==
    LET places == DOMAIN rs
        order  == CHOOSE p \in [places -> places] :
                      /\ \A k \in places : \E i \in places : p[i] = k
                      /\ \A i, j \in places : i < j => rs[p[i]][1] <= rs[p[j]][1]
    IN [i \in places |-> rs[order[i]]]

\* saturating_add
Next1(x) == IF x = CidrTop THEN x ELSE x + 1

\* merge_ranges: overlapping and adjacent ranges become one.
Joined(acc, r) ==
    LET cur == Last(acc)
    IN IF acc = <<>> \/ r[1] > Next1(cur[2]) THEN Append(acc, r)
       ELSE IF r[2] > cur[2] THEN [acc EXCEPT ![Len(acc)] = <<cur[1], r[2]>>]
       ELSE acc
MergeRanges(rs) ==
    LET sorted == SortRanges(rs)
        merged[k \in 0..Len(rs)] ==
            IF k = 0 THEN <<>> ELSE Joined(merged[k - 1], sorted[k])
    IN merged[Len(rs)]

\* mutant: the cursor wraps at the last address instead of stopping there.
SubtractWraps(range, removes) ==
    LET Wrap(acc, r) ==
            IF r[2] < acc.cursor \/ r[1] > range[2] THEN acc
            ELSE [cursor |-> (r[2] + 1) % (CidrTop + 1), done |-> FALSE,
                  out |-> IF r[1] > acc.cursor
                          THEN Append(acc.out, <<acc.cursor, r[1] - 1>>) ELSE acc.out]
        cut[k \in 0..Len(removes)] ==
            IF k = 0 THEN [cursor |-> range[1], done |-> FALSE, out |-> <<>>]
            ELSE Wrap(cut[k - 1], removes[k])
        end == cut[Len(removes)]
    IN IF end.cursor <= range[2] THEN Append(end.out, <<end.cursor, range[2]>>) ELSE end.out

\* The body of subtract_from_range's loop; done is its early return.
CutOut(acc, r, range) ==
    IF acc.done \/ r[2] < acc.cursor \/ r[1] > range[2] THEN acc
    ELSE [cursor |-> Next1(r[2]),
          done   |-> Next1(r[2]) > range[2] \/ r[2] = CidrTop,
          out    |-> IF r[1] > acc.cursor
                     THEN Append(acc.out, <<acc.cursor, r[1] - 1>>) ELSE acc.out]

\* subtract_from_range: removes is sorted and merged.
SubtractFromRange(range, removes) ==
    LET cut[k \in 0..Len(removes)] ==
            IF k = 0 THEN [cursor |-> range[1], done |-> FALSE, out |-> <<>>]
            ELSE CutOut(cut[k - 1], removes[k], range)
        end == cut[Len(removes)]
    IN IF ~end.done /\ end.cursor <= range[2]
       THEN Append(end.out, <<end.cursor, range[2]>>) ELSE end.out

\* range_to_cidrs: from the first address on, the largest aligned block that fits.
Aligned(k, first, last) == first % 2^k = 0 /\ 2^k <= last - first + 1
LargestFit(first, last) ==
    CHOOSE k \in 0..Width : Aligned(k, first, last) /\ \A j \in (k + 1)..Width : ~Aligned(j, first, last)
RangeToCidrs(range) ==
    LET from[first \in 0..(CidrTop + 1)] ==
            IF first > range[2] THEN <<>>
            ELSE LET k == LargestFit(first, range[2])
                 IN <<[addr |-> first, len |-> Width - k]>> \o from[first + 2^k]
    IN from[range[1]]

CidrSubtract(bs, removed) ==
    LET gone  == MergeRanges(Ranges(removed))
        left  == [i \in DOMAIN bs |-> SubtractFromRange(ToRange(bs[i]), gone)]
        cidrs == [i \in DOMAIN bs |-> FlattenSeq([j \in DOMAIN left[i] |->
                                                      RangeToCidrs(left[i][j])])]
    IN FlattenSeq(cidrs)

\* covers_full_u32: how far the ranges reach from 0; -1 at the start and after a gap.
Reach(end, r) == IF r[1] > Next1(end) THEN -1 ELSE IF r[2] > end THEN r[2] ELSE end
CoversFull(rs) ==
    LET sorted == SortRanges(rs)
        reach[k \in 0..Len(rs)] == IF k = 0 THEN -1 ELSE Reach(reach[k - 1], sorted[k])
    IN reach[Len(rs)] = CidrTop

ClaimsDefaultRoute(bs) ==
    \/ \E i \in DOMAIN bs : bs[i].len = 0
    \/ CoversFull(Ranges(bs))

\* Cidr::intersects: equal in the bits both masks keep.
Intersects(b, c) ==
    LET size == 2^(Width - (IF b.len < c.len THEN b.len ELSE c.len))
    IN b.addr \div size = c.addr \div size

Filtered(bs, keep) == SelectSeq(bs, LAMBDA b : b \in keep)

OverlappingCidrs(bs, cs) ==
    Filtered(bs, {b \in Blocks : \E i \in DOMAIN cs : Intersects(b, cs[i])})

-----------------------------------------------------------------------------
(* Properties                                                                *)

Siblings(b, c) ==
    /\ b.len = c.len /\ b.len > 0 /\ b # c
    /\ b.addr \div 2^(Width - b.len + 1) = c.addr \div 2^(Width - b.len + 1)

\* The list of private networks the firewall lets through is exactly the base
\* without what the secondaries declare, at every prefix length from the whole
\* address space to a single address; each block has its host bits clear, and
\* no two blocks cover an address twice or could be written as one
\* (cidr_subtract: "the canonical CIDR list of what remains").
PassListIsExact ==
    LET out == CidrSubtract(base, declared) IN
    /\ Union(out) = Union(base) \ Union(declared)
    /\ \A i \in DOMAIN out : out[i].addr % 2^(Width - out[i].len) = 0
    /\ \A i, j \in DOMAIN out :
           i # j => /\ Addresses(out[i]) \cap Addresses(out[j]) = {}
                    /\ ~Siblings(out[i], out[j])

\* A set of routes is taken for a default route exactly when it covers every
\* address, however it is cut into blocks, and a block is reported as
\* overlapping exactly when it shares an address (claims_default_route_v4,
\* overlapping_cidrs; the conflict gates decide by them).
RoutesAreSets ==
    /\ ClaimsDefaultRoute(declared) <=> Union(declared) = 0..CidrTop
    /\ OverlappingCidrs(base, declared)
         = Filtered(base, {b \in Blocks : Addresses(b) \cap Union(declared) # {}})

\* The CIDR arithmetic the firewall and the registry rest on is set arithmetic
\* on addresses (cidr_subtract, claims_default_route_v4, overlapping_cidrs).
CidrsAreSets == PassListIsExact /\ RoutesAreSets
=============================================================================
