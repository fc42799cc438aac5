------------------------------- MODULE UintSet -------------------------------
(***************************************************************************)
(* UINT_SET (ssl/quic/uint_set.c): a set of 64-bit integers kept as a      *)
(* sorted list of inclusive ranges.  The QUIC stack stores received packet *)
(* numbers, unsent stream bytes and acknowledged stream bytes in it.       *)
(*                                                                         *)
(* The list is a sequence of records [start, end], head first.  The        *)
(* operations are operators from lists to lists: a loop that walks the     *)
(* list backwards and acts at the first range satisfying a condition is    *)
(* written as a choice of the largest index satisfying it.  Allocation     *)
(* failure is not modelled.  MaxUint plays UINT64_MAX: + 1 and - 1 wrap    *)
(* around as in uint64_t arithmetic.                                       *)
(***************************************************************************)
EXTENDS Integers, Sequences, FiniteSetsExt

CONSTANT MaxUint    \* The largest representable integer

ASSUME MaxUintAssumption == MaxUint \in Nat

VARIABLES
    ranges,     \* The list of ranges
    disjoint    \* History: every range was disjoint from the set when inserted

U64 == 0..MaxUint
Inc(v) == (v + 1) % (MaxUint + 1)
Dec(v) == (v + MaxUint) % (MaxUint + 1)

UINT_RANGE == {r \in [start : U64, end : U64] : r.start <= r.end}
Span(a, b) == [start |-> a, end |-> b]

\* The integers a list of ranges stands for.
Elems(list) == UNION {list[i].start .. list[i].end : i \in DOMAIN list}

(***************************************************************************)
(* Helpers on lists                                                        *)
(***************************************************************************)
uint_range_overlaps(a, b) ==
    Min({a.end, b.end}) >= Max({a.start, b.start})

\* The list with its elements i..j replaced by those of mid.
Splice(list, i, j, mid) ==
    SubSeq(list, 1, i - 1) \o mid \o SubSeq(list, j + 1, Len(list))

\* Mutant: the gap closed by an insertion is not merged away.
MergeForgotten(list, x) == list

\* Possible merge of the range at index x with the one before it.
uint_set_merge_adjacent(list, x) ==
    IF x = 1 \/ Dec(list[x].start) # list[x - 1].end
    THEN list
    ELSE Splice(list, x - 1, x, <<Span(list[x - 1].start, list[x].end)>>)

(***************************************************************************)
(* Insertion                                                               *)
(***************************************************************************)

\* The new range lies after the whole list: extend the tail or append.
InsertAtTail(list, r) ==
    LET z == Len(list)
    IN  IF Inc(list[z].end) = r.start
        THEN [list EXCEPT ![z].end = r.end]
        ELSE Append(list, r)

\* The new range overlaps ranges i..z (z is met first): they become one.
InsertOverlap(list, r, z) ==
    LET i == Min({j \in 1..z : \A k \in j..z : uint_range_overlaps(list[k], r)})
    IN  Splice(list, i, z, <<Span(Min({r.start, list[i].start}),
                                   Max({r.end, list[z].end}))>>)

\* The new range lies strictly between ranges z - 1 and z.
InsertBetween(list, r, z) ==
    IF list[z].start = Inc(r.end)
    THEN uint_set_merge_adjacent([list EXCEPT ![z].start = r.start], z)
    ELSE IF z > 1 /\ Inc(list[z - 1].end) = r.start
         THEN uint_set_merge_adjacent([list EXCEPT ![z - 1].end = r.end], z)
         ELSE Splice(list, z, z, <<r, list[z]>>)

\* The three ways in which the backward walk stops at range z.
Covers(a, b) == a.start <= b.start /\ a.end >= b.end
LiesBetween(list, r, z) ==
    r.end < list[z].start /\ (z = 1 \/ r.start > list[z - 1].end)
StopsAt(list, r, z) ==
    \/ Covers(list[z], r)
    \/ uint_range_overlaps(list[z], r)
    \/ LiesBetween(list, r, z)

InsertWalk(list, r) ==
    LET from == IF r.end < list[1].start THEN 1 ELSE Len(list)
        stops == {z \in 1..from : StopsAt(list, r, z)}
        z == Max(stops)
    IN  IF stops = {} \/ Covers(list[z], r)
        THEN list
        ELSE IF uint_range_overlaps(list[z], r)
        THEN InsertOverlap(list, r, z)
        ELSE InsertBetween(list, r, z)

ossl_uint_set_insert(list, r) ==
    IF list = <<>>
    THEN <<r>>
    ELSE IF r.start > list[Len(list)].end
         THEN InsertAtTail(list, r)
         ELSE IF r.start <= list[1].start /\ r.end >= list[Len(list)].end
              THEN <<r>>
              ELSE InsertWalk(list, r)

(***************************************************************************)
(* Removal and query                                                       *)
(***************************************************************************)

\* Mutant: a range cut in two loses its upper half.
RemoveNoSplit(x, r) ==
    IF r.start > x.end \/ r.end < x.start
    THEN <<x>>
    ELSE IF Covers(r, x)
    THEN <<>>
    ELSE IF r.start <= x.start
    THEN <<Span(Inc(r.end), x.end)>>
    ELSE <<Span(x.start, Dec(r.start))>>

\* What removing r leaves of one range x of the list.
RemoveFromRange(x, r) ==
    IF r.start > x.end
    THEN <<x>>
    ELSE IF Covers(r, x)
    THEN <<>>
    ELSE IF r.start <= x.start /\ r.end >= x.start
    THEN <<Span(Inc(r.end), x.end)>>
    ELSE IF r.end >= x.end
    THEN <<Span(x.start, Dec(r.start))>>
    ELSE IF r.start > x.start
    THEN <<Span(x.start, Dec(r.start)), Span(Inc(r.end), x.end)>>
    ELSE <<x>>

\* The backward walk ends at the first range that starts before r: the ranges
\* before that one are not looked at.
ossl_uint_set_remove(list, r) ==
    LET stop == Max({0} \cup {i \in DOMAIN list : r.start > list[i].start})
        left[i \in 0..Len(list)] ==
            IF i = 0
            THEN <<>>
            ELSE left[i - 1] \o IF i < stop THEN <<list[i]>>
                                ELSE RemoveFromRange(list[i], r)
    IN  left[Len(list)]

\* The backward walk is decided by the first range that holds v or ends
\* before it.
ossl_uint_set_query(list, v) ==
    LET decides == {i \in DOMAIN list : \/ v \in list[i].start .. list[i].end
                                        \/ list[i].end < v}
    IN  decides # {} /\ v \in list[Max(decides)].start .. list[Max(decides)].end

-----------------------------------------------------------------------------
SetInit == ranges = <<>> /\ disjoint = TRUE

InsertRange(r) ==
    /\ ranges' = ossl_uint_set_insert(ranges, r)
    /\ disjoint' = (disjoint /\ (r.start .. r.end) \cap Elems(ranges) = {})

RemoveRange(r) ==
    /\ ranges' = ossl_uint_set_remove(ranges, r)
    /\ UNCHANGED disjoint

SetNext == \E r \in UINT_RANGE : InsertRange(r) \/ RemoveRange(r)

SetSpec == SetInit /\ [][SetNext]_<<ranges, disjoint>>

-----------------------------------------------------------------------------
\* The list always consists of well-formed ranges.
WellFormed == ranges \in Seq(UINT_RANGE) /\ disjoint \in BOOLEAN

\* "The data structure is always sorted in ascending order by value" and "no
\* two ranges ever overlap" (uint_set.c), whatever is inserted and removed.
Sorted == \A i \in 1..(Len(ranges) - 1) : ranges[i].end < ranges[i + 1].start

\* Inserting any range into any list the code can build adds exactly the
\* integers of the range, however many existing ranges it overlaps.
InsertIsUnion ==
    \A r \in UINT_RANGE :
        Elems(ossl_uint_set_insert(ranges, r)) =
            Elems(ranges) \cup (r.start .. r.end)

\* Removing any range removes exactly its integers, splitting, shortening or
\* deleting ranges, also at 0 and at the largest integer.
RemoveIsDifference ==
    \A r \in UINT_RANGE :
        Elems(ossl_uint_set_remove(ranges, r)) =
            Elems(ranges) \ (r.start .. r.end)

\* The early exits of the query never change its answer.
QueryIsMembership ==
    \A v \in U64 : ossl_uint_set_query(ranges, v) <=> v \in Elems(ranges)

\* "No two adjacent ranges ever 'border' one another" (uint_set.c), as long as
\* only disjoint ranges are inserted, so that a maximal run of integers is one
\* list element.  The QUIC stack inserts no others: a packet number is inserted
\* after it was found not to be there, stream bytes enter new_set when they are
\* appended or lost and acked_set when their packet is acknowledged (Tracked of
\* QuicSStream).  QUIC_SSTREAM decides that a stream is totally acknowledged by
\* the length of the list being 1.
NoBorder ==
    disjoint => \A i \in 1..(Len(ranges) - 1) :
                    ranges[i].end + 1 < ranges[i + 1].start

\* The list acts as the set of integers it stands for: inserts, removes and
\* queries of every range mean what they mean for that set.
ActsAsSet == InsertIsUnion /\ RemoveIsDifference /\ QueryIsMembership

\* The list stays well formed, sorted and free of overlaps, and without
\* bordering ranges as long as inserted ranges are disjoint from the set.
Canonical == WellFormed /\ Sorted /\ NoBorder
==============================================================================
