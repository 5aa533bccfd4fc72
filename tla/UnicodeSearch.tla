---------------------------- MODULE UnicodeSearch ----------------------------
(***************************************************************************)
(* The lookup of a code point in a table of ranges, from the detail part   *)
(* of include/jsav/lexer/unicode/UnicodeData.hpp.                          *)
(***************************************************************************)
EXTENDS Integers, Sequences

(* A table is a sequence of CodepointRange, written here as the numbers    *)
(* first, last, first, last, ... in the order of the source.               *)
Table(numbers) ==
  [i \in 1 .. Len(numbers) \div 2 |->
     [first |-> numbers[2 * i - 1], last |-> numbers[2 * i]]]

(* What the static_assert of a table checks: neighbours are in order and   *)
(* apart.                                                                  *)
Separated(ranges) ==
  \A i \in 2 .. Len(ranges) : ranges[i - 1].last < ranges[i].first

(* What it does not check: no range ends before it begins.                 *)
Ordered(ranges) ==
  /\ ranges \in Seq([first : Nat, last : Nat])
  /\ \A i \in 1 .. Len(ranges) : ranges[i].first <= ranges[i].last

(* std::upper_bound: the position of the first range that begins past cp,  *)
(* found by halving the len places from first on that are still in doubt.  *)
upper_bound(ranges, cp) ==
  LET among[len \in Nat] ==
        [first \in Nat |->
           LET half == len \div 2
               middle == first + half
           IN IF len = 0 THEN first
              ELSE IF cp < ranges[middle].first THEN among[half][first]
              ELSE among[len - half - 1][middle + 1]]
  IN among[Len(ranges)][1]

(* Mutant: the last code point of a range is left out. *)
InRangesHalfOpen(cp, ranges) ==
  LET it == upper_bound(ranges, cp) IN it # 1 /\ cp < ranges[it - 1].last

in_ranges(cp, ranges) ==
  LET it == upper_bound(ranges, cp) IN it # 1 /\ cp <= ranges[it - 1].last

(* What in_ranges promises membership of. *)
Members(ranges) == UNION {ranges[i].first .. ranges[i].last : i \in 1 .. Len(ranges)}
=============================================================================
