-------------------------- MODULE UnicodeProperties --------------------------
(***************************************************************************)
(* The classes of the code points a reader decodes: bytes to code point to *)
(* class, the way Lexer.cpp:62, :150 and :232 ask for them.                *)
(***************************************************************************)
EXTENDS UnicodeTables, Utf8Stream

Codepoint == Latest.res.codepoint

(* The code points around which a class may change: the ends of every      *)
(* range with their neighbours, the ASCII part, and the single code points *)
(* that is_unicode_line_terminator names.  Between two of them no class    *)
(* changes, so a run over these says what holds of every code point.       *)
EdgesOf(ranges) ==
  UNION {{ranges[i].first - 1, ranges[i].first, ranges[i].last, ranges[i].last + 1} :
    i \in 1 .. Len(ranges)}
Edges ==
  0 .. AsciiEnd \cup 132 .. 134 \cup 8231 .. 8234 \cup
  UNION {EdgesOf(t) :
    t \in {letter_ranges, id_start_ranges, id_continue_ranges, whitespace_ranges}}
-----------------------------------------------------------------------------
(* What the data of the tables are, range by range: closed formulas, which *)
(* TLC evaluates.                                                          *)
Holds(outer, inner) ==
  \A i \in 1 .. Len(inner) : \E j \in 1 .. Len(outer) :
    outer[j].first <= inner[i].first /\ inner[i].last <= outer[j].last
NeverMeet(ranges, others) ==
  \A i \in 1 .. Len(ranges), j \in 1 .. Len(others) :
    ranges[i].last < others[j].first \/ others[j].last < ranges[i].first

ASSUME TablesAreOrdered ==
  /\ Ordered(letter_ranges)      /\ Ordered(id_start_ranges)
  /\ Ordered(id_continue_ranges) /\ Ordered(whitespace_ranges)
ASSUME TablesBelowAscii ==
  \A cp \in 0 .. AsciiEnd - 1 :
    /\ cp \in Members(letter_ranges)      <=> AsciiLetter(cp)
    /\ cp \in Members(id_start_ranges)    <=> AsciiLetter(cp)
    /\ cp \in Members(id_continue_ranges) <=>
         AsciiLetter(cp) \/ AsciiDigit(cp) \/ cp = LowLine
ASSUME TablesNest ==
  /\ Holds(id_start_ranges, letter_ranges)
  /\ Holds(id_continue_ranges, id_start_ranges)
  /\ NeverMeet(id_continue_ranges, whitespace_ranges)
  /\ {133, 8232, 8233} \subseteq Members(whitespace_ranges)
  /\ REPLACEMENT_CHAR \notin Members(id_continue_ranges) \cup Members(whitespace_ranges)
-----------------------------------------------------------------------------
Letters == Members(letter_ranges)
IdStarts == Members(id_start_ranges)
IdContinues == Members(id_continue_ranges)
Whitespaces == Members(whitespace_ranges)

(* A class is exactly its table: the lookup finds a code point at either   *)
(* end of its range and none in the gaps, and the part below 80 that is    *)
(* spelled out says what the table says there, except that '_' starts an   *)
(* identifier and that no control character is whitespace.  in_ranges,     *)
(* UnicodeData.hpp:662, and the fast paths of is_letter and the others.    *)
ClassesAreTheirTables ==
  latest # <<>> =>
    LET cp == Codepoint IN
    /\ is_letter(cp) = (cp \in Letters)
    /\ is_id_start(cp) = (cp = LowLine \/ cp \in IdStarts)
    /\ is_id_continue(cp) = (cp \in IdContinues)
    /\ is_unicode_whitespace(cp) =
         (cp = Space \/ (cp >= AsciiEnd /\ cp \in Whitespaces))

(* What may start an identifier may continue one, a letter does both, and  *)
(* nothing in an identifier is whitespace, so a word ends where skipping   *)
(* may begin.  A line terminator is whitespace, or it would be reported    *)
(* instead of counted.  What stands for malformed bytes is in no class, so *)
(* that neither a word nor the space between tokens swallows them.         *)
ClassesNest ==
  latest # <<>> =>
    LET cp == Codepoint IN
    /\ is_letter(cp) => is_id_start(cp)
    /\ is_id_start(cp) => is_id_continue(cp)
    /\ is_id_continue(cp) => ~is_unicode_whitespace(cp)
    /\ is_unicode_line_terminator(cp) => is_unicode_whitespace(cp)
    /\ Latest.res.status # "Ok" => ~is_id_continue(cp) /\ ~is_unicode_whitespace(cp)
=============================================================================
