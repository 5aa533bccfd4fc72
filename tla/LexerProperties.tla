--------------------------- MODULE LexerProperties ---------------------------
(***************************************************************************)
(* What is checked of Lexer.  The definitions of line starts, of trivia, of*)
(* numeric literals and of string ends below are declarative: they say     *)
(* which slices of a text s qualify, and never step through it as the      *)
(* scanners do.  A property about "the last token" covers all of them,     *)
(* because tokens only grow by one at the end.                             *)
(***************************************************************************)
EXTENDS Lexer, Utf8Reference, SourceSpans

Size == Len(m_source)
Latest == tokens[Len(tokens)]
Slice(s, from, to) == SubSeq(s, from + 1, to)
NewToken == tokens # <<>> /\ pc \in {"skip", "idle"}

Location == [line : Nat \ {0}, column : Nat \ {0}, offset : Nat]
Token == [kind : TokenKind, start : Location, end : Location]
Label == {"idle", "skip", "line_comment", "block_comment", "word", "number",
          "exponent", "exponent_digits", "type_suffix", "hash", "based",
          "string", "string_body", "string_escape", "char", "char_body",
          "char_escape", "char_close", "operator"}

(* Types, and the bound that replaces a range check in advance_byte: the   *)
(* cursor never passes the end of the source, in any scanner, including    *)
(* the unchecked advances of try_scan_width, skip_block_comment and        *)
(* try_two_char_token.                                                     *)
TypeOK ==
  /\ m_source \in Seq(Byte)
  /\ m_pos \in 0 .. Size
  /\ m_line \in Nat \ {0} /\ m_column \in Nat \ {0}
  /\ pc \in Label
  /\ tokenizing \in BOOLEAN /\ calls \in 0 .. MaxCalls
  /\ tokens \in Seq(Token)
  /\ start \in Location
  /\ seen_unicode \in BOOLEAN /\ has_malformed \in BOOLEAN
  /\ saved \in [pos : 0 .. Size, column : Nat \ {0}]
  /\ base \in Byte
-----------------------------------------------------------------------------
(* SourceLocation's operator<=>, and the order of offsets. *)
Before(a, b) ==
  \/ a.line < b.line
  \/ a.line = b.line /\ a.column < b.column
  \/ a.line = b.line /\ a.column = b.column /\ a.offset <= b.offset

(* Two locations of one lexer agree: on one line their columns differ by   *)
(* as much as their offsets, and the order of SourceLocation is the order  *)
(* of the offsets.                                                         *)
Agree(a, b) ==
  /\ a.line = b.line => b.column - a.column = b.offset - a.offset
  /\ Before(a, b) = (a.offset <= b.offset)

Locations ==
  {current_location} \cup {tokens[i].start : i \in DOMAIN tokens}
                     \cup {tokens[i].end : i \in DOMAIN tokens}

(* Every location in a token, and the lexer's own, agree with each other:  *)
(* no path (a line break inside a token, the exponent's rollback, a        *)
(* sequence of several bytes) moves the offset without the column, or      *)
(* counts a line twice.  Between the steps of an exponent the cursor runs  *)
(* ahead and is still consistent.                                          *)
LocationsAgree == \A a, b \in Locations : Agree(a, b)

(* A line break (LF, NEL, LS, PS) ends directly in front of offset o.      *)
LineStartsAt(s, o) ==
  \/ o \in 1 .. Len(s) /\ ByteAt(s, o - 1) = LF
  \/ o \in 2 .. Len(s) /\ Slice(s, o - 2, o) = <<194, 133>>
  \/ o \in 3 .. Len(s) /\ Slice(s, o - 3, o) \in {<<226, 128, 168>>, <<226, 128, 169>>}

(* The column of a location counts from such a place, or from the start.   *)
ColumnOK(s, l) ==
  IF l.line = 1 THEN l.column = l.offset + 1
  ELSE LineStartsAt(s, l.offset + 1 - l.column)

(* A column counts the bytes since a line break of the source, from 1      *)
(* (Lexer.hpp:21): whatever raises the line also resets the column, and    *)
(* nothing else does.                                                      *)
ColumnsCountFromLineBreaks == \A l \in Locations : ColumnOK(m_source, l)
-----------------------------------------------------------------------------
(* The tokens as a caller sees them, each with the span of its text in the *)
(* one file that is read.                                                  *)
getSpan(t) == [file_path |-> 0, start |-> t.start, end |-> t.end]

(* Merging the spans of two tokens, in place or not and in either order,   *)
(* gives the text from the start of the earlier to the end of the later    *)
(* one, and sorting tokens by span keeps the order they were lexed in: the *)
(* comparisons of SourceSpan.cpp:15 and :26 look at line and column before *)
(* the offset, and no line break within or between two tokens misleads     *)
(* them.                                                                   *)
SpansFollowTokens ==
  \A i, j \in DOMAIN tokens :
    i <= j =>
      LET a == getSpan(tokens[i])
          b == getSpan(tokens[j])
          both == [a EXCEPT !.end = b.end]
      IN /\ merge(a, b) = both /\ merge(b, a) = both
         /\ merged(a, b) = <<both>> /\ merged(b, a) = <<both>>
         /\ a = b \/ SpanLess(a, b)
-----------------------------------------------------------------------------
(* Trivia: white space, line breaks and comments.  TriviaEnds(s, o) is     *)
(* where an item of trivia that starts at o may end.                       *)
MinOffset(S) == CHOOSE o \in S : \A p \in S : o <= p

LineEnd(s, o) == MinOffset({p \in o .. Len(s) : p = Len(s) \/ ByteAt(s, p) = LF})
CommentEnd(s, o) ==
  MinOffset({p \in o .. Len(s) :
     \/ p = Len(s)
     \/ p >= o + 2 /\ ByteAt(s, p - 2) = STAR /\ ByteAt(s, p - 1) = SLASH})

TriviaEnds(s, o) ==
  IF o >= Len(s) THEN {}
  ELSE IF ByteAt(s, o) \in HorizontalSpace \cup {LF} THEN {o + 1}
  ELSE IF o + 1 < Len(s) /\ ByteAt(s, o) = SLASH /\ ByteAt(s, o + 1) = SLASH
       THEN {LineEnd(s, o + 2)}
  ELSE IF o + 1 < Len(s) /\ ByteAt(s, o) = SLASH /\ ByteAt(s, o + 1) = STAR
       THEN {CommentEnd(s, o + 2)}
  ELSE IF ByteAt(s, o) > 127 /\ IsWhitespace(decode_utf8(s, o))
       THEN {o + decode_utf8(s, o).byte_length}
  ELSE {}

IsTrivia(s, from, to) ==
  LET covered[o \in 0 .. to] ==
        o = to \/ \E p \in TriviaEnds(s, o) : p <= to /\ covered[p]
  IN covered[from]

LatestGapStarts ==
  IF Len(tokens) > 1 THEN {tokens[Len(tokens) - 1].end.offset}
  ELSE {0} \cup (IF HasBom THEN {3} ELSE {})

(* Nothing of the program text is lost: what lies between two tokens is    *)
(* white space and whole comments, the byte order mark only in front, and  *)
(* no token begins where trivia could (Lexer.hpp:48, "Lex all tokens";     *)
(* Lexer.cpp:18, the mark is skipped "at start of input").  It fails for a *)
(* client that calls tokenize() again (ReuseSpec): the test looks at the   *)
(* start of the source, not at the cursor.                                 *)
GapsAreTrivia ==
  NewToken =>
    /\ \E from \in LatestGapStarts : IsTrivia(m_source, from, Latest.start.offset)
    /\ TriviaEnds(m_source, Latest.start.offset) = {}
-----------------------------------------------------------------------------
(* Numeric literals: the set of ends a numeric literal starting at o may   *)
(* have.                                                                   *)
DigitsFrom(s, o) == {p \in o .. Len(s) : \A q \in o .. p - 1 : ByteAt(s, q) \in Digit}
SomeDigitsFrom(s, o) == DigitsFrom(s, o) \ {o}
ByteIn(s, o, S) == o < Len(s) /\ ByteAt(s, o) \in S

MantissaEnds(s, o) ==
  LET whole == SomeDigitsFrom(s, o)
      dotted == UNION {DigitsFrom(s, p + 1) : p \in {q \in whole : ByteIn(s, q, {DOT})}}
      fraction == IF ByteIn(s, o, {DOT}) THEN SomeDigitsFrom(s, o + 1) ELSE {}
  IN whole \cup dotted \cup fraction

ExponentEnds(s, o) ==
  {o} \cup (IF ~ByteIn(s, o, LetterE) THEN {}
            ELSE SomeDigitsFrom(s, o + 1)
                 \cup (IF ByteIn(s, o + 1, SIGN) THEN SomeDigitsFrom(s, o + 2) ELSE {}))

SuffixEnds(s, o) ==
  {o} \cup (IF ByteIn(s, o, LetterDF) THEN {o + 1} ELSE {})
      \cup {o + 1 + Len(w) : w \in {v \in Widths :
              /\ ByteIn(s, o, LetterUI)
              /\ o + 1 + Len(v) <= Len(s)
              /\ Slice(s, o + 1, o + 1 + Len(v)) = v
              /\ ~ByteIn(s, o + 1 + Len(v), Digit)}}

NumericEnds(s, o) ==
  UNION {UNION {SuffixEnds(s, e) : e \in ExponentEnds(s, m)} : m \in MantissaEnds(s, o)}

(* Maximal munch: a numeric token is the longest slice of the source, from *)
(* where it starts, that the grammar (mantissa, exponent, suffix) accepts; *)
(* an exponent or a width that fails half way leaves no trace.  The suffix *)
(* is that of Lexer.cpp:275-308 and of test/tests.cpp:3951: a letter, or a *)
(* width of 8, 16 or 32 with no digit behind it.  FR-011b of              *)
(* specs/003-numeric-literal-lexer/spec.md wants the digits of any width.  *)
NumericIsLongest ==
  NewToken =>
    /\ (Latest.kind = "Numeric") = (NumericEnds(m_source, Latest.start.offset) # {})
    /\ Latest.kind = "Numeric" =>
         /\ Latest.end.offset \in NumericEnds(m_source, Latest.start.offset)
         /\ \A p \in NumericEnds(m_source, Latest.start.offset) : p <= Latest.end.offset
-----------------------------------------------------------------------------
(* A byte at o, inside a literal that opens at from, is escaped when an    *)
(* odd number of backslashes stands directly before it.                    *)
Escaped(s, from, o) ==
  \E n \in 1 .. o - from - 1 :
    /\ n % 2 = 1
    /\ \A p \in o - n .. o - 1 : ByteAt(s, p) = BACKSLASH
    /\ o - n - 1 > from => ByteAt(s, o - n - 1) # BACKSLASH

StringEnd(s, from) ==
  LET inner == from + 1 .. Len(s) - 1 IN
  MinOffset({Len(s)}
    \cup {p + 1 : p \in {q \in inner : ByteAt(s, q) = QUOTE /\ ~Escaped(s, from, q)}}
    \cup {q \in inner : ByteAt(s, q) \in {LF, CR} /\ ~Escaped(s, from, q)})

(* A string literal ends behind its first unescaped quote, before the      *)
(* first unescaped line break, or at the end of the source, whichever      *)
(* comes first, malformed bytes and \u escapes in between or not.          *)
StringEndsAtFirstStop ==
  NewToken /\ ByteIn(m_source, Latest.start.offset, {QUOTE}) =>
    /\ Latest.end.offset = StringEnd(m_source, Latest.start.offset)
    /\ Latest.kind \in {"StringLiteral", "Error"}
-----------------------------------------------------------------------------
IsLiteral(t) == ByteIn(m_source, t.start.offset, {QUOTE, APOSTROPHE})
EscapesNonAscii(s, from, to) ==
  \E o \in from .. to - 2 : ByteAt(s, o) = BACKSLASH /\ ByteAt(s, o + 1) > 127
WellFormedToken(t) == WellFormed(Slice(m_source, t.start.offset, t.end.offset))

(* A literal is an Error token exactly when its bytes are not well-formed  *)
(* UTF-8: advance_with_utf8_check neither misses a broken sequence nor,    *)
(* by stepping badly over one, takes a sound one for broken.  (Literals    *)
(* that escape a character above 7F are the subject of the next property.) *)
LiteralErrorIsMalformed ==
  NewToken /\ IsLiteral(Latest)
           /\ ~EscapesNonAscii(m_source, Latest.start.offset, Latest.end.offset) =>
    (Latest.kind = "Error") = ~WellFormedToken(Latest)

(* The same without that exception, as Lexer.hpp:80 states it ("marking    *)
(* has_malformed if invalid").  It fails: skip_escape takes one byte of    *)
(* the escaped character, and what is left of it counts as malformed.      *)
EveryLiteralErrorIsMalformed ==
  NewToken /\ IsLiteral(Latest) =>
    (Latest.kind = "Error") = ~WellFormedToken(Latest)

LineFeedsBefore(o) == {p \in 0 .. o - 1 : ByteAt(m_source, p) = LF}
OnlyLineFeeds == \A o \in 0 .. Size - 1 : ByteAt(m_source, o) # 194    \* no NEL

(* The line of a token is the number of its line in the source             *)
(* (SourceLocation.hpp:32).  It fails: a line feed behind a backslash, or  *)
(* as the character of a char literal, is consumed by advance_byte, which  *)
(* does not count lines.                                                   *)
LinesAreCounted ==
  NewToken /\ OnlyLineFeeds =>
    Latest.start.line = 1 + Cardinality(LineFeedsBefore(Latest.start.offset))
-----------------------------------------------------------------------------
(* The lexer implements TokenStream: the tokens partition the source in    *)
(* order, each is at least one byte, the empty end token comes only at the *)
(* end and then for ever (Lexer.hpp:52).                                   *)
Promise == INSTANCE TokenStream WITH
  size <- Len(m_source),
  spans <- [i \in DOMAIN tokens |-> [from |-> tokens[i].start.offset,
                                     to |-> tokens[i].end.offset]]
TokenStreamSpec == Promise!Spec

(* Every call returns: no scanner can loop without consuming. *)
CallsReturn == (pc # "idle") ~> (pc = "idle")
=============================================================================
