-------------------------------- MODULE Lexer --------------------------------
(***************************************************************************)
(* The lexer of src/jsav_Lib/lexer/Lexer.cpp as a state machine over the   *)
(* bytes of one source text.                                               *)
(*                                                                         *)
(* pc names the loop or the function the lexer is in; a step is one        *)
(* iteration of a loop, or the straight-line code between two of them.     *)
(* Runs of digits, whose loop body is one advance_byte, are one step.      *)
(*                                                                         *)
(* Bytes are numbers.  Token kinds keep apart what the properties need:    *)
(* every operator and punctuation kind is "Operator" (its span gives the   *)
(* text), every keyword and type name is "Keyword".  Unicode classes are   *)
(* constants, since only the membership tests of UnicodeData.hpp matter.   *)
(***************************************************************************)
EXTENDS Utf8, FiniteSets

CONSTANTS
  Sources,      \* the source texts, sequences of bytes
  IdStart,      \* code points above 7F in id_start_ranges
  IdContinue,   \* code points above 7F in id_continue_ranges
  Whitespace,   \* code points above 7F in whitespace_ranges
  Keywords,     \* the words of classify_word's kTable
  MaxCalls      \* bound: calls a client makes besides one tokenize()

(* The generated tables keep these: L+Nl is within L+M+N+Pc, and a word    *)
(* never holds the replacement character of a malformed sequence.          *)
ASSUME SourcesAssumption == Sources \subseteq Seq(Byte)
ASSUME ClassesAssumption ==
  /\ IdStart \subseteq IdContinue
  /\ IdContinue \subseteq CodePoint
  /\ REPLACEMENT_CHAR \notin IdContinue
ASSUME MaxCallsAssumption == MaxCalls \in Nat

VARIABLES
  m_source, m_pos, m_line, m_column,   \* the fields of Lexer
  pc,             \* where the lexer is; "idle" between calls
  tokenizing,     \* the running call is tokenize(), not next_token()
  calls,          \* calls the client made besides that one
  tokens,         \* every token returned so far
  start,          \* the location next_token took before it dispatched
  seen_unicode, has_malformed,         \* locals of the word and literal scanners
  saved,          \* saved_pos and saved_col of try_scan_exponent
  base            \* the tag byte of a hash literal

cursor == <<m_pos, m_line, m_column>>
call   == <<m_source, tokenizing, calls>>
locals == <<start, seen_unicode, has_malformed, saved, base>>
vars   == <<cursor, call, locals, pc, tokens>>
-----------------------------------------------------------------------------
(* Bytes and their classes. *)
LF == 10
CR == 13
QUOTE == 34
HASH == 35
APOSTROPHE == 39
STAR == 42
SIGN == {43, 45}
DOT == 46
SLASH == 47
BACKSLASH == 92
UNDERSCORE == 95

Digit      == 48 .. 57
Alpha      == (65 .. 90) \cup (97 .. 122)
WordByte   == Alpha \cup Digit \cup {UNDERSCORE}
HexDigit   == Digit \cup (65 .. 70) \cup (97 .. 102)
HorizontalSpace == {32, 9, 13, 11, 12}
LetterE    == {69, 101}
LetterDF   == {68, 70, 100, 102}
LetterU    == {85, 117}
LetterUI   == LetterU \cup {73, 105}
Widths     == {<<51, 50>>, <<49, 54>>, <<56>>}          \* 32, 16, 8
BaseDigits(tag) ==
  CASE tag = 98 -> {48, 49} [] tag = 111 -> 48 .. 55 [] OTHER -> HexDigit
LineTerminator == {133, 8232, 8233}                     \* NEL, LS, PS

TwoByteOperators == {
  <<43, 61>>, <<43, 43>>, <<45, 61>>, <<45, 45>>, <<61, 61>>, <<33, 61>>,
  <<60, 61>>, <<60, 60>>, <<62, 61>>, <<62, 62>>, <<124, 124>>, <<38, 38>>,
  <<37, 61>>, <<94, 61>> }
OneByteOperators == {43, 45, 61, 33, 60, 62, 124, 38, 37, 94, 42, 47, 58, 44,
                     46, 59, 40, 41, 91, 93, 123, 125}

TokenKind == {"Eof", "Error", "Numeric", "Binary", "Octal", "Hexadecimal",
              "StringLiteral", "CharLiteral", "IdentifierAscii",
              "IdentifierUnicode", "Keyword", "Operator"}
-----------------------------------------------------------------------------
(* Navigation. *)
is_at_end == m_pos >= Len(m_source)
Available(n) == m_pos + n < Len(m_source)
peek_byte(n) == IF Available(n) THEN ByteAt(m_source, m_pos + n) ELSE 0
Here == decode_utf8(m_source, m_pos)
current_location == [line |-> m_line, column |-> m_column, offset |-> m_pos]

(* n calls of advance_byte (or n bytes of a sequence): the column follows  *)
(* the bytes, the line stays.                                              *)
Advance(n) ==
  /\ m_pos' = m_pos + n
  /\ m_column' = m_column + n
  /\ UNCHANGED m_line

(* Mutant: a line break that leaves the column counting on. *)
NewLineKeepsColumn(n) ==
  /\ m_pos' = m_pos + n
  /\ m_line' = m_line + 1
  /\ UNCHANGED m_column

NewLine(n) ==
  /\ m_pos' = m_pos + n
  /\ m_line' = m_line + 1
  /\ m_column' = 1

(* Mutant: the lead byte is taken to have been consumed already. *)
AdvanceWithoutLead == Advance(Here.byte_length - 1)

(* Mutant: a column counts characters here, and bytes everywhere else. *)
AdvanceOneColumn ==
  IF Here.codepoint = LF THEN NewLine(Here.byte_length)
  ELSE /\ m_pos' = m_pos + Here.byte_length
       /\ m_column' = m_column + 1
       /\ UNCHANGED m_line

advance_codepoint ==
  IF Here.codepoint = LF THEN NewLine(Here.byte_length)
  ELSE Advance(Here.byte_length)

(* Exactly n bytes of the set S stand at offset o, and then none. *)
Run(S, o, n) ==
  /\ o + n <= Len(m_source)
  /\ \A i \in 0 .. n - 1 : ByteAt(m_source, o + i) \in S
  /\ o + n < Len(m_source) => ByteAt(m_source, o + n) \notin S

Remaining == 0 .. Len(m_source) - m_pos

(* make_token and error_token, and the return to tokenize or the client;   *)
(* the step that emits has already moved the cursor.                       *)
Emit(kind, from) ==
  /\ tokens' = Append(tokens, [kind |-> kind, start |-> from,
       end |-> [line |-> m_line', column |-> m_column', offset |-> m_pos']])
  /\ pc' = IF tokenizing /\ kind # "Eof" THEN "skip" ELSE "idle"
  /\ UNCHANGED <<call, locals>>

Goto(label) == pc' = label /\ UNCHANGED <<call, tokens>>
GotoWith(label) == Goto(label) /\ UNCHANGED locals
-----------------------------------------------------------------------------
(* The public calls. *)
HasBom == Len(m_source) >= 3 /\ SubSeq(m_source, 1, 3) = <<239, 187, 191>>

StartTokenize ==
  /\ pc = "idle"
  /\ tokenizing' = TRUE
  /\ IF HasBom THEN Advance(3) ELSE UNCHANGED cursor
  /\ pc' = "skip"
  /\ UNCHANGED <<m_source, locals, tokens>>

(* main.cpp and the tests call tokenize() once, on a new lexer; the class  *)
(* itself lets a client call it again, or after next_token.                *)
tokenize == tokens = <<>> /\ StartTokenize /\ UNCHANGED calls
tokenize_again ==
  /\ tokens # <<>> /\ calls < MaxCalls
  /\ StartTokenize
  /\ calls' = calls + 1

next_token ==
  /\ pc = "idle"
  /\ calls < MaxCalls
  /\ calls' = calls + 1
  /\ tokenizing' = FALSE
  /\ pc' = "skip"
  /\ UNCHANGED <<cursor, m_source, locals, tokens>>
-----------------------------------------------------------------------------
(* skip_whitespace_and_comments: one step per iteration. *)
IsWhitespace(res) ==
  res.status = "Ok" /\ res.codepoint \in Whitespace \cup LineTerminator

InTrivia ==
  \/ peek_byte(0) \in HorizontalSpace \cup {LF}
  \/ peek_byte(0) > 127 /\ IsWhitespace(Here)
  \/ peek_byte(0) = SLASH /\ peek_byte(1) \in {SLASH, STAR}

skip_whitespace ==
  /\ pc = "skip" /\ ~is_at_end
  /\ \/ peek_byte(0) \in HorizontalSpace /\ Advance(1)
     \/ peek_byte(0) = LF /\ NewLine(1)
  /\ GotoWith("skip")

skip_unicode_whitespace ==
  /\ pc = "skip" /\ ~is_at_end
  /\ peek_byte(0) > 127 /\ IsWhitespace(Here)
  /\ IF Here.codepoint \in LineTerminator THEN NewLine(Here.byte_length)
     ELSE Advance(Here.byte_length)
  /\ GotoWith("skip")

open_comment ==
  /\ pc = "skip" /\ ~is_at_end
  /\ peek_byte(0) = SLASH
  /\ Advance(2)
  /\ \/ peek_byte(1) = SLASH /\ GotoWith("line_comment")
     \/ peek_byte(1) = STAR  /\ GotoWith("block_comment")

skip_line_comment ==
  /\ pc = "line_comment"
  /\ IF is_at_end \/ peek_byte(0) = LF
     THEN UNCHANGED cursor /\ GotoWith("skip")
     ELSE Advance(1) /\ GotoWith("line_comment")

(* Mutant: any star ends the comment. *)
AtAnyStar == peek_byte(0) = STAR

AtCommentEnd == peek_byte(0) = STAR /\ peek_byte(1) = SLASH

skip_block_comment ==
  /\ pc = "block_comment"
  /\ \/ is_at_end /\ UNCHANGED cursor /\ GotoWith("skip")
     \/ AtCommentEnd /\ Advance(2) /\ GotoWith("skip")
     \/ /\ ~is_at_end /\ ~AtCommentEnd
        /\ advance_codepoint
        /\ GotoWith("block_comment")
-----------------------------------------------------------------------------
(* next_token after the whitespace: the token starts here, and its first   *)
(* byte chooses the scanner.                                               *)
AtNumber == peek_byte(0) \in Digit \/ (peek_byte(0) = DOT /\ peek_byte(1) \in Digit)

Scanner ==
  LET first == peek_byte(0) IN
  CASE AtNumber -> "number"
    [] first = HASH -> "hash"
    [] first = QUOTE -> "string"
    [] first = APOSTROPHE -> "char"
    [] first \in Alpha \cup {UNDERSCORE} -> "word"
    [] first > 127 /\ Here.status = "Ok" /\ Here.codepoint \in IdStart -> "word"
    [] OTHER -> "operator"

dispatch ==
  /\ pc = "skip" /\ ~is_at_end /\ ~InTrivia
  /\ start' = current_location
  /\ seen_unicode' = (peek_byte(0) > 127)
  /\ has_malformed' = FALSE
  /\ Goto(Scanner)
  /\ UNCHANGED <<cursor, saved, base>>

end_of_input ==
  /\ pc = "skip" /\ is_at_end
  /\ UNCHANGED cursor
  /\ Emit("Eof", current_location)
-----------------------------------------------------------------------------
(* scan_identifier_or_keyword, with classify_word's table lookup. *)
WordContinues ==
  /\ ~is_at_end
  /\ IF peek_byte(0) < 128 THEN peek_byte(0) \in WordByte
     ELSE Here.codepoint \in IdContinue

WordKind ==
  IF SubSeq(m_source, start.offset + 1, m_pos) \in Keywords THEN "Keyword"
  ELSE IF seen_unicode THEN "IdentifierUnicode" ELSE "IdentifierAscii"

scan_word ==
  /\ pc = "word" /\ WordContinues
  /\ IF peek_byte(0) < 128 THEN Advance(1) ELSE advance_codepoint
  /\ seen_unicode' = (seen_unicode \/ peek_byte(0) > 127)
  /\ Goto("word")
  /\ UNCHANGED <<start, has_malformed, saved, base>>

finish_word ==
  /\ pc = "word" /\ ~WordContinues
  /\ UNCHANGED cursor
  /\ Emit(WordKind, start)
-----------------------------------------------------------------------------
(* scan_numeric_literal: digits with an optional dot and fraction, or a    *)
(* dot and its digits; then an exponent; then a type suffix.               *)
scan_integer_part ==
  /\ pc = "number"
  /\ \E i, f \in Remaining :
       /\ Run(Digit, m_pos, i)
       /\ IF peek_byte(i) = DOT
          THEN Run(Digit, m_pos + i + 1, f) /\ Advance(i + 1 + f)
          ELSE f = 0 /\ Advance(i)
  /\ GotoWith("exponent")

(* try_scan_exponent: the position is saved, the letter and the sign are   *)
(* consumed, and given back when no digit follows.                         *)
try_scan_exponent ==
  /\ pc = "exponent"
  /\ saved' = [pos |-> m_pos, column |-> m_column]
  /\ IF peek_byte(0) \in LetterE
     THEN Advance(IF peek_byte(1) \in SIGN THEN 2 ELSE 1) /\ Goto("exponent_digits")
     ELSE UNCHANGED cursor /\ Goto("type_suffix")
  /\ UNCHANGED <<start, seen_unicode, has_malformed, base>>

(* Mutant: the rollback forgets the column. *)
RollbackPositionOnly ==
  /\ m_pos' = saved.pos
  /\ UNCHANGED <<m_column, m_line>>

Rollback ==
  /\ m_pos' = saved.pos
  /\ m_column' = saved.column
  /\ UNCHANGED m_line

scan_exponent_digits ==
  /\ pc = "exponent_digits"
  /\ IF peek_byte(0) \in Digit
     THEN \E n \in Remaining : Run(Digit, m_pos, n) /\ Advance(n)
     ELSE Rollback
  /\ GotoWith("type_suffix")

(* Mutant: a longer width that only starts like a known one is cut. *)
WidthWithoutLookahead(w) == \A i \in 1 .. Len(w) : peek_byte(i) = w[i]

(* try_scan_width: the width's digits, not followed by another digit. *)
WidthAt(w) ==
  /\ \A i \in 1 .. Len(w) : peek_byte(i) = w[i]
  /\ peek_byte(Len(w) + 1) \notin Digit

try_scan_type_suffix ==
  /\ pc = "type_suffix"
  /\ \/ peek_byte(0) \in LetterDF /\ Advance(1)
     \/ /\ peek_byte(0) \in LetterUI
        /\ \E w \in Widths : WidthAt(w) /\ Advance(1 + Len(w))
     \/ /\ peek_byte(0) \notin LetterDF
        /\ ~(peek_byte(0) \in LetterUI /\ \E w \in Widths : WidthAt(w))
        /\ UNCHANGED cursor
  /\ Emit("Numeric", start)
-----------------------------------------------------------------------------
(* scan_hash_numeric: '#', a tag byte of any value, then scan_based_literal*)
(* for the tags b, o and x.                                                *)
scan_hash_tag ==
  /\ pc = "hash"
  /\ IF ~Available(1) THEN Advance(1) /\ Emit("Error", start)
     ELSE /\ Advance(2)
          /\ IF peek_byte(1) \in {98, 111, 120}
             THEN /\ base' = peek_byte(1)
                  /\ Goto("based")
                  /\ UNCHANGED <<start, seen_unicode, has_malformed, saved>>
             ELSE Emit("Error", start)

BasedKind ==
  CASE base = 98 -> "Binary" [] base = 111 -> "Octal" [] OTHER -> "Hexadecimal"

scan_based_literal ==
  /\ pc = "based"
  /\ IF is_at_end \/ peek_byte(0) \notin BaseDigits(base)
     THEN UNCHANGED cursor /\ Emit("Error", start)
     ELSE /\ \E n \in Remaining :
               /\ Run(BaseDigits(base) \cup {UNDERSCORE}, m_pos, n)
               /\ IF peek_byte(n) \in LetterU /\ peek_byte(n + 1) \notin Alpha \cup Digit
                  THEN Advance(n + 1) ELSE Advance(n)
          /\ Emit(BasedKind, start)
-----------------------------------------------------------------------------
(* scan_string_literal and scan_char_literal. *)
(* Mutant: only impossible lead bytes are noticed. *)
InvalidLead == Here.status = "InvalidLeadByte"

IsMalformed == Here.status # "Ok"

advance_with_utf8_check ==
  /\ Advance(Here.byte_length)
  /\ has_malformed' = (has_malformed \/ IsMalformed)
  /\ UNCHANGED <<start, seen_unicode, saved, base>>

(* One byte of ASCII, or one UTF-8 sequence. *)
LiteralElement ==
  IF peek_byte(0) > 127 THEN advance_with_utf8_check
  ELSE Advance(1) /\ UNCHANGED locals

LiteralKind(kind) == IF has_malformed THEN "Error" ELSE kind

open_literal ==
  /\ \/ pc = "string" /\ GotoWith("string_body")
     \/ pc = "char"   /\ GotoWith("char_body")
  /\ Advance(1)

(* Mutant: a carriage return does not end the literal. *)
StringStopsAtQuoteOrLf == is_at_end \/ peek_byte(0) \in {QUOTE, LF}

StringStops == is_at_end \/ peek_byte(0) \in {QUOTE, LF, CR}

scan_string_body ==
  /\ pc = "string_body" /\ ~StringStops
  /\ IF peek_byte(0) = BACKSLASH
     THEN Advance(1) /\ GotoWith("string_escape")
     ELSE LiteralElement /\ Goto("string_body")

finish_string ==
  /\ pc = "string_body" /\ StringStops
  /\ IF peek_byte(0) = QUOTE THEN Advance(1) ELSE UNCHANGED cursor
  /\ Emit(LiteralKind("StringLiteral"), start)

EscapeLimit(c) == CASE c = 117 -> 4 [] c = 85 -> 8 [] OTHER -> 0

(* skip_escape: one byte, whatever it is, and after u or U the hex digits  *)
(* up to their limit.                                                      *)
skip_escape ==
  /\ pc \in {"string_escape", "char_escape"}
  /\ \/ is_at_end /\ UNCHANGED cursor
     \/ /\ ~is_at_end
        /\ \E n \in 0 .. EscapeLimit(peek_byte(0)) :
             /\ \A i \in 1 .. n : Available(i) /\ peek_byte(i) \in HexDigit
             /\ n < EscapeLimit(peek_byte(0)) => peek_byte(n + 1) \notin HexDigit
             /\ Advance(1 + n)
  /\ GotoWith(IF pc = "string_escape" THEN "string_body" ELSE "char_close")

scan_char_body ==
  /\ pc = "char_body"
  /\ \/ is_at_end /\ UNCHANGED cursor /\ GotoWith("char_close")
     \/ peek_byte(0) = BACKSLASH /\ Advance(1) /\ GotoWith("char_escape")
     \/ /\ ~is_at_end /\ peek_byte(0) # BACKSLASH
        /\ LiteralElement
        /\ Goto("char_close")

finish_char ==
  /\ pc = "char_close"
  /\ IF peek_byte(0) = APOSTROPHE THEN Advance(1) ELSE UNCHANGED cursor
  /\ Emit(LiteralKind("CharLiteral"), start)
-----------------------------------------------------------------------------
(* scan_operator_or_punctuation: the longest operator, one unknown ASCII   *)
(* byte, or one whole UTF-8 sequence as decode_utf8 measures it, clipped   *)
(* at the end of the source.                                               *)
Clipped(n) == IF m_pos + n > Len(m_source) THEN Len(m_source) - m_pos ELSE n

(* Mutant: the bytes after the first, taken for the whole length. *)
FollowersOnly ==
  IF peek_byte(0) > 127 THEN Clipped(Here.byte_length - 1) ELSE 1

UnknownLength == IF peek_byte(0) > 127 THEN Clipped(Here.byte_length) ELSE 1

scan_operator ==
  /\ pc = "operator"
  /\ IF <<peek_byte(0), peek_byte(1)>> \in TwoByteOperators
     THEN Advance(2) /\ Emit("Operator", start)
     ELSE IF peek_byte(0) \in OneByteOperators
     THEN Advance(1) /\ Emit("Operator", start)
     ELSE Advance(UnknownLength) /\ Emit("Error", start)
-----------------------------------------------------------------------------
Init ==
  /\ m_source \in Sources
  /\ m_pos = 0 /\ m_line = 1 /\ m_column = 1
  /\ pc = "idle" /\ tokenizing = FALSE /\ calls = 0
  /\ tokens = <<>>
  /\ start = [line |-> 1, column |-> 1, offset |-> 0]
  /\ seen_unicode = FALSE /\ has_malformed = FALSE
  /\ saved = [pos |-> 0, column |-> 1]
  /\ base = 0

Scan ==
  \/ skip_whitespace \/ skip_unicode_whitespace
  \/ open_comment \/ skip_line_comment \/ skip_block_comment
  \/ dispatch \/ end_of_input
  \/ scan_word \/ finish_word
  \/ scan_integer_part \/ try_scan_exponent \/ scan_exponent_digits
  \/ try_scan_type_suffix
  \/ scan_hash_tag \/ scan_based_literal
  \/ open_literal \/ scan_string_body \/ finish_string \/ skip_escape
  \/ scan_char_body \/ finish_char
  \/ scan_operator

Next == tokenize \/ next_token \/ Scan

(* A call that has begun runs on (Scan); whether a client calls at all is  *)
(* not promised.                                                           *)
Spec == Init /\ [][Next]_vars /\ WF_vars(Scan)

(* A client that calls tokenize() more than once, or after next_token. *)
ReuseSpec == Init /\ [][Next \/ tokenize_again]_vars /\ WF_vars(Scan)
=============================================================================
