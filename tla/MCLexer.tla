------------------------------- MODULE MCLexer -------------------------------
(***************************************************************************)
(* Values for Lexer's constants.  A source is a concatenation of at most   *)
(* MaxPieces pieces of one alphabet; a piece is a byte, a UTF-8 sequence   *)
(* or a few bytes that some branch of the lexer looks for.                 *)
(***************************************************************************)
EXTENDS LexerProperties, SequencesExt

CONSTANT
  Alphabets,    \* the sets of pieces that sources are made of
  MaxPieces     \* longest source, in pieces

Texts(pieces) ==
  {FlattenSeq(s) : s \in UNION {[1 .. n -> pieces] : n \in 0 .. MaxPieces}}
MCSources == UNION {Texts(pieces) : pieces \in Alphabets}

(* The classes of the characters above 7F that sources are made of: NEL,   *)
(* e with an accent, the byte order mark and the replacement character.    *)
Tables == INSTANCE UnicodeTables
MCCharacters == {133, 233, 65279, 65533}
MCIdStart == {c \in MCCharacters : Tables!is_id_start(c)}
MCIdContinue == {c \in MCCharacters : Tables!is_id_continue(c)}
MCWhitespace == {c \in MCCharacters : Tables!is_unicode_whitespace(c)}
MCKeywords == {<<105, 102>>}                 \* "if"

TextPieces == {
  <<LF>>, <<CR>>, <<SLASH>>, <<STAR>>, <<QUOTE>>, <<APOSTROPHE>>, <<BACKSLASH>>,
  <<117>>,           \* u, a letter and the tag of an escape
  <<97>>,            \* a, a letter and a hex digit
  <<195, 169>>,      \* e with an accent
  <<194, 133>>,      \* NEL
  <<233>>,           \* a lead byte without its continuation
  <<239, 187, 191>>} \* the byte order mark

NumberPieces == {
  <<49>>, <<56>>,            \* 1 8
  <<DOT>>, <<DOT, 49>>,      \* . .1
  <<101>>, <<101, 45>>,      \* e e-
  <<102>>, <<117>>,          \* f u
  <<73, 49, 54>>}            \* I16

BasedPieces == {
  <<HASH>>, <<98>>, <<120>>, \* # b x
  <<49>>, <<DOT>>,           \* 1 .
  <<101>>, <<117>>,          \* e u
  <<UNDERSCORE>>}

MCTexts == {TextPieces}
MCTextsAndNumbers == {TextPieces, NumberPieces, BasedPieces}
=============================================================================
