-------------------------------- MODULE Utf8 --------------------------------
(***************************************************************************)
(* The UTF-8 decoder of include/jsav/lexer/unicode/Utf8.hpp.               *)
(*                                                                         *)
(* A source text is a sequence of bytes, an offset counts from 0 as        *)
(* std::string_view does.  Decode returns what Utf8DecodeResult holds: the *)
(* code point (U+FFFD for a malformed sequence), how many bytes the caller *)
(* must step over, and a status.  The module has no variables: Utf8Stream  *)
(* and Lexer drive it.                                                     *)
(***************************************************************************)
EXTENDS Integers, Sequences

Byte == 0 .. 255
CodePoint == {c \in Nat : c <= 1114111}
REPLACEMENT_CHAR == 65533

Status == {"Ok", "InvalidLeadByte", "OrphanedContinuation", "Overlong",
           "Surrogate", "OutOfRange", "TruncatedSequence"}

(* Utf8DecodeResult *)
DecodeResult == [codepoint : CodePoint, byte_length : 1 .. 4, status : Status]

(* input[offset] *)
ByteAt(s, o) == s[o + 1]

(* is_continuation, together with the bounds test its callers make first. *)
ContinuationAt(s, o) == o < Len(s) /\ ByteAt(s, o) \in 128 .. 191

(* How many continuation bytes follow offset o directly, n (at most 3) of  *)
(* them at most: the nested tests of decode_3byte, decode_4byte_truncated  *)
(* and decode_4byte come to this number.                                   *)
Followers(s, o, n) ==
  IF n = 0 \/ ~ContinuationAt(s, o + 1) THEN 0
  ELSE IF n = 1 \/ ~ContinuationAt(s, o + 2) THEN 1
  ELSE IF n = 2 \/ ~ContinuationAt(s, o + 3) THEN 2
  ELSE 3

Decoded(cp, n) == [codepoint |-> cp, byte_length |-> n, status |-> "Ok"]

(* Mutant: the bytes after the lead, taken for the whole length. *)
MalformedFollowersOnly(n, why) ==
  [codepoint |-> REPLACEMENT_CHAR, byte_length |-> n - 1, status |-> why]

Malformed(n, why) ==
  [codepoint |-> REPLACEMENT_CHAR, byte_length |-> n, status |-> why]

(* The code point of a lead byte and the payload bits of its followers. *)
Join2(b0, b1)         == (b0 % 32) * 64 + (b1 % 64)
Join3(b0, b1, b2)     == (b0 % 16) * 4096 + (b1 % 64) * 64 + (b2 % 64)
Join4(b0, b1, b2, b3) ==
  (b0 % 8) * 262144 + (b1 % 64) * 4096 + (b2 % 64) * 64 + (b3 % 64)

(* Mutant: a truncated sequence is stepped over at its announced length. *)
Decode2Announced(s, o) ==
  IF Followers(s, o, 1) = 0 THEN Malformed(2, "TruncatedSequence")
  ELSE Decoded(Join2(ByteAt(s, o), ByteAt(s, o + 1)), 2)

decode_2byte(s, o) ==
  IF Followers(s, o, 1) = 0 THEN Malformed(1, "TruncatedSequence")
  ELSE Decoded(Join2(ByteAt(s, o), ByteAt(s, o + 1)), 2)

decode_3byte(s, o) ==
  LET b0 == ByteAt(s, o)
      b1 == ByteAt(s, o + 1)
      k  == Followers(s, o, 2)
  IN IF k = 0 THEN Malformed(1, "TruncatedSequence")
     ELSE IF b0 = 224 /\ b1 < 160 THEN Malformed(1 + k, "Overlong")
     ELSE IF b0 = 237 /\ b1 >= 160 THEN Malformed(1 + k, "Surrogate")
     ELSE IF k = 1 THEN Malformed(2, "TruncatedSequence")
     ELSE Decoded(Join3(b0, b1, ByteAt(s, o + 2)), 3)

(* Mutant: the caller's clip to U+10FFFF (lead F4, second byte 90 or more) *)
(* is forgotten.                                                           *)
Decode4NoUpperBound(s, o) ==
  LET b0 == ByteAt(s, o)
      b1 == ByteAt(s, o + 1)
      k  == Followers(s, o, 3)
  IN IF k = 0 THEN Malformed(1, "TruncatedSequence")
     ELSE IF b0 = 240 /\ b1 < 144 THEN Malformed(1 + k, "Overlong")
     ELSE IF k < 3 THEN Malformed(1 + k, "TruncatedSequence")
     ELSE Decoded(Join4(b0, b1, ByteAt(s, o + 2), ByteAt(s, o + 3)), 4)

(* decode_4byte, and decode_4byte_truncated for a sequence the end of the  *)
(* input cuts short.                                                       *)
decode_4byte(s, o) ==
  LET b0 == ByteAt(s, o)
      b1 == ByteAt(s, o + 1)
      k  == Followers(s, o, 3)
  IN IF k = 0 THEN Malformed(1, "TruncatedSequence")
     ELSE IF b0 = 240 /\ b1 < 144 THEN Malformed(1 + k, "Overlong")
     ELSE IF b0 = 244 /\ b1 >= 144 THEN Malformed(1 + k, "OutOfRange")
     ELSE IF k < 3 THEN Malformed(1 + k, "TruncatedSequence")
     ELSE Decoded(Join4(b0, b1, ByteAt(s, o + 2), ByteAt(s, o + 3)), 4)

(* decode_utf8 for a lead byte b0 at offset o: the dispatch on its class. *)
DecodeLead(s, o, b0) ==
  CASE b0 <= 127         -> Decoded(b0, 1)
    [] b0 \in 128 .. 191 -> Malformed(1, "OrphanedContinuation")
    [] b0 \in 192 .. 193 -> Malformed(1 + Followers(s, o, 1), "Overlong")
    [] b0 \in 194 .. 223 -> decode_2byte(s, o)
    [] b0 \in 224 .. 239 -> decode_3byte(s, o)
    [] b0 \in 240 .. 244 -> decode_4byte(s, o)
    [] OTHER             -> Malformed(1, "InvalidLeadByte")

decode_utf8(s, o) ==
  IF o >= Len(s) THEN Malformed(1, "OutOfRange")
  ELSE DecodeLead(s, o, ByteAt(s, o))

is_valid_utf8_at(s, o) == o < Len(s) /\ decode_utf8(s, o).status = "Ok"
=============================================================================
