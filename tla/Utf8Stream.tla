----------------------------- MODULE Utf8Stream -----------------------------
(***************************************************************************)
(* A reader that decodes a buffer from its first byte to its last, the way *)
(* Lexer::advance_with_utf8_check steps through a literal: decode at the   *)
(* position, remember whether anything was malformed, step over byte_length*)
(* bytes.  What it finds is compared with Utf8Reference.                   *)
(***************************************************************************)
EXTENDS Utf8Reference

CONSTANT Buffers    \* the byte sequences that may be decoded
ASSUME BuffersAssumption == Buffers \subseteq Seq(Byte)

VARIABLES input, m_pos, has_malformed,
          latest   \* the latest decode result and its offset, if any
vars == <<input, m_pos, has_malformed, latest>>

Init ==
  /\ input \in Buffers
  /\ m_pos = 0
  /\ has_malformed = FALSE
  /\ latest = <<>>

advance_with_utf8_check ==
  /\ m_pos < Len(input)
  /\ LET res == decode_utf8(input, m_pos)
     IN /\ has_malformed' = (has_malformed \/ res.status # "Ok")
        /\ m_pos' = m_pos + res.byte_length
        /\ latest' = <<[at |-> m_pos, res |-> res]>>
  /\ UNCHANGED input

Next == advance_with_utf8_check
Spec == Init /\ [][Next]_vars /\ WF_vars(Next)
-----------------------------------------------------------------------------
Latest == latest[1]
Slice(from, to) == SubSeq(input, from + 1, to)
-----------------------------------------------------------------------------
(* Types, and the bound every caller relies on: stepping over byte_length  *)
(* bytes never leaves the buffer (decode_utf8 has no other protection).    *)
TypeOK ==
  /\ input \in Seq(Byte)
  /\ m_pos \in 0 .. Len(input)
  /\ has_malformed \in BOOLEAN
  /\ latest \in Seq([at : Nat, res : DecodeResult]) /\ Len(latest) <= 1

(* Soundness and completeness of one decode: the status is Ok exactly at a *)
(* sequence of Table 3-7, and then the code point is the scalar value whose*)
(* encoding is the bytes stepped over (no overlong form, no surrogate).    *)
DecodesExactlyTheWellFormed ==
  latest # <<>> =>
    LET r == Latest.res IN
    /\ (r.status = "Ok") = WellFormedAt(input, Latest.at)
    /\ r.status = "Ok" =>
         /\ IsScalarValue(r.codepoint)
         /\ Slice(Latest.at, m_pos) = Encode(r.codepoint)

(* Resynchronisation: a malformed sequence swallows nothing but the        *)
(* continuation bytes after its lead, so an ASCII byte or the lead of the  *)
(* next character always starts a step of its own (a quote or a '*' '/'    *)
(* behind a broken sequence is still seen by the lexer).                   *)
SwallowsOnlyContinuations ==
  latest # <<>> =>
    \A o \in Latest.at + 1 .. m_pos - 1 : ContinuationAt(input, o)

(* has_malformed at the end of the buffer is the validity of the whole     *)
(* buffer: errors are neither lost nor invented by where the steps fall.   *)
FlagIsValidity ==
  m_pos = Len(input) => has_malformed = ~WellFormed(input)

(* byte_length is never 0: every buffer is decoded to its end.             *)
ReachesTheEnd == <>(m_pos = Len(input))
=============================================================================
