---------------------------- MODULE MCUtf8Stream ----------------------------
(***************************************************************************)
(* Buffers for Utf8Stream: every sequence of at most MaxBytes bytes drawn  *)
(* from the bytes at the edges of the decoder's ranges, and every          *)
(* character at the edge of a range of the Unicode tables.                 *)
(***************************************************************************)
EXTENDS CastProperties

CONSTANT MaxBytes    \* longest buffer of edge bytes

EdgeBytes == {65, 128, 143, 144, 159, 160, 191, 193, 194, 224, 237, 240, 244, 245}
EdgeCharacters == {Encode(cp) : cp \in {c \in Edges : IsScalarValue(c)}}
MCBuffers == EdgeCharacters \cup UNION {[1 .. n -> EdgeBytes] : n \in 0 .. MaxBytes}
=============================================================================
