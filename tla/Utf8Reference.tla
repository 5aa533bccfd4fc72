---------------------------- MODULE Utf8Reference ----------------------------
(***************************************************************************)
(* What the decoder is compared with: the encoding form of scalar values   *)
(* and Table 3-7 of the Unicode standard.  Nothing here looks at           *)
(* decode_utf8.                                                            *)
(***************************************************************************)
EXTENDS Utf8

IsScalarValue(c) == c \in CodePoint /\ (c < 55296 \/ c > 57343)
Tail6(n) == 128 + (n % 64)

(* The UTF-8 encoding form of a scalar value. *)
Encode(c) ==
  IF c < 128 THEN <<c>>
  ELSE IF c < 2048 THEN <<192 + (c \div 64), Tail6(c)>>
  ELSE IF c < 65536 THEN <<224 + (c \div 4096), Tail6(c \div 64), Tail6(c)>>
  ELSE <<240 + (c \div 262144), Tail6(c \div 4096), Tail6(c \div 64), Tail6(c)>>

(* Table 3-7: the byte ranges of the well-formed sequences. *)
WellFormedRows == {
  <<0 .. 127>>,
  <<194 .. 223, 128 .. 191>>,
  <<{224}, 160 .. 191, 128 .. 191>>,
  <<225 .. 236, 128 .. 191, 128 .. 191>>,
  <<{237}, 128 .. 159, 128 .. 191>>,
  <<238 .. 239, 128 .. 191, 128 .. 191>>,
  <<{240}, 144 .. 191, 128 .. 191, 128 .. 191>>,
  <<241 .. 243, 128 .. 191, 128 .. 191, 128 .. 191>>,
  <<{244}, 128 .. 143, 128 .. 191, 128 .. 191>> }

Matches(s, o, row) ==
  /\ o + Len(row) <= Len(s)
  /\ \A i \in 1 .. Len(row) : s[o + i] \in row[i]

WellFormedAt(s, o) == \E row \in WellFormedRows : Matches(s, o, row)

(* What s holds from offset from on is a concatenation of well-formed      *)
(* sequences.                                                              *)
WellFormedFrom(s, from) ==
  LET fine[o \in 0 .. Len(s)] ==
        \/ o = Len(s)
        \/ \E row \in WellFormedRows : Matches(s, o, row) /\ fine[o + Len(row)]
  IN fine[from]

WellFormed(s) == WellFormedFrom(s, 0)
=============================================================================
