--------------------------- MODULE CastProperties ---------------------------
(***************************************************************************)
(* What the reader's buffers become in the casts: Utf8 takes input[offset] *)
(* for a number from 0 to 255, which in the code is C_UI8T, or C_UC, of a  *)
(* char that may be signed.                                                *)
(***************************************************************************)
EXTENDS Casts, UnicodeProperties

ConvertsToUnsigned == {"UC", "UI8T", "C8"}
Types == {C_[macro] : macro \in DOMAIN C_}

(* A value of a type, its bytes those of a short buffer, over and over. *)
Value(p, type) ==
  [type |-> type,
   bytes |-> [i \in 1 .. sizeof(p, type) |-> input[((i - 1) % Len(input)) + 1]]]

(* On every platform: each byte of a text, read as a char, comes out of    *)
(* the casts the decoder and the lexer apply as the byte, and as an int it *)
(* is what std::isdigit may be given (Utf8.hpp:112, Lexer.cpp:47, :192);   *)
(* and the three families of macros agree: C_ and NC_ convert every value  *)
(* alike, and BC_ keeps the value of whatever it may be applied to         *)
(* (BaseCast.hpp, NarrowCast.hpp, BitCast.hpp).                            *)
BytesSurviveTheCasts ==
  latest = <<>> /\ Len(input) \in 1 .. 2 =>
    \A p \in Platforms :
      /\ \A i \in DOMAIN input : \A macro \in ConvertsToUnsigned :
           LET char == [type |-> "char", bytes |-> <<input[i]>>]
           IN  static_cast(p, C_["I"], static_cast(p, C_[macro], char)).bytes
                 = <<input[i], 0, 0, 0>>
      /\ \A type \in Types :
           LET v == Value(p, type) IN
           /\ \A macro \in DOMAIN C_ :
                narrow_cast(p, NC_[macro], v) = static_cast(p, C_[macro], v)
           /\ \A macro \in DOMAIN BC_ : sizeof(p, BC_[macro]) = sizeof(p, type) =>
                bit_cast(BC_[macro], v) = static_cast(p, C_[macro], v)
=============================================================================
