---------------------------- MODULE Utf8Theorems ----------------------------
(***************************************************************************)
(* What every caller of decode_utf8 relies on, for buffers of any length.  *)
(***************************************************************************)
EXTENDS Utf8Reference, SequenceTheorems, WellFoundedInduction, TLAPS

(* o is the offset of a byte of the buffer s. *)
Within(s, o) == s \in Seq(Byte) /\ o \in Nat /\ o < Len(s)

(* The continuation bytes Followers counts are there, within the buffer,   *)
(* and as many as it says.                                                 *)
LEMMA FollowersBound ==
  ASSUME NEW s, NEW o, Within(s, o), NEW n \in 0 .. 3
  PROVE  /\ Followers(s, o, n) \in 0 .. n
         /\ o + Followers(s, o, n) < Len(s)
         /\ \A i \in 1 .. Followers(s, o, n) : ContinuationAt(s, o + i)
<1> DEFINE k == Followers(s, o, n)
<1>1. Len(s) \in Nat /\ o \in Nat /\ n \in Nat
  BY DEF Within
<1>2. \A i \in Nat : ContinuationAt(s, i) => i < Len(s)
  BY DEF ContinuationAt
<1>3. CASE k = 0
  BY <1>1, <1>3 DEF Within
<1>4. CASE k = 1
  <2>1. n >= 1 /\ ContinuationAt(s, o + 1)
    BY <1>1, <1>4 DEF Followers
  <2>2. o + 1 < Len(s)
    BY <1>1, <1>2, <2>1
  <2> QED BY <1>1, <1>4, <2>1, <2>2
<1>5. CASE k = 2
  <2>1. n >= 2 /\ ContinuationAt(s, o + 1) /\ ContinuationAt(s, o + 2)
    BY <1>1, <1>5 DEF Followers
  <2>2. o + 2 < Len(s)
    BY <1>1, <1>2, <2>1
  <2>3. \A i \in 1 .. 2 : i = 1 \/ i = 2
    OBVIOUS
  <2> HIDE DEF k
  <2>4. \A i \in 1 .. k : ContinuationAt(s, o + i)
    BY <1>5, <2>1, <2>3
  <2> QED BY <1>1, <1>5, <2>1, <2>2, <2>4 DEF k
<1>6. CASE k = 3
  <2>1. n >= 3 /\ ContinuationAt(s, o + 1) /\ ContinuationAt(s, o + 2)
        /\ ContinuationAt(s, o + 3)
    BY <1>1, <1>6 DEF Followers
  <2>2. o + 3 < Len(s)
    BY <1>1, <1>2, <2>1
  <2>3. \A i \in 1 .. 3 : i = 1 \/ i = 2 \/ i = 3
    OBVIOUS
  <2> HIDE DEF k
  <2>4. \A i \in 1 .. k : ContinuationAt(s, o + i)
    BY <1>6, <2>1, <2>3
  <2> QED BY <1>1, <1>6, <2>1, <2>2, <2>4 DEF k
<1>7. k = 0 \/ k = 1 \/ k = 2 \/ k = 3
  BY DEF Followers
<1> QED BY <1>3, <1>4, <1>5, <1>6, <1>7

LEMMA ByteAtIsByte ==
  ASSUME NEW s, NEW o, Within(s, o)
  PROVE  ByteAt(s, o) \in Byte
BY DEF ByteAt, Within

(* What decode_utf8 returns for an offset within the buffer: a code point, *)
(* a status, and a length that stays within the buffer and steps over      *)
(* nothing but continuation bytes after the first.                         *)
DecodeFits(s, o, res) ==
  /\ res \in DecodeResult
  /\ o + res.byte_length <= Len(s)
  /\ \A i \in 1 .. res.byte_length - 1 : ContinuationAt(s, o + i)

LEMMA MalformedFits ==
  ASSUME NEW s, NEW o, Within(s, o), NEW n \in 0 .. 3,
         NEW why \in Status
  PROVE  DecodeFits(s, o, Malformed(1 + Followers(s, o, n), why))
<1> DEFINE k == Followers(s, o, n)
<1>1. /\ k \in 0 .. n /\ o + k < Len(s)
      /\ \A i \in 1 .. k : ContinuationAt(s, o + i)
  BY FollowersBound
<1>2. k \in 0 .. 3 /\ Len(s) \in Nat /\ o \in Nat
  BY <1>1 DEF Within
<1> HIDE DEF k
<1>3. (1 + k) - 1 = k /\ 1 + k \in 1 .. 4 /\ o + (1 + k) <= Len(s)
  BY <1>1, <1>2
<1>4. \A i \in 1 .. (1 + k) - 1 : ContinuationAt(s, o + i)
  BY <1>1, <1>3
<1>5. REPLACEMENT_CHAR \in CodePoint
  BY DEF CodePoint, REPLACEMENT_CHAR
<1>6. DecodeFits(s, o, Malformed(1 + k, why))
  BY <1>3, <1>4, <1>5 DEF DecodeFits, DecodeResult, Malformed
<1> QED BY <1>6 DEF k

LEMMA DecodedFits ==
  ASSUME NEW s, NEW o, Within(s, o), NEW n \in 0 .. 3,
         NEW cp \in CodePoint, Followers(s, o, n) = n
  PROVE  DecodeFits(s, o, Decoded(cp, n + 1))
<1>1. /\ n \in 0 .. 3 /\ o + n < Len(s)
      /\ o \in Nat /\ Len(s) \in Nat
      /\ \A i \in 1 .. n : ContinuationAt(s, o + i)
  BY FollowersBound DEF Within
<1>2. (n + 1) - 1 = n /\ n + 1 \in 1 .. 4 /\ o + (n + 1) <= Len(s)
  BY <1>1
<1>3. \A i \in 1 .. (n + 1) - 1 : ContinuationAt(s, o + i)
  BY <1>1, <1>2
<1>4. "Ok" \in Status
  BY DEF Status
<1> QED BY <1>2, <1>3, <1>4 DEF DecodeFits, DecodeResult, Decoded

(* The payload bits of a lead and its continuations make a code point. *)
LEMMA Join2Range ==
  ASSUME NEW b0 \in Byte, NEW b1 \in Byte
  PROVE  Join2(b0, b1) \in CodePoint
BY DEF Join2, Byte, CodePoint

LEMMA Join3Range ==
  ASSUME NEW b0 \in Byte, NEW b1 \in Byte, NEW b2 \in Byte
  PROVE  Join3(b0, b1, b2) \in CodePoint
BY DEF Join3, Byte, CodePoint

LEMMA Join4Range ==
  ASSUME NEW b0 \in 240 .. 244, NEW b1 \in 128 .. 191, NEW b2 \in Byte,
         NEW b3 \in Byte, ~(b0 = 244 /\ b1 >= 144)
  PROVE  Join4(b0, b1, b2, b3) \in CodePoint
BY DEF Join4, Byte, CodePoint

LEMMA AsciiRange ==
  ASSUME NEW b0 \in Byte, b0 <= 127
  PROVE  b0 \in CodePoint
BY DEF Byte, CodePoint

(* The dispatch on the lead byte, class by class; the classes are all the  *)
(* bytes there are.                                                        *)
LEMMA LeadClasses ==
  ASSUME NEW s, NEW o, NEW b0 \in Byte
  PROVE  \/ DecodeLead(s, o, b0) = Decoded(b0, 1) /\ b0 <= 127
         \/ DecodeLead(s, o, b0) = Malformed(1, "OrphanedContinuation")
         \/ DecodeLead(s, o, b0) = Malformed(1 + Followers(s, o, 1), "Overlong")
         \/ DecodeLead(s, o, b0) = decode_2byte(s, o)
         \/ DecodeLead(s, o, b0) = decode_3byte(s, o)
         \/ DecodeLead(s, o, b0) = decode_4byte(s, o) /\ b0 \in 240 .. 244
         \/ DecodeLead(s, o, b0) = Malformed(1, "InvalidLeadByte")
BY DEF DecodeLead, Byte

(* Every malformed sequence fits, whatever the reason given for it. *)
LEMMA EveryMalformedFits ==
  ASSUME NEW s, NEW o, Within(s, o)
  PROVE  /\ \A k \in 0 .. 3, why \in Status :
              DecodeFits(s, o, Malformed(1 + Followers(s, o, k), why))
         /\ \A why \in Status : DecodeFits(s, o, Malformed(1, why))
<1>1. Followers(s, o, 0) = 0 /\ 1 + 0 = 1
  BY DEF Followers
<1> QED BY <1>1, MalformedFits

LEMMA Decode2Fits ==
  ASSUME NEW s, NEW o, Within(s, o)
  PROVE  DecodeFits(s, o, decode_2byte(s, o))
<1>1. Followers(s, o, 1) = 0 \/ Followers(s, o, 1) = 1
  BY FollowersBound
<1>2. CASE Followers(s, o, 1) = 0
  BY <1>2, EveryMalformedFits DEF decode_2byte, Status
<1>3. CASE Followers(s, o, 1) = 1
  <2> DEFINE cp == Join2(ByteAt(s, o), ByteAt(s, o + 1))
  <2>1. Within(s, o + 1)
    BY <1>3, FollowersBound DEF Within
  <2>2. cp \in CodePoint
    BY <2>1, ByteAtIsByte, Join2Range
  <2>3. decode_2byte(s, o) = Decoded(cp, 1 + 1)
    BY <1>3 DEF decode_2byte
  <2> HIDE DEF cp
  <2> QED BY <1>3, <2>2, <2>3, DecodedFits
<1> QED BY <1>1, <1>2, <1>3

LEMMA Decode3Fits ==
  ASSUME NEW s, NEW o, Within(s, o)
  PROVE  DecodeFits(s, o, decode_3byte(s, o))
<1> DEFINE k == Followers(s, o, 2)
           cp == Join3(ByteAt(s, o), ByteAt(s, o + 1), ByteAt(s, o + 2))
<1>1. k = 0 \/ k = 1 \/ k = 2
  BY FollowersBound
<1>2. \/ \E why \in Status : decode_3byte(s, o) = Malformed(1 + k, why)
      \/ k = 2 /\ decode_3byte(s, o) = Decoded(cp, 2 + 1)
  BY <1>1 DEF decode_3byte, Status
<1>3. CASE \E why \in Status : decode_3byte(s, o) = Malformed(1 + k, why)
  BY <1>3, EveryMalformedFits
<1>4. CASE k = 2 /\ decode_3byte(s, o) = Decoded(cp, 2 + 1)
  <2>1. Within(s, o + 1) /\ Within(s, o + 2)
    BY <1>4, FollowersBound DEF Within
  <2>2. cp \in CodePoint
    BY <2>1, ByteAtIsByte, Join3Range
  <2> HIDE DEF cp
  <2> QED BY <1>4, <2>2, DecodedFits
<1> QED BY <1>2, <1>3, <1>4

LEMMA Decode4Fits ==
  ASSUME NEW s, NEW o, Within(s, o), ByteAt(s, o) \in 240 .. 244
  PROVE  DecodeFits(s, o, decode_4byte(s, o))
<1> DEFINE k == Followers(s, o, 3)
           clipped == ByteAt(s, o) = 244 /\ ByteAt(s, o + 1) >= 144
           cp == Join4(ByteAt(s, o), ByteAt(s, o + 1), ByteAt(s, o + 2),
                       ByteAt(s, o + 3))
<1>1. k = 0 \/ k = 1 \/ k = 2 \/ k = 3
  BY FollowersBound
<1>2. \/ \E why \in Status : decode_4byte(s, o) = Malformed(1 + k, why)
      \/ k = 3 /\ ~clipped /\ decode_4byte(s, o) = Decoded(cp, 3 + 1)
  BY <1>1 DEF decode_4byte, Status
<1>3. CASE \E why \in Status : decode_4byte(s, o) = Malformed(1 + k, why)
  BY <1>3, EveryMalformedFits
<1>4. CASE k = 3 /\ ~clipped /\ decode_4byte(s, o) = Decoded(cp, 3 + 1)
  <2>1. Within(s, o + 1) /\ Within(s, o + 2) /\ Within(s, o + 3)
    BY <1>4, FollowersBound DEF Within
  <2>2. ByteAt(s, o + 1) \in 128 .. 191
    <3>1. ContinuationAt(s, o + 1)
      BY <1>4, FollowersBound
    <3> QED BY <3>1 DEF ContinuationAt
  <2>3. cp \in CodePoint
    BY <1>4, <2>1, <2>2, ByteAtIsByte, Join4Range
  <2> HIDE DEF cp, clipped
  <2> QED BY <1>4, <2>3, DecodedFits
<1> QED BY <1>2, <1>3, <1>4

(* decode_utf8 never reports a length beyond the buffer, never 0, and never*)
(* one that covers a byte a new character could start with.                *)
THEOREM DecodeUtf8Fits ==
  ASSUME NEW s, NEW o, Within(s, o)
  PROVE  DecodeFits(s, o, decode_utf8(s, o))
<1> DEFINE b0 == ByteAt(s, o)
<1>1. b0 \in Byte
  BY ByteAtIsByte
<1>2. decode_utf8(s, o) = DecodeLead(s, o, b0)
  <2>1. ~(o >= Len(s))
    BY DEF Within
  <2> QED BY <2>1 DEF decode_utf8
<1>3. ASSUME b0 <= 127
      PROVE  DecodeFits(s, o, Decoded(b0, 1))
  <2>1. b0 \in CodePoint
    BY <1>1, <1>3, AsciiRange
  <2>2. Followers(s, o, 0) = 0 /\ 0 + 1 = 1
    BY DEF Followers
  <2> HIDE DEF b0
  <2> QED BY <2>1, <2>2, DecodedFits
<1>4. "OrphanedContinuation" \in Status /\ "Overlong" \in Status
      /\ "InvalidLeadByte" \in Status
  BY DEF Status
<1>5. /\ DecodeFits(s, o, Malformed(1, "OrphanedContinuation"))
      /\ DecodeFits(s, o, Malformed(1 + Followers(s, o, 1), "Overlong"))
      /\ DecodeFits(s, o, Malformed(1, "InvalidLeadByte"))
  BY <1>4, EveryMalformedFits
<1>6. b0 \in 240 .. 244 => DecodeFits(s, o, decode_4byte(s, o))
  BY Decode4Fits
<1> HIDE DEF b0
<1> QED BY <1>1, <1>2, <1>3, <1>5, <1>6, LeadClasses, Decode2Fits, Decode3Fits
-----------------------------------------------------------------------------
(* The rows of Table 3-7, byte by byte. *)
LEMMA MatchesBytes ==
  ASSUME NEW s, NEW o, Within(s, o), NEW row, NEW n \in 1 .. 4, Len(row) = n
  PROVE  Matches(s, o, row) <=>
              o + n <= Len(s) /\ \A i \in 0 .. n - 1 : ByteAt(s, o + i) \in row[i + 1]
<1>1. o \in Nat /\ Len(s) \in Nat
  BY DEF Within
<1>2. ASSUME NEW i \in 0 .. n - 1
      PROVE  i + 1 \in 1 .. n /\ o + i + 1 = o + (i + 1)
  BY <1>1
<1>3. ASSUME NEW j \in 1 .. n
      PROVE  j - 1 \in 0 .. n - 1 /\ (j - 1) + 1 = j /\ o + (j - 1) + 1 = o + j
  BY <1>1
<1>4. (\A j \in 1 .. n : s[o + j] \in row[j])
      <=> \A i \in 0 .. n - 1 : s[o + i + 1] \in row[i + 1]
  <2>1. ASSUME \A j \in 1 .. n : s[o + j] \in row[j], NEW i \in 0 .. n - 1
        PROVE  s[o + i + 1] \in row[i + 1]
    BY <1>2, <2>1
  <2>2. ASSUME \A i \in 0 .. n - 1 : s[o + i + 1] \in row[i + 1], NEW j \in 1 .. n
        PROVE  s[o + j] \in row[j]
    <3>1. s[o + (j - 1) + 1] \in row[(j - 1) + 1]
      BY <1>3, <2>2, Zenon
    <3> QED BY <1>3, <3>1, Zenon
  <2> QED BY <2>1, <2>2
<1>5. Matches(s, o, row) <=>
        o + n <= Len(s) /\ \A i \in 0 .. n - 1 : ByteAt(s, o + i) \in row[i + 1]
  BY <1>4, Zenon DEF Matches, ByteAt
<1> QED BY <1>5

LEMMA Matches1 ==
  ASSUME NEW s, NEW o, Within(s, o), NEW A
  PROVE  Len(<<A>>) = 1 /\ (Matches(s, o, <<A>>) <=> ByteAt(s, o) \in A)
BY DEF Matches, ByteAt, Within

LEMMA Matches2 ==
  ASSUME NEW s, NEW o, Within(s, o), NEW A, NEW B, B = 128 .. 191
  PROVE  /\ Len(<<A, B>>) = 2
         /\ Matches(s, o, <<A, B>>) <=> ByteAt(s, o) \in A /\ ContinuationAt(s, o + 1)
<1> DEFINE row == <<A, B>>
<1>1. Len(row) = 2 /\ row[1] = A /\ row[2] = B
  OBVIOUS
<1>2. o \in Nat /\ Len(s) \in Nat /\ 0 \in 0 .. 2 - 1 /\ 1 \in 0 .. 2 - 1
      /\ 0 + 1 = 1 /\ 1 + 1 = 2 /\ o + 0 = o /\ 2 \in 1 .. 4
  BY DEF Within
<1>3. o + 2 <= Len(s) <=> o + 1 < Len(s)
  BY <1>2
<1> HIDE DEF row
<1>4. \A i \in 0 .. 2 - 1 : i = 0 \/ i = 1
  OBVIOUS
<1>5. Matches(s, o, row) <=>
        o + 2 <= Len(s) /\ \A i \in 0 .. 2 - 1 : ByteAt(s, o + i) \in row[i + 1]
  BY <1>1, <1>2, MatchesBytes
<1>6. Matches(s, o, row) <=>
        o + 1 < Len(s) /\ ByteAt(s, o) \in A /\ ByteAt(s, o + 1) \in B
  BY <1>1, <1>2, <1>3, <1>4, <1>5, Zenon
<1> QED BY <1>1, <1>6, Zenon DEF ContinuationAt, row

LEMMA Matches3 ==
  ASSUME NEW s, NEW o, Within(s, o), NEW A, NEW B, NEW C,
         B \subseteq 128 .. 191, C = 128 .. 191
  PROVE  /\ Len(<<A, B, C>>) = 3
         /\ Matches(s, o, <<A, B, C>>) <=>
              /\ ByteAt(s, o) \in A /\ ByteAt(s, o + 1) \in B
              /\ ContinuationAt(s, o + 1) /\ ContinuationAt(s, o + 2)
<1> DEFINE row == <<A, B, C>>
<1>1. Len(row) = 3 /\ row[1] = A /\ row[2] = B /\ row[3] = C
  OBVIOUS
<1>2. /\ o \in Nat /\ Len(s) \in Nat
      /\ 0 \in 0 .. 3 - 1 /\ 1 \in 0 .. 3 - 1 /\ 2 \in 0 .. 3 - 1
      /\ 0 + 1 = 1 /\ 1 + 1 = 2 /\ 2 + 1 = 3 /\ o + 0 = o /\ 3 \in 1 .. 4
  BY DEF Within
<1>3. (o + 3 <= Len(s) <=> o + 2 < Len(s)) /\ (o + 2 < Len(s) => o + 1 < Len(s))
  BY <1>2
<1> HIDE DEF row
<1>4. \A i \in 0 .. 3 - 1 : i = 0 \/ i = 1 \/ i = 2
  OBVIOUS
<1>5. Matches(s, o, row) <=>
        o + 3 <= Len(s) /\ \A i \in 0 .. 3 - 1 : ByteAt(s, o + i) \in row[i + 1]
  BY <1>1, <1>2, MatchesBytes
<1>6. Matches(s, o, row) <=>
        o + 2 < Len(s) /\ ByteAt(s, o) \in A /\ ByteAt(s, o + 1) \in B
                       /\ ByteAt(s, o + 2) \in C
  BY <1>1, <1>2, <1>3, <1>4, <1>5, ZenonT(60)
<1>7. ByteAt(s, o + 1) \in B => ByteAt(s, o + 1) \in 128 .. 191
  OBVIOUS
<1> QED BY <1>1, <1>3, <1>6, <1>7, Zenon DEF ContinuationAt, row

LEMMA Matches4 ==
  ASSUME NEW s, NEW o, Within(s, o), NEW A, NEW B, NEW C,
         B \subseteq 128 .. 191, C = 128 .. 191
  PROVE  /\ Len(<<A, B, C, C>>) = 4
         /\ Matches(s, o, <<A, B, C, C>>) <=>
              /\ ByteAt(s, o) \in A /\ ByteAt(s, o + 1) \in B
              /\ ContinuationAt(s, o + 1) /\ ContinuationAt(s, o + 2)
              /\ ContinuationAt(s, o + 3)
<1> DEFINE row == <<A, B, C, C>>
<1>1. Len(row) = 4 /\ row[1] = A /\ row[2] = B /\ row[3] = C /\ row[4] = C
  OBVIOUS
<1>2. /\ o \in Nat /\ Len(s) \in Nat
      /\ 0 \in 0 .. 4 - 1 /\ 1 \in 0 .. 4 - 1 /\ 2 \in 0 .. 4 - 1 /\ 3 \in 0 .. 4 - 1
      /\ 0 + 1 = 1 /\ 1 + 1 = 2 /\ 2 + 1 = 3 /\ 3 + 1 = 4 /\ o + 0 = o /\ 4 \in 1 .. 4
  BY DEF Within
<1>3. /\ o + 4 <= Len(s) <=> o + 3 < Len(s)
      /\ o + 3 < Len(s) => o + 2 < Len(s) /\ o + 1 < Len(s)
  BY <1>2
<1> HIDE DEF row
<1>4. \A i \in 0 .. 4 - 1 : i = 0 \/ i = 1 \/ i = 2 \/ i = 3
  OBVIOUS
<1>5. Matches(s, o, row) <=>
        o + 4 <= Len(s) /\ \A i \in 0 .. 4 - 1 : ByteAt(s, o + i) \in row[i + 1]
  BY <1>1, <1>2, MatchesBytes
<1>6. Matches(s, o, row) <=>
        o + 3 < Len(s) /\ ByteAt(s, o) \in A /\ ByteAt(s, o + 1) \in B
                       /\ ByteAt(s, o + 2) \in C /\ ByteAt(s, o + 3) \in C
  BY <1>1, <1>2, <1>3, <1>4, <1>5, ZenonT(60)
<1>7. ByteAt(s, o + 1) \in B => ByteAt(s, o + 1) \in 128 .. 191
  OBVIOUS
<1> QED BY <1>1, <1>3, <1>6, <1>7, ZenonT(60) DEF ContinuationAt, row

(* The payload bits of a byte, and their places in a code point. *)
LEMMA Payload ==
  /\ \A b \in 128 .. 191 : b % 64 = b - 128
  /\ \A b \in 192 .. 223 : b % 32 = b - 192
  /\ \A b \in 224 .. 239 : b % 16 = b - 224
  /\ \A b \in 240 .. 247 : b % 8 = b - 240
<1>1. \A b \in 128 .. 191 : b % 64 = b - 128
  BY SMT
<1>2. \A b \in 192 .. 223 : b % 32 = b - 192
  BY SMT
<1>3. \A b \in 224 .. 239 : b % 16 = b - 224
  BY SMT
<1>4. \A b \in 240 .. 247 : b % 8 = b - 240
  BY SMT
<1> QED BY <1>1, <1>2, <1>3, <1>4

LEMMA SixBits ==
  ASSUME NEW x \in Nat, NEW y \in Nat, y < 64
  PROVE  (x * 64 + y) \div 64 = x /\ (x * 64 + y) % 64 = y
BY SMT

LEMMA TwelveBits ==
  ASSUME NEW x \in Nat, NEW y \in Nat, y < 4096
  PROVE  (x * 4096 + y) \div 4096 = x
BY SMT

LEMMA EighteenBits ==
  ASSUME NEW x \in Nat, NEW y \in Nat, y < 262144
  PROVE  (x * 262144 + y) \div 262144 = x
BY SMT

(* The encoding form, by the size of the code point. *)
LEMMA EncodeForm2 ==
  ASSUME NEW c \in Nat, c >= 128, c < 2048
  PROVE  Encode(c) = <<192 + (c \div 64), 128 + (c % 64)>>
BY SMT DEF Encode, Tail6

LEMMA EncodeForm3 ==
  ASSUME NEW c \in Nat, c >= 2048, c < 65536
  PROVE  Encode(c) = <<224 + (c \div 4096), 128 + ((c \div 64) % 64), 128 + (c % 64)>>
BY SMT DEF Encode, Tail6

LEMMA EncodeForm4 ==
  ASSUME NEW c \in Nat, c >= 65536
  PROVE  Encode(c) = <<240 + (c \div 262144), 128 + ((c \div 4096) % 64),
                       128 + ((c \div 64) % 64), 128 + (c % 64)>>
BY SMT DEF Encode, Tail6

(* It is undone by joining the payload bits. *)
LEMMA Encode2 ==
  ASSUME NEW b0 \in 194 .. 223, NEW b1 \in 128 .. 191
  PROVE  /\ IsScalarValue(Join2(b0, b1))
         /\ Encode(Join2(b0, b1)) = <<b0, b1>>
<1> DEFINE x == b0 - 192  y == b1 - 128  c == x * 64 + y
<1>1. b0 % 32 = x /\ b1 % 64 = y
  BY Payload, SMT
<1>2. x \in Nat /\ y \in Nat /\ x >= 2 /\ x < 32 /\ y < 64 /\ 192 + x = b0 /\ 128 + y = b1
  BY SMT
<1>3. Join2(b0, b1) = c
  BY <1>1, SMT DEF Join2
<1> HIDE DEF x, y
<1>4. c \in Nat /\ c >= 128 /\ c < 2048
  BY <1>2, SMT
<1>5. c \div 64 = x /\ c % 64 = y
  BY <1>2, SixBits, SMT
<1> HIDE DEF c
<1>6. IsScalarValue(c)
  BY <1>4, SMT DEF IsScalarValue, CodePoint
<1>7. Encode(c) = <<192 + (c \div 64), 128 + (c % 64)>>
  BY <1>4, EncodeForm2, SMT
<1> QED BY <1>2, <1>3, <1>4, <1>5, <1>6, <1>7, SMT

LEMMA Encode3 ==
  ASSUME NEW b0 \in 224 .. 239, NEW b1 \in 128 .. 191, NEW b2 \in 128 .. 191,
         b0 = 224 => b1 >= 160, b0 = 237 => b1 < 160
  PROVE  /\ IsScalarValue(Join3(b0, b1, b2))
         /\ Encode(Join3(b0, b1, b2)) = <<b0, b1, b2>>
<1> DEFINE x == b0 - 224  y == b1 - 128  z == b2 - 128
           c == x * 4096 + y * 64 + z
<1>1. b0 % 16 = x /\ b1 % 64 = y /\ b2 % 64 = z
  BY Payload, SMT
<1>2. /\ x \in Nat /\ x < 16 /\ y \in Nat /\ y < 64 /\ z \in Nat /\ z < 64
      /\ x = 0 => y >= 32
      /\ x = 13 => y < 32
      /\ 224 + x = b0 /\ 128 + y = b1 /\ 128 + z = b2
  BY SMT
<1>3. Join3(b0, b1, b2) = c
  BY <1>1, SMT DEF Join3
<1> HIDE DEF x, y, z
<1>4. c \in Nat /\ c >= 2048 /\ c < 65536 /\ (c < 55296 \/ c > 57343)
  <2>1. c \in Nat /\ c < 65536
    BY <1>2, SMT
  <2>2. x >= 1 => c >= 4096
    BY <1>2, SMT
  <2>3. c >= 2048
    BY <1>2, <2>2, SMT
  <2>4. x <= 12 => c < 55296
    BY <1>2, SMT
  <2>5. x >= 14 => c > 57343
    BY <1>2, SMT
  <2>6. x = 13 => c < 55296
    BY <1>2, SMT
  <2>7. x <= 12 \/ x = 13 \/ x >= 14
    BY <1>2, SMT
  <2> QED BY <2>1, <2>3, <2>4, <2>5, <2>6, <2>7
<1>5. /\ y * 64 + z \in Nat /\ y * 64 + z < 4096 /\ x * 64 + y \in Nat
      /\ c = x * 4096 + (y * 64 + z) /\ c = (x * 64 + y) * 64 + z
  BY <1>2, SMT
<1>6. c \div 4096 = x
  BY <1>2, <1>5, TwelveBits, SMT
<1>7. c \div 64 = x * 64 + y /\ c % 64 = z
  BY <1>2, <1>5, SixBits, SMT
<1>8. (c \div 64) % 64 = y
  BY <1>2, <1>7, SixBits, SMT
<1> HIDE DEF c
<1>9. IsScalarValue(c)
  BY <1>4, SMT DEF IsScalarValue, CodePoint
<1>10. Encode(c) = <<224 + (c \div 4096), 128 + ((c \div 64) % 64), 128 + (c % 64)>>
  BY <1>4, EncodeForm3, SMT
<1> QED BY <1>2, <1>3, <1>4, <1>6, <1>7, <1>8, <1>9, <1>10, SMT

LEMMA Encode4 ==
  ASSUME NEW b0 \in 240 .. 244, NEW b1 \in 128 .. 191, NEW b2 \in 128 .. 191,
         NEW b3 \in 128 .. 191, b0 = 240 => b1 >= 144, b0 = 244 => b1 < 144
  PROVE  /\ IsScalarValue(Join4(b0, b1, b2, b3))
         /\ Encode(Join4(b0, b1, b2, b3)) = <<b0, b1, b2, b3>>
<1> DEFINE w == b0 - 240  x == b1 - 128  y == b2 - 128  z == b3 - 128
           c == w * 262144 + x * 4096 + y * 64 + z
<1>1. b0 % 8 = w /\ b1 % 64 = x /\ b2 % 64 = y /\ b3 % 64 = z
  BY Payload, SMT
<1>2. /\ w \in Nat /\ w <= 4 /\ x \in Nat /\ x < 64
      /\ y \in Nat /\ y < 64 /\ z \in Nat /\ z < 64
      /\ w = 0 => x >= 16
      /\ w = 4 => x < 16
      /\ 240 + w = b0 /\ 128 + x = b1 /\ 128 + y = b2 /\ 128 + z = b3
  BY SMT
<1>3. Join4(b0, b1, b2, b3) = c
  BY <1>1, SMT DEF Join4
<1> HIDE DEF w, x, y, z
<1>4. c \in Nat /\ c >= 65536 /\ c <= 1114111
  BY <1>2, SMT
<1>5. /\ x * 4096 + y * 64 + z \in Nat /\ x * 4096 + y * 64 + z < 262144
      /\ y * 64 + z \in Nat /\ y * 64 + z < 4096
      /\ w * 64 + x \in Nat /\ (w * 64 + x) * 64 + y \in Nat
      /\ c = w * 262144 + (x * 4096 + y * 64 + z)
      /\ c = (w * 64 + x) * 4096 + (y * 64 + z)
      /\ c = ((w * 64 + x) * 64 + y) * 64 + z
  BY <1>2, SMT
<1>6. c \div 262144 = w
  BY <1>2, <1>5, EighteenBits, SMT
<1>7. c \div 4096 = w * 64 + x
  BY <1>2, <1>5, TwelveBits, SMT
<1>8. c \div 64 = (w * 64 + x) * 64 + y /\ c % 64 = z
  BY <1>2, <1>5, SixBits, SMT
<1>9. (c \div 4096) % 64 = x
  BY <1>2, <1>7, SixBits, SMT
<1>10. (c \div 64) % 64 = y
  BY <1>2, <1>5, <1>8, SixBits, SMT
<1> HIDE DEF c
<1>11. IsScalarValue(c)
  BY <1>4, SMT DEF IsScalarValue, CodePoint
<1>12. Encode(c) = <<240 + (c \div 262144), 128 + ((c \div 4096) % 64),
                     128 + ((c \div 64) % 64), 128 + (c % 64)>>
  BY <1>4, EncodeForm4, SMT
<1> QED BY <1>2, <1>3, <1>4, <1>6, <1>8, <1>9, <1>10, <1>11, <1>12, SMT
-----------------------------------------------------------------------------
(* Table 3-7 by the number of bytes. *)
WellShaped(s, o, n) ==
  LET b0 == ByteAt(s, o)  b1 == ByteAt(s, o + 1) IN
  \/ n = 1 /\ b0 <= 127
  \/ n = 2 /\ b0 \in 194 .. 223 /\ ContinuationAt(s, o + 1)
  \/ /\ n = 3 /\ b0 \in 224 .. 239
     /\ ContinuationAt(s, o + 1) /\ ContinuationAt(s, o + 2)
     /\ b0 = 224 => b1 >= 160
     /\ b0 = 237 => b1 < 160
  \/ /\ n = 4 /\ b0 \in 240 .. 244
     /\ ContinuationAt(s, o + 1) /\ ContinuationAt(s, o + 2) /\ ContinuationAt(s, o + 3)
     /\ b0 = 240 => b1 >= 144
     /\ b0 = 244 => b1 < 144

LEMMA RowCases ==
  ASSUME NEW row \in WellFormedRows
  PROVE  \/ row = <<0 .. 127>>
         \/ row = <<194 .. 223, 128 .. 191>>
         \/ row = <<{224}, 160 .. 191, 128 .. 191>>
         \/ row = <<225 .. 236, 128 .. 191, 128 .. 191>>
         \/ row = <<{237}, 128 .. 159, 128 .. 191>>
         \/ row = <<238 .. 239, 128 .. 191, 128 .. 191>>
         \/ row = <<{240}, 144 .. 191, 128 .. 191, 128 .. 191>>
         \/ row = <<241 .. 243, 128 .. 191, 128 .. 191, 128 .. 191>>
         \/ row = <<{244}, 128 .. 143, 128 .. 191, 128 .. 191>>
BY ZenonT(60) DEF WellFormedRows

LEMMA RowLength ==
  ASSUME NEW row \in WellFormedRows
  PROVE  Len(row) \in 1 .. 4
<1>1. \A A, B, C, D : /\ Len(<<A>>) = 1 /\ Len(<<A, B>>) = 2
                     /\ Len(<<A, B, C>>) = 3 /\ Len(<<A, B, C, D>>) = 4
  OBVIOUS
<1>2. Len(row) = 1 \/ Len(row) = 2 \/ Len(row) = 3 \/ Len(row) = 4
  BY <1>1, RowCases, ZenonT(60)
<1> QED BY <1>2

(* Each row is of one of these shapes ... *)
LEMMA RowShape ==
  ASSUME NEW s, NEW o, Within(s, o), NEW row \in WellFormedRows, Matches(s, o, row)
  PROVE  WellShaped(s, o, Len(row))
<1> DEFINE b0 == ByteAt(s, o)  b1 == ByteAt(s, o + 1)
           C(i) == ContinuationAt(s, o + i)
<1>1. CASE row = <<0 .. 127>>
  <2>1. Len(row) = 1 /\ b0 <= 127
    BY <1>1, Matches1
  <2> QED BY <2>1 DEF WellShaped
<1>2. CASE row = <<194 .. 223, 128 .. 191>>
  <2>1. Len(row) = 2 /\ b0 \in 194 .. 223 /\ C(1)
    BY <1>2, Matches2
  <2> QED BY <2>1 DEF WellShaped
<1>3. ASSUME NEW A, NEW B, row = <<A, B, 128 .. 191>>, B \subseteq 128 .. 191
      PROVE  Len(row) = 3 /\ b0 \in A /\ b1 \in B /\ C(1) /\ C(2)
  BY <1>3, Matches3, ZenonT(60)
<1>4. CASE row = <<{224}, 160 .. 191, 128 .. 191>>
  <2>1. Len(row) = 3 /\ b0 = 224 /\ b1 >= 160 /\ C(1) /\ C(2)
    BY <1>3, <1>4
  <2> QED BY <2>1 DEF WellShaped
<1>5. CASE row = <<225 .. 236, 128 .. 191, 128 .. 191>>
  <2>1. Len(row) = 3 /\ b0 \in 225 .. 236 /\ C(1) /\ C(2)
    BY <1>3, <1>5
  <2> QED BY <2>1 DEF WellShaped
<1>6. CASE row = <<{237}, 128 .. 159, 128 .. 191>>
  <2>1. Len(row) = 3 /\ b0 = 237 /\ b1 < 160 /\ C(1) /\ C(2)
    BY <1>3, <1>6
  <2> QED BY <2>1 DEF WellShaped
<1>7. CASE row = <<238 .. 239, 128 .. 191, 128 .. 191>>
  <2>1. Len(row) = 3 /\ b0 \in 238 .. 239 /\ C(1) /\ C(2)
    BY <1>3, <1>7
  <2> QED BY <2>1 DEF WellShaped
<1>8. ASSUME NEW A, NEW B, row = <<A, B, 128 .. 191, 128 .. 191>>, B \subseteq 128 .. 191
      PROVE  Len(row) = 4 /\ b0 \in A /\ b1 \in B /\ C(1) /\ C(2) /\ C(3)
  BY <1>8, Matches4, ZenonT(60)
<1>9. CASE row = <<{240}, 144 .. 191, 128 .. 191, 128 .. 191>>
  <2>1. Len(row) = 4 /\ b0 = 240 /\ b1 >= 144 /\ C(1) /\ C(2) /\ C(3)
    BY <1>8, <1>9
  <2> QED BY <2>1 DEF WellShaped
<1>10. CASE row = <<241 .. 243, 128 .. 191, 128 .. 191, 128 .. 191>>
  <2>1. Len(row) = 4 /\ b0 \in 241 .. 243 /\ C(1) /\ C(2) /\ C(3)
    BY <1>8, <1>10
  <2> QED BY <2>1 DEF WellShaped
<1>11. CASE row = <<{244}, 128 .. 143, 128 .. 191, 128 .. 191>>
  <2>1. Len(row) = 4 /\ b0 = 244 /\ b1 < 144 /\ C(1) /\ C(2) /\ C(3)
    BY <1>8, <1>11
  <2> QED BY <2>1 DEF WellShaped
<1> QED
  BY <1>1, <1>2, <1>4, <1>5, <1>6, <1>7, <1>9, <1>10, <1>11, RowCases, ZenonT(60)

(* ... and each shape is one of the rows. *)
LEMMA ShapeRow ==
  ASSUME NEW s, NEW o, Within(s, o), NEW n, WellShaped(s, o, n)
  PROVE  \E row \in WellFormedRows : Len(row) = n /\ Matches(s, o, row)
<1> DEFINE b0 == ByteAt(s, o)  b1 == ByteAt(s, o + 1)
           C(i) == ContinuationAt(s, o + i)
<1>1. b0 \in Byte
  BY ByteAtIsByte
<1>2. CASE n = 1 /\ b0 <= 127
  <2>1. Matches(s, o, <<0 .. 127>>) /\ Len(<<0 .. 127>>) = 1
    BY <1>1, <1>2, Matches1 DEF Byte
  <2>2. <<0 .. 127>> \in WellFormedRows
    BY SMT DEF WellFormedRows
  <2> QED BY <1>2, <2>1, <2>2, Zenon
<1>3. CASE n = 2 /\ b0 \in 194 .. 223 /\ C(1)
  <2>1. Matches(s, o, <<194 .. 223, 128 .. 191>>) /\ Len(<<194 .. 223, 128 .. 191>>) = 2
    BY <1>3, Matches2
  <2>2. <<194 .. 223, 128 .. 191>> \in WellFormedRows
    BY SMT DEF WellFormedRows
  <2> QED BY <1>3, <2>1, <2>2, Zenon
<1>4. CASE /\ n = 3 /\ b0 \in 224 .. 239 /\ C(1) /\ C(2)
           /\ b0 = 224 => b1 >= 160
           /\ b0 = 237 => b1 < 160
  <2>1. ASSUME NEW A, NEW B, b0 \in A, b1 \in B, B \subseteq 128 .. 191,
               <<A, B, 128 .. 191>> \in WellFormedRows
        PROVE  \E row \in WellFormedRows : Len(row) = n /\ Matches(s, o, row)
    <3>1. Matches(s, o, <<A, B, 128 .. 191>>) /\ Len(<<A, B, 128 .. 191>>) = n
      BY <1>4, <2>1, Matches3, Zenon
    <3> QED BY <2>1, <3>1, Zenon
  <2>2. b1 \in 128 .. 191
    BY <1>4 DEF ContinuationAt
  <2>3. CASE b0 = 224
    <3>1. b0 \in {224} /\ b1 \in 160 .. 191
      BY <1>4, <2>2, <2>3
    <3>2. <<{224}, 160 .. 191, 128 .. 191>> \in WellFormedRows
      BY SMT DEF WellFormedRows
    <3> QED BY <2>1, <3>1, <3>2
  <2>4. CASE b0 \in 225 .. 236
    <3>1. <<225 .. 236, 128 .. 191, 128 .. 191>> \in WellFormedRows
      BY SMT DEF WellFormedRows
    <3> QED BY <2>1, <2>2, <2>4, <3>1
  <2>5. CASE b0 = 237
    <3>1. b0 \in {237} /\ b1 \in 128 .. 159
      BY <1>4, <2>2, <2>5
    <3>2. <<{237}, 128 .. 159, 128 .. 191>> \in WellFormedRows
      BY SMT DEF WellFormedRows
    <3> QED BY <2>1, <3>1, <3>2
  <2>6. CASE b0 \in 238 .. 239
    <3>1. <<238 .. 239, 128 .. 191, 128 .. 191>> \in WellFormedRows
      BY SMT DEF WellFormedRows
    <3> QED BY <2>1, <2>2, <2>6, <3>1
  <2> QED BY <1>4, <2>3, <2>4, <2>5, <2>6
<1>5. CASE /\ n = 4 /\ b0 \in 240 .. 244 /\ C(1) /\ C(2) /\ C(3)
           /\ b0 = 240 => b1 >= 144
           /\ b0 = 244 => b1 < 144
  <2>1. ASSUME NEW A, NEW B, b0 \in A, b1 \in B, B \subseteq 128 .. 191,
               <<A, B, 128 .. 191, 128 .. 191>> \in WellFormedRows
        PROVE  \E row \in WellFormedRows : Len(row) = n /\ Matches(s, o, row)
    <3>1. Matches(s, o, <<A, B, 128 .. 191, 128 .. 191>>)
          /\ Len(<<A, B, 128 .. 191, 128 .. 191>>) = n
      BY <1>5, <2>1, Matches4, ZenonT(60)
    <3> QED BY <2>1, <3>1, Zenon
  <2>2. b1 \in 128 .. 191
    BY <1>5 DEF ContinuationAt
  <2>3. CASE b0 = 240
    <3>1. b0 \in {240} /\ b1 \in 144 .. 191
      BY <1>5, <2>2, <2>3
    <3>2. <<{240}, 144 .. 191, 128 .. 191, 128 .. 191>> \in WellFormedRows
      BY SMT DEF WellFormedRows
    <3> QED BY <2>1, <3>1, <3>2
  <2>4. CASE b0 \in 241 .. 243
    <3>1. <<241 .. 243, 128 .. 191, 128 .. 191, 128 .. 191>> \in WellFormedRows
      BY SMT DEF WellFormedRows
    <3> QED BY <2>1, <2>2, <2>4, <3>1, ZenonT(60)
  <2>5. CASE b0 = 244
    <3>1. b0 \in {244} /\ b1 \in 128 .. 143
      BY <1>5, <2>2, <2>5
    <3>2. <<{244}, 128 .. 143, 128 .. 191, 128 .. 191>> \in WellFormedRows
      BY SMT DEF WellFormedRows
    <3> QED BY <2>1, <3>1, <3>2
  <2> QED BY <1>5, <2>3, <2>4, <2>5
<1> QED BY <1>2, <1>3, <1>4, <1>5 DEF WellShaped
-----------------------------------------------------------------------------
(* decode_utf8 on each of the shapes ... *)
LEMMA FollowersAll ==
  ASSUME NEW s, NEW o
  PROVE  /\ ContinuationAt(s, o + 1) => Followers(s, o, 1) = 1
         /\ ContinuationAt(s, o + 1) /\ ContinuationAt(s, o + 2) => Followers(s, o, 2) = 2
         /\ ContinuationAt(s, o + 1) /\ ContinuationAt(s, o + 2) /\ ContinuationAt(s, o + 3)
            => Followers(s, o, 3) = 3
         /\ Followers(s, o, 1) # 0 => ContinuationAt(s, o + 1)
         /\ Followers(s, o, 2) = 2 => ContinuationAt(s, o + 1) /\ ContinuationAt(s, o + 2)
         /\ Followers(s, o, 3) = 3 => /\ ContinuationAt(s, o + 1) /\ ContinuationAt(s, o + 2)
                                      /\ ContinuationAt(s, o + 3)
BY DEF Followers

LEMMA LeadOf ==
  ASSUME NEW s, NEW o, NEW b0 \in Byte
  PROVE  /\ b0 <= 127 => DecodeLead(s, o, b0) = Decoded(b0, 1)
         /\ b0 \in 194 .. 223 => DecodeLead(s, o, b0) = decode_2byte(s, o)
         /\ b0 \in 224 .. 239 => DecodeLead(s, o, b0) = decode_3byte(s, o)
         /\ b0 \in 240 .. 244 => DecodeLead(s, o, b0) = decode_4byte(s, o)
BY DEF DecodeLead, Byte

LEMMA BytesOf ==
  ASSUME NEW s, NEW o, Within(s, o), NEW n \in 1 .. 4, o + n <= Len(s)
  PROVE  /\ n = 1 => SubSeq(s, o + 1, o + n) = <<ByteAt(s, o)>>
         /\ n = 2 => SubSeq(s, o + 1, o + n) = <<ByteAt(s, o), ByteAt(s, o + 1)>>
         /\ n = 3 => SubSeq(s, o + 1, o + n) =
                       <<ByteAt(s, o), ByteAt(s, o + 1), ByteAt(s, o + 2)>>
         /\ n = 4 => SubSeq(s, o + 1, o + n) =
                       <<ByteAt(s, o), ByteAt(s, o + 1), ByteAt(s, o + 2), ByteAt(s, o + 3)>>
<1> DEFINE sub == SubSeq(s, o + 1, o + n)
<1>1. o \in Nat /\ Len(s) \in Nat /\ s \in Seq(Byte)
  BY DEF Within
<1>2. Len(sub) = n /\ sub \in Seq(Byte)
  BY <1>1
<1>3. \A i \in 1 .. n : sub[i] = s[o + i]
  BY <1>1, <1>2
<1>4. CASE n = 1
  <2>1. sub[1] = ByteAt(s, o)
    BY <1>1, <1>3, <1>4 DEF ByteAt
  <2> HIDE DEF sub
  <2>2. sub = <<ByteAt(s, o)>>
    BY <1>2, <1>4, <2>1
  <2> QED BY <1>4, <2>2 DEF sub
<1>5. CASE n = 2
  <2>1. sub[1] = ByteAt(s, o) /\ sub[2] = ByteAt(s, o + 1)
    BY <1>1, <1>3, <1>5 DEF ByteAt
  <2> HIDE DEF sub
  <2>2. sub = <<ByteAt(s, o), ByteAt(s, o + 1)>>
    BY <1>2, <1>5, <2>1
  <2> QED BY <1>5, <2>2 DEF sub
<1>6. CASE n = 3
  <2>1. sub[1] = ByteAt(s, o) /\ sub[2] = ByteAt(s, o + 1) /\ sub[3] = ByteAt(s, o + 2)
    BY <1>1, <1>3, <1>6 DEF ByteAt
  <2> HIDE DEF sub
  <2>2. sub = <<ByteAt(s, o), ByteAt(s, o + 1), ByteAt(s, o + 2)>>
    BY <1>2, <1>6, <2>1
  <2> QED BY <1>6, <2>2 DEF sub
<1>7. CASE n = 4
  <2>1. /\ sub[1] = ByteAt(s, o) /\ sub[2] = ByteAt(s, o + 1)
        /\ sub[3] = ByteAt(s, o + 2) /\ sub[4] = ByteAt(s, o + 3)
    BY <1>1, <1>3, <1>7 DEF ByteAt
  <2> HIDE DEF sub
  <2>2. sub = <<ByteAt(s, o), ByteAt(s, o + 1), ByteAt(s, o + 2), ByteAt(s, o + 3)>>
    BY <1>2, <1>7, <2>1
  <2> QED BY <1>7, <2>2 DEF sub
<1> QED BY <1>4, <1>5, <1>6, <1>7

(* The decoding the encoding form undoes. *)
DecodesTo(s, o, res, n) ==
  /\ res.status = "Ok" /\ res.byte_length = n
  /\ IsScalarValue(res.codepoint)
  /\ SubSeq(s, o + 1, o + n) = Encode(res.codepoint)

LEMMA DecodedDecodes ==
  ASSUME NEW s, NEW o, NEW cp, NEW n, NEW m, n = m, IsScalarValue(cp), NEW bytes,
         SubSeq(s, o + 1, o + n) = bytes, Encode(cp) = bytes
  PROVE  DecodesTo(s, o, Decoded(cp, m), n)
BY DEF DecodesTo, Decoded

LEMMA ShapeDecodes ==
  ASSUME NEW s, NEW o, Within(s, o), NEW n, WellShaped(s, o, n)
  PROVE  DecodesTo(s, o, decode_utf8(s, o), n) /\ n \in 1 .. 4 /\ o + n <= Len(s)
<1> DEFINE b0 == ByteAt(s, o)  b1 == ByteAt(s, o + 1)
           b2 == ByteAt(s, o + 2)  b3 == ByteAt(s, o + 3)
           C(i) == ContinuationAt(s, o + i)
<1>1. /\ b0 \in Byte /\ o \in Nat /\ Len(s) \in Nat /\ o < Len(s)
      /\ decode_utf8(s, o) = DecodeLead(s, o, b0)
  <2>1. o \in Nat /\ Len(s) \in Nat /\ o < Len(s)
    BY DEF Within
  <2>2. ~(o >= Len(s))
    BY <2>1
  <2> QED BY <2>1, <2>2, ByteAtIsByte DEF decode_utf8
<1>2. /\ C(1) => b1 \in 128 .. 191 /\ o + 2 <= Len(s)
      /\ C(2) => b2 \in 128 .. 191 /\ o + 3 <= Len(s)
      /\ C(3) => b3 \in 128 .. 191 /\ o + 4 <= Len(s)
  BY <1>1 DEF ContinuationAt
<1>3. CASE n = 1 /\ b0 <= 127
  <2>1. decode_utf8(s, o) = Decoded(b0, 1)
    BY <1>1, <1>3, LeadOf
  <2>2. SubSeq(s, o + 1, o + n) = <<b0>>
    BY <1>1, <1>3, BytesOf
  <2> HIDE DEF b0
  <2>3. IsScalarValue(b0) /\ Encode(b0) = <<b0>>
    BY <1>1, <1>3 DEF IsScalarValue, CodePoint, Encode, Byte
  <2>4. DecodesTo(s, o, decode_utf8(s, o), n)
    BY <1>3, <2>1, <2>2, <2>3, DecodedDecodes, Zenon
  <2> QED BY <1>1, <1>3, <2>4
<1>4. CASE n = 2 /\ b0 \in 194 .. 223 /\ C(1)
  <2>1. decode_utf8(s, o) = Decoded(Join2(b0, b1), 2)
    BY <1>1, <1>4, LeadOf, FollowersAll DEF decode_2byte
  <2>2. SubSeq(s, o + 1, o + n) = <<b0, b1>>
    BY <1>1, <1>2, <1>4, BytesOf
  <2>3. IsScalarValue(Join2(b0, b1)) /\ Encode(Join2(b0, b1)) = <<b0, b1>>
    BY <1>2, <1>4, Encode2, Zenon
  <2>4. DecodesTo(s, o, decode_utf8(s, o), n)
    BY <1>4, <2>1, <2>2, <2>3, DecodedDecodes, Zenon
  <2>5. n \in 1 .. 4 /\ o + n <= Len(s)
    BY <1>2, <1>4
  <2> QED BY <2>4, <2>5
<1>5. CASE /\ n = 3 /\ b0 \in 224 .. 239 /\ C(1) /\ C(2)
           /\ b0 = 224 => b1 >= 160
           /\ b0 = 237 => b1 < 160
  <2>1. decode_utf8(s, o) = Decoded(Join3(b0, b1, b2), 3)
    <3>1. Followers(s, o, 2) = 2 /\ decode_utf8(s, o) = decode_3byte(s, o)
      BY <1>1, <1>5, LeadOf, FollowersAll
    <3>2. ~(b0 = 224 /\ b1 < 160) /\ ~(b0 = 237 /\ b1 >= 160)
      <4>1. b1 \in 128 .. 191
        BY <1>2, <1>5
      <4> HIDE DEF b0, b1
      <4> QED BY <1>5, <4>1
    <3> QED BY <3>1, <3>2 DEF decode_3byte
  <2>2. SubSeq(s, o + 1, o + n) = <<b0, b1, b2>>
    BY <1>1, <1>2, <1>5, BytesOf
  <2>3. IsScalarValue(Join3(b0, b1, b2)) /\ Encode(Join3(b0, b1, b2)) = <<b0, b1, b2>>
    <3>1. /\ b0 \in 224 .. 239 /\ b1 \in 128 .. 191 /\ b2 \in 128 .. 191
          /\ b0 = 224 => b1 >= 160
          /\ b0 = 237 => b1 < 160
      BY <1>2, <1>5
    <3> HIDE DEF b0, b1, b2
    <3> QED BY <3>1, Encode3, Zenon
  <2>4. DecodesTo(s, o, decode_utf8(s, o), n)
    BY <1>5, <2>1, <2>2, <2>3, DecodedDecodes, Zenon
  <2>5. n \in 1 .. 4 /\ o + n <= Len(s)
    BY <1>2, <1>5
  <2> QED BY <2>4, <2>5
<1>6. CASE /\ n = 4 /\ b0 \in 240 .. 244 /\ C(1) /\ C(2) /\ C(3)
           /\ b0 = 240 => b1 >= 144
           /\ b0 = 244 => b1 < 144
  <2>1. decode_utf8(s, o) = Decoded(Join4(b0, b1, b2, b3), 4)
    <3>1. Followers(s, o, 3) = 3 /\ decode_utf8(s, o) = decode_4byte(s, o)
      BY <1>1, <1>6, LeadOf, FollowersAll
    <3>2. ~(b0 = 240 /\ b1 < 144) /\ ~(b0 = 244 /\ b1 >= 144)
      <4>1. b1 \in 128 .. 191
        BY <1>2, <1>6
      <4> HIDE DEF b0, b1
      <4> QED BY <1>6, <4>1
    <3> QED BY <3>1, <3>2 DEF decode_4byte
  <2>2. SubSeq(s, o + 1, o + n) = <<b0, b1, b2, b3>>
    BY <1>1, <1>2, <1>6, BytesOf
  <2>3. IsScalarValue(Join4(b0, b1, b2, b3)) /\ Encode(Join4(b0, b1, b2, b3)) = <<b0, b1, b2, b3>>
    <3>1. /\ b0 \in 240 .. 244 /\ b1 \in 128 .. 191
          /\ b2 \in 128 .. 191 /\ b3 \in 128 .. 191
          /\ b0 = 240 => b1 >= 144
          /\ b0 = 244 => b1 < 144
      BY <1>2, <1>6
    <3> HIDE DEF b0, b1, b2, b3
    <3> QED BY <3>1, Encode4, Zenon
  <2>4. DecodesTo(s, o, decode_utf8(s, o), n)
    BY <1>6, <2>1, <2>2, <2>3, DecodedDecodes, Zenon
  <2>5. n \in 1 .. 4 /\ o + n <= Len(s)
    BY <1>2, <1>6
  <2> QED BY <2>4, <2>5
<1> QED BY <1>3, <1>4, <1>5, <1>6 DEF WellShaped

LEMMA DecodedLength ==
  ASSUME NEW cp, NEW n, NEW res, res = Decoded(cp, n)
  PROVE  res.byte_length = n
BY DEF Decoded

(* ... and nothing else is Ok. *)
LEMMA OkShape ==
  ASSUME NEW s, NEW o, Within(s, o), decode_utf8(s, o).status = "Ok"
  PROVE  WellShaped(s, o, decode_utf8(s, o).byte_length)
<1> DEFINE b0 == ByteAt(s, o)  b1 == ByteAt(s, o + 1)  res == decode_utf8(s, o)
<1>1. b0 \in Byte /\ res = DecodeLead(s, o, b0)
  <2>1. ~(o >= Len(s))
    BY DEF Within
  <2> QED BY <2>1, ByteAtIsByte DEF decode_utf8
<1>2. \A n, why : Malformed(n, why).status = why
  BY DEF Malformed
<1>3. \A i \in 0 .. 3 : ContinuationAt(s, o + i) => ByteAt(s, o + i) \in 128 .. 191
  BY DEF ContinuationAt
<1>4. CASE res = Decoded(b0, 1) /\ b0 <= 127
  <2>1. res.byte_length = 1
    BY <1>4, DecodedLength
  <2> QED BY <1>4, <2>1 DEF WellShaped
<1>5. CASE b0 \in 194 .. 223
  <2>1. res = decode_2byte(s, o)
    BY <1>1, <1>5, LeadOf
  <2>2. Followers(s, o, 1) # 0
    BY <1>2, <2>1 DEF decode_2byte
  <2>3. res = Decoded(Join2(b0, b1), 2)
    BY <2>1, <2>2 DEF decode_2byte
  <2>4. res.byte_length = 2
    BY <2>3, DecodedLength
  <2> QED BY <1>5, <2>2, <2>4, FollowersAll DEF WellShaped
<1>6. CASE b0 \in 224 .. 239
  <2> DEFINE k == Followers(s, o, 2)
  <2>1. res = decode_3byte(s, o) /\ k \in 0 .. 2
    BY <1>1, <1>6, LeadOf, FollowersBound
  <2>2. ~(k = 0) /\ ~(b0 = 224 /\ b1 < 160) /\ ~(b0 = 237 /\ b1 >= 160) /\ ~(k = 1)
    BY <1>2, <2>1 DEF decode_3byte
  <2>3. res = Decoded(Join3(b0, b1, ByteAt(s, o + 2)), 3)
    BY <2>1, <2>2 DEF decode_3byte
  <2>4. res.byte_length = 3
    BY <2>3, DecodedLength
  <2>5. k = 2
    BY <2>1, <2>2
  <2>6. ContinuationAt(s, o + 1) /\ ContinuationAt(s, o + 2)
    BY <2>5, FollowersAll
  <2>7. b1 \in 128 .. 191
    BY <1>3, <2>6
  <2>8. b0 = 224 => b1 >= 160
    BY <2>2, <2>7
  <2>9. b0 = 237 => b1 < 160
    BY <2>2, <2>7
  <2> QED BY <1>6, <2>4, <2>6, <2>8, <2>9 DEF WellShaped
<1>7. CASE b0 \in 240 .. 244
  <2> DEFINE k == Followers(s, o, 3)
  <2>1. res = decode_4byte(s, o) /\ k \in 0 .. 3
    BY <1>1, <1>7, LeadOf, FollowersBound
  <2>2. ~(k = 0) /\ ~(b0 = 240 /\ b1 < 144) /\ ~(b0 = 244 /\ b1 >= 144) /\ ~(k < 3)
    BY <1>2, <2>1 DEF decode_4byte
  <2>3. res = Decoded(Join4(b0, b1, ByteAt(s, o + 2), ByteAt(s, o + 3)), 4)
    BY <2>1, <2>2 DEF decode_4byte
  <2>4. res.byte_length = 4
    BY <2>3, DecodedLength
  <2>5. k = 3
    BY <2>1, <2>2
  <2>6. ContinuationAt(s, o + 1) /\ ContinuationAt(s, o + 2) /\ ContinuationAt(s, o + 3)
    BY <2>5, FollowersAll
  <2>7. b1 \in 128 .. 191
    BY <1>3, <2>6
  <2>8. b0 = 240 => b1 >= 144
    BY <2>2, <2>7
  <2>9. b0 = 244 => b1 < 144
    BY <2>2, <2>7
  <2> QED BY <1>7, <2>4, <2>6, <2>8, <2>9 DEF WellShaped
<1>8. \/ res = Decoded(b0, 1) /\ b0 <= 127
      \/ b0 \in 194 .. 223 \/ b0 \in 224 .. 239 \/ b0 \in 240 .. 244
  <2>1. \/ b0 <= 127 /\ res = Decoded(b0, 1)
        \/ b0 \in 194 .. 223 \/ b0 \in 224 .. 239 \/ b0 \in 240 .. 244
        \/ res = Malformed(1, "OrphanedContinuation")
        \/ res = Malformed(1 + Followers(s, o, 1), "Overlong")
        \/ res = Malformed(1, "InvalidLeadByte")
    BY <1>1 DEF DecodeLead, Byte
  <2> QED BY <1>2, <2>1
<1> QED BY <1>4, <1>5, <1>6, <1>7, <1>8

(* Whatever is not Ok comes with the replacement character. *)
LEMMA OkOrReplaced ==
  ASSUME NEW s, NEW o, Within(s, o)
  PROVE  \/ decode_utf8(s, o).status = "Ok"
         \/ decode_utf8(s, o).codepoint = REPLACEMENT_CHAR
<1> DEFINE b0 == ByteAt(s, o)  res == decode_utf8(s, o)
<1>1. b0 \in Byte /\ res = DecodeLead(s, o, b0)
  <2>1. ~(o >= Len(s))
    BY DEF Within
  <2> QED BY <2>1, ByteAtIsByte DEF decode_utf8
<1>2. \/ \E c, n : res = Decoded(c, n)
      \/ \E n, why : res = Malformed(n, why)
      \/ res = decode_2byte(s, o) \/ res = decode_3byte(s, o) \/ res = decode_4byte(s, o)
  <2> HIDE DEF res, b0
  <2> QED BY <1>1, LeadClasses, Zenon
<1>3. /\ \E c, n, why : decode_2byte(s, o) = Decoded(c, n) \/ decode_2byte(s, o) = Malformed(n, why)
      /\ \E c, n, why : decode_3byte(s, o) = Decoded(c, n) \/ decode_3byte(s, o) = Malformed(n, why)
      /\ \E c, n, why : decode_4byte(s, o) = Decoded(c, n) \/ decode_4byte(s, o) = Malformed(n, why)
  <2>1. \E c, n, why : decode_2byte(s, o) = Decoded(c, n) \/ decode_2byte(s, o) = Malformed(n, why)
    BY Zenon DEF decode_2byte
  <2>2. \E c, n, why : decode_3byte(s, o) = Decoded(c, n) \/ decode_3byte(s, o) = Malformed(n, why)
    BY Zenon DEF decode_3byte
  <2>3. \E c, n, why : decode_4byte(s, o) = Decoded(c, n) \/ decode_4byte(s, o) = Malformed(n, why)
    BY Zenon DEF decode_4byte
  <2> QED BY <2>1, <2>2, <2>3
<1> HIDE DEF res
<1>4. (\E c, n : res = Decoded(c, n)) \/ (\E n, why : res = Malformed(n, why))
  BY <1>2, <1>3, Zenon
<1> QED BY <1>4 DEF Decoded, Malformed, res

(* decode_utf8 accepts exactly the sequences of Table 3-7, and returns the *)
(* scalar value whose encoding form is the bytes it steps over.            *)
THEOREM DecodeUtf8Exact ==
  ASSUME NEW s, NEW o, Within(s, o)
  PROVE  LET res == decode_utf8(s, o) IN
         /\ (res.status = "Ok") = WellFormedAt(s, o)
         /\ res.status = "Ok" => DecodesTo(s, o, res, res.byte_length)
<1> DEFINE res == decode_utf8(s, o)
<1>1. ASSUME res.status = "Ok"
      PROVE  WellFormedAt(s, o) /\ DecodesTo(s, o, res, res.byte_length)
  <2>1. WellShaped(s, o, res.byte_length)
    BY <1>1, OkShape
  <2> QED BY <2>1, ShapeRow, ShapeDecodes DEF WellFormedAt
<1>2. ASSUME WellFormedAt(s, o)
      PROVE  res.status = "Ok"
  <2>1. PICK row \in WellFormedRows : Matches(s, o, row)
    BY <1>2 DEF WellFormedAt
  <2>2. WellShaped(s, o, Len(row))
    BY <2>1, RowShape
  <2> QED BY <2>2, ShapeDecodes DEF DecodesTo
<1>3. WellFormedAt(s, o) \in BOOLEAN
  BY DEF WellFormedAt
<1> HIDE DEF res
<1>4. (res.status = "Ok") = WellFormedAt(s, o)
  BY <1>1, <1>2, <1>3
<1> QED BY <1>1, <1>4 DEF res
-----------------------------------------------------------------------------
(* A set of numbers has a least element.                                   *)
LEMMA LeastBy ==
  ASSUME NEW R, NEW N, IsWellFoundedOn(R, N), NEW S, S \subseteq N, S # {}
  PROVE  \E m \in S : \A n \in S : ~(<<n, m>> \in R)
BY WFMin, Zenon

LEMMA LeastExists == \A S \in SUBSET Nat : S # {} => \E m \in S : \A n \in S : m <= n
<1> DEFINE R == OpToRel(<, Nat)
<1>1. \A a, b \in Nat : a < b => <<a, b>> \in R
  BY Zenon DEF OpToRel
<1>2. IsWellFoundedOn(R, Nat)
  BY NatLessThanWellFounded
<1> HIDE DEF R
<1> SUFFICES ASSUME NEW S \in SUBSET Nat, S # {}
             PROVE  \E m \in S : \A n \in S : m <= n
  OBVIOUS
<1>3. S \subseteq Nat
  OBVIOUS
<1>4. PICK m \in S : \A n \in S : ~(<<n, m>> \in R)
  BY <1>2, <1>3, LeastBy, Zenon
<1>5. \A n \in S : ~(n < m)
  BY <1>1, <1>3, <1>4
<1>6. \A n \in S : m <= n
  BY <1>3, <1>5
<1> QED BY <1>6

LEMMA SetInduction ==
  ASSUME NEW S, 0 \in S, \A n \in Nat : n \in S => n + 1 \in S
  PROVE  \A k \in Nat : k \in S
<1> TAKE k \in Nat
<1> SUFFICES ASSUME k \notin S PROVE FALSE
  OBVIOUS
<1>1. PICK m \in Nat \ S : \A n \in Nat \ S : m <= n
  <2>1. Nat \ S \in SUBSET Nat /\ Nat \ S # {}
    OBVIOUS
  <2> QED BY <2>1, LeastExists, Zenon
<1>2. m # 0 /\ m - 1 \in Nat /\ m - 1 \in S
  BY <1>1
<1>3. (m - 1) + 1 = m
  BY <1>1
<1> QED BY <1>1, <1>2, <1>3

(* A predicate that holds of o when o is in Base or when it holds of a     *)
(* successor of o: WellFormed and IsTrivia are of this form.  Its equation *)
(* has a solution, whatever the successors are.                            *)
Reaches(D, Base, After, f) ==
  f = [o \in D |-> o \in Base \/ \E p \in D : <<o, p>> \in After /\ f[p]]

LEMMA ReachesHasSolution ==
  ASSUME NEW D, NEW Base, NEW After
  PROVE  \E f : Reaches(D, Base, After, f)
<1> DEFINE Closed(T) ==
             \A o \in D : (o \in Base \/ \E p \in T : <<o, p>> \in After) => o \in T
           Good == {o \in D : \A T \in SUBSET D : Closed(T) => o \in T}
           f == [o \in D |-> o \in Good]
<1>1. Good \in SUBSET D
  OBVIOUS
<1>2. \A T \in SUBSET D : Closed(T) => Good \subseteq T
  OBVIOUS
<1>3. \A o \in D : (\A T \in SUBSET D : Closed(T) => o \in T) => o \in Good
  OBVIOUS
<1>4. ASSUME NEW o \in D, o \in Base \/ \E p \in Good : <<o, p>> \in After
      PROVE  o \in Good
  <2> HIDE DEF Good
  <2>1. ASSUME NEW T \in SUBSET D, Closed(T)
        PROVE  o \in T
    <3>1. Good \subseteq T
      BY <1>2, <2>1, Zenon
    <3>2. o \in Base \/ \E p \in T : <<o, p>> \in After
      BY <1>4, <3>1, Zenon
    <3> QED BY <2>1, <3>2, Zenon
  <2> HIDE DEF Closed
  <2> QED BY <1>3, <2>1, Zenon
<1>5. ASSUME NEW o \in Good, ~(o \in Base \/ \E p \in Good : <<o, p>> \in After)
      PROVE  FALSE
  <2> DEFINE T == Good \ {o}
  <2> HIDE DEF Good
  <2>1. T \in SUBSET D
    BY <1>1, Zenon
  <2>2. ASSUME NEW q \in D, q \in Base \/ \E p \in T : <<q, p>> \in After
        PROVE  q \in T
    <3>1. q \in Base \/ \E p \in Good : <<q, p>> \in After
      BY <2>2, Zenon
    <3>2. q \in Good
      BY <1>4, <3>1, Zenon
    <3>3. q # o
      BY <1>5, <3>1, Zenon
    <3> QED BY <3>2, <3>3, Zenon
  <2>3. Closed(T)
    BY <2>2, Zenon
  <2>4. Good \subseteq T
    <3> HIDE DEF T, Closed
    <3> QED BY <1>2, <2>1, <2>3, Zenon
  <2> QED BY <2>4, Zenon
<1> HIDE DEF Good, Closed
<1>6. \A o \in D : f[o] = (o \in Good)
  BY Zenon
<1>7. ASSUME NEW o \in D
      PROVE  (o \in Good) = (o \in Base \/ \E p \in D : <<o, p>> \in After /\ f[p])
  <2>1. (\E p \in D : <<o, p>> \in After /\ f[p]) <=> \E p \in Good : <<o, p>> \in After
    <3> HIDE DEF f
    <3> QED BY <1>1, <1>6, Zenon
  <2> HIDE DEF f
  <2>2. (o \in Good) <=> (o \in Base \/ \E p \in D : <<o, p>> \in After /\ f[p])
    BY <1>4, <1>5, <2>1, Zenon
  <2> QED BY <2>2
<1>8. f = [o \in D |-> o \in Base \/ \E p \in D : <<o, p>> \in After /\ f[p]]
  <2> DEFINE g == [o \in D |-> o \in Base \/ \E p \in D : <<o, p>> \in After /\ f[p]]
  <2>1. [o \in D |-> o \in Good] = g
    <3> HIDE DEF f
    <3> QED BY <1>7, Zenon
  <2> QED BY <2>1, Zenon
<1> QED BY <1>8, Zenon DEF Reaches

(* The recursive function of WellFormedFrom. *)
IsFine(s, f) ==
  f = [o \in 0 .. Len(s) |->
         \/ o = Len(s)
         \/ \E row \in WellFormedRows : Matches(s, o, row) /\ f[o + Len(row)]]

LEMMA RowsFit ==
  ASSUME NEW s \in Seq(Byte), NEW o \in 0 .. Len(s), NEW row \in WellFormedRows,
         Matches(s, o, row)
  PROVE  /\ Within(s, o) /\ WellShaped(s, o, Len(row))
         /\ Len(row) \in 1 .. 4 /\ o + Len(row) \in 0 .. Len(s)
<1>1. o \in Nat /\ Len(s) \in Nat /\ o <= Len(s)
  OBVIOUS
<1>2. o < Len(s)
  <2> SUFFICES ASSUME ~(o < Len(s)) PROVE FALSE
    OBVIOUS
  <2>1. o + Len(row) <= Len(s)
    BY Zenon DEF Matches
  <2> DEFINE n == Len(row)
  <2>2. n \in 1 .. 4
    BY RowLength, Zenon
  <2>3. o + n <= Len(s)
    BY <2>1, Zenon
  <2> HIDE DEF n
  <2> QED BY <1>1, <2>2, <2>3
<1>3. Within(s, o)
  BY <1>1, <1>2 DEF Within
<1>4. WellShaped(s, o, Len(row))
  BY <1>3, RowShape
<1>5. Len(row) \in 1 .. 4 /\ o + Len(row) <= Len(s)
  BY <1>3, <1>4, ShapeDecodes
<1> QED BY <1>1, <1>3, <1>4, <1>5

LEMMA FineExists ==
  ASSUME NEW s \in Seq(Byte)
  PROVE  \E f : IsFine(s, f)
<1> DEFINE D == 0 .. Len(s)
           After == {e \in D \X D :
                      \E row \in WellFormedRows : Matches(s, e[1], row) /\ e[2] = e[1] + Len(row)}
<1>1. PICK f : Reaches(D, {Len(s)}, After, f)
  BY ReachesHasSolution, Zenon
<1>2. ASSUME NEW o \in D
      PROVE  (o \in {Len(s)} \/ \E p \in D : <<o, p>> \in After /\ f[p])
             <=> (\/ o = Len(s)
                  \/ \E row \in WellFormedRows : Matches(s, o, row) /\ f[o + Len(row)])
  <2>1. \A p \in D : <<o, p>> \in After <=>
          \E row \in WellFormedRows : Matches(s, o, row) /\ p = o + Len(row)
    OBVIOUS
  <2>2. \A row \in WellFormedRows : Matches(s, o, row) => o + Len(row) \in D
    BY RowsFit
  <2> HIDE DEF After, D
  <2> QED BY <2>1, <2>2, Zenon
<1>3. f = [o \in D |-> o \in {Len(s)} \/ \E p \in D : <<o, p>> \in After /\ f[p]]
  BY <1>1, Zenon DEF Reaches
<1> HIDE DEF After, D
<1>4. f = [o \in D |-> \/ o = Len(s)
                      \/ \E row \in WellFormedRows : Matches(s, o, row) /\ f[o + Len(row)]]
  BY <1>2, <1>3, Zenon
<1> QED BY <1>4, Zenon DEF IsFine, D

LEMMA WellFormedFromIsFine ==
  ASSUME NEW s \in Seq(Byte)
  PROVE  \E f : IsFine(s, f) /\ \A o : WellFormedFrom(s, o) = f[o]
<1> DEFINE F == CHOOSE f : IsFine(s, f)
<1>1. IsFine(s, F)
  BY FineExists, Zenon
<1>2. \A o : WellFormedFrom(s, o) = F[o]
  BY Zenon DEF WellFormedFrom, IsFine
<1> QED BY <1>1, <1>2, Zenon

(* Reading s one decode at a time decides whether the rest is well-formed. *)
LEMMA WellFormedFromStep ==
  ASSUME NEW s \in Seq(Byte), NEW o \in 0 .. Len(s)
  PROVE  /\ WellFormedFrom(s, o) \in BOOLEAN
         /\ o = Len(s) => WellFormedFrom(s, o)
         /\ o < Len(s) =>
              LET res == decode_utf8(s, o) IN
              WellFormedFrom(s, o) <=>
                res.status = "Ok" /\ WellFormedFrom(s, o + res.byte_length)
<1>1. PICK f : IsFine(s, f) /\ \A p : WellFormedFrom(s, p) = f[p]
  BY WellFormedFromIsFine, Zenon
<1>2. f[o] = (\/ o = Len(s)
              \/ \E row \in WellFormedRows : Matches(s, o, row) /\ f[o + Len(row)])
  BY <1>1, Zenon DEF IsFine
<1>3. ASSUME o < Len(s)
      PROVE  f[o] <=> /\ decode_utf8(s, o).status = "Ok"
                      /\ f[o + decode_utf8(s, o).byte_length]
  <2> DEFINE res == decode_utf8(s, o)
  <2>1. Within(s, o) /\ o # Len(s)
    BY <1>3 DEF Within
  <2>2. ASSUME NEW row \in WellFormedRows, Matches(s, o, row)
        PROVE  res.status = "Ok" /\ res.byte_length = Len(row)
    <3>1. WellShaped(s, o, Len(row))
      BY <2>1, <2>2, RowShape
    <3> QED BY <2>1, <3>1, ShapeDecodes DEF DecodesTo
  <2>3. ASSUME res.status = "Ok"
        PROVE  \E row \in WellFormedRows : Len(row) = res.byte_length /\ Matches(s, o, row)
    BY <2>1, <2>3, OkShape, ShapeRow
  <2> HIDE DEF res
  <2>4. f[o] <=> res.status = "Ok" /\ f[o + res.byte_length]
    BY <1>2, <2>1, <2>2, <2>3, Zenon
  <2> QED BY <2>4 DEF res
<1>4. f[o] \in BOOLEAN
  BY <1>2, Zenon
<1> QED BY <1>1, <1>2, <1>3, <1>4, Zenon
=============================================================================
