-------------------------- MODULE Utf8StreamProofs --------------------------
(***************************************************************************)
(* Safety of the reader of Utf8Stream for every set of buffers: it stays   *)
(* within the buffer, one step never swallows a byte that could start the  *)
(* next character, each decode is exact, and the flag it ends with is the  *)
(* validity of the whole buffer.  Behind it what becomes of what it reads: *)
(* the search of a table of ranges, the classes of the code points and the *)
(* casts of the bytes.                                                     *)
(***************************************************************************)
EXTENDS CastProperties, Utf8Theorems

(* The inductive invariant: types; what was stepped over last is one decode*)
(* whose length fits at its offset; and the buffer is well-formed when no  *)
(* flag is up and what is left of it is.                                   *)
LatestFits ==
  latest # <<>> =>
    /\ Within(input, Latest.at)
    /\ Latest.res = decode_utf8(input, Latest.at)
    /\ m_pos = Latest.at + Latest.res.byte_length
    /\ DecodeFits(input, Latest.at, Latest.res)
FlagSoFar ==
  WellFormedFrom(input, 0) <=> ~has_malformed /\ WellFormedFrom(input, m_pos)
IInv == TypeOK /\ LatestFits /\ FlagSoFar

LEMMA InitIInv == Init => IInv
<1> SUFFICES ASSUME Init PROVE IInv
  OBVIOUS
<1>1. input \in Seq(Byte)
  BY BuffersAssumption DEF Init
<1>2. m_pos \in 0 .. Len(input)
  BY <1>1 DEF Init
<1>3. /\ latest = <<>>
      /\ latest \in Seq([at : Nat, res : DecodeResult]) /\ Len(latest) <= 1
  BY DEF Init
<1>4. has_malformed \in BOOLEAN
  BY DEF Init
<1>5. FlagSoFar
  BY DEF Init, FlagSoFar
<1> QED BY <1>1, <1>2, <1>3, <1>4, <1>5 DEF IInv, TypeOK, LatestFits

LEMMA NextIInv == IInv /\ [Next]_vars => IInv'
<1> SUFFICES ASSUME IInv, [Next]_vars PROVE IInv'
  OBVIOUS
<1>1. CASE advance_with_utf8_check
  <2> DEFINE res == decode_utf8(input, m_pos)
             item == [at |-> m_pos, res |-> res]
  <2>1. Within(input, m_pos)
    BY <1>1 DEF IInv, TypeOK, advance_with_utf8_check, Within
  <2>2. DecodeFits(input, m_pos, res)
    BY <2>1, DecodeUtf8Fits
  <2>3. /\ res \in DecodeResult /\ res.byte_length \in 1 .. 4
        /\ m_pos + res.byte_length <= Len(input)
    BY <2>2 DEF DecodeFits, DecodeResult
  <2>4. /\ m_pos' = m_pos + res.byte_length
        /\ has_malformed' \in BOOLEAN
        /\ latest' = <<item>>
        /\ input' = input
    BY <1>1 DEF advance_with_utf8_check, IInv, TypeOK
  <2> HIDE DEF res
  <2>5. item \in [at : Nat, res : DecodeResult]
    BY <2>3 DEF IInv, TypeOK
  <2>6. /\ latest' \in Seq([at : Nat, res : DecodeResult])
        /\ Len(latest') = 1 /\ latest'[1] = item
    BY <2>4, <2>5
  <2>7. TypeOK'
    BY <2>3, <2>4, <2>6 DEF IInv, TypeOK
  <2>8. LatestFits'
    BY <2>1, <2>2, <2>3, <2>4, <2>6 DEF IInv, TypeOK, LatestFits, Latest, res
  <2>9. FlagSoFar'
    <3>1. m_pos \in 0 .. Len(input) /\ m_pos < Len(input) /\ input \in Seq(Byte)
      BY <1>1 DEF IInv, TypeOK, advance_with_utf8_check
    <3>2. WellFormedFrom(input, m_pos)
          <=> res.status = "Ok" /\ WellFormedFrom(input, m_pos + res.byte_length)
      BY <3>1, WellFormedFromStep, Zenon DEF res
    <3>3. has_malformed' = (has_malformed \/ res.status # "Ok")
      BY <1>1, Zenon DEF advance_with_utf8_check, res
    <3> QED BY <2>4, <3>2, <3>3, Zenon DEF IInv, FlagSoFar
  <2> QED BY <2>7, <2>8, <2>9 DEF IInv
<1>2. CASE UNCHANGED vars
  BY <1>2 DEF vars, IInv, TypeOK, LatestFits, Latest, FlagSoFar
<1> QED BY <1>1, <1>2 DEF Next

LEMMA IInvHolds == Spec => []IInv
BY InitIInv, NextIInv, PTL DEF Spec

(* The reader never leaves the buffer, whatever bytes the buffer holds.    *)
THEOREM TypeCorrect == Spec => []TypeOK
<1>1. IInv => TypeOK
  BY DEF IInv
<1> QED BY <1>1, IInvHolds, PTL

(* One step covers, after its first byte, nothing but continuation bytes.  *)
THEOREM Resynchronises == Spec => []SwallowsOnlyContinuations
<1>1. IInv => SwallowsOnlyContinuations
  <2> SUFFICES ASSUME IInv, latest # <<>>,
                      NEW o \in Latest.at + 1 .. m_pos - 1
               PROVE  ContinuationAt(input, o)
    BY DEF SwallowsOnlyContinuations
  <2> DEFINE at == Latest.at
             n == Latest.res.byte_length
  <2>1. /\ at \in Nat /\ m_pos = at + n
        /\ n \in 1 .. 4
        /\ \A i \in 1 .. n - 1 : ContinuationAt(input, at + i)
    <3>1. Latest.res \in DecodeResult
      BY DEF IInv, LatestFits, DecodeFits
    <3>2. Latest.res.byte_length \in 1 .. 4
      BY <3>1 DEF DecodeResult
    <3> QED BY <3>2 DEF IInv, LatestFits, DecodeFits, Within
  <2> HIDE DEF at, n
  <2>2. o - at \in 1 .. n - 1 /\ at + (o - at) = o
    BY <2>1 DEF at
  <2> QED BY <2>1, <2>2
<1> QED BY <1>1, IInvHolds, PTL

(* The status of every decode is Ok exactly at a sequence of Table 3-7, and*)
(* the code point is then the scalar value its bytes encode.               *)
THEOREM DecodeIsExact == Spec => []DecodesExactlyTheWellFormed
<1>1. IInv => DecodesExactlyTheWellFormed
  <2> SUFFICES ASSUME IInv, latest # <<>>
               PROVE  LET r == Latest.res IN
                      /\ (r.status = "Ok") = WellFormedAt(input, Latest.at)
                      /\ r.status = "Ok" =>
                           /\ IsScalarValue(r.codepoint)
                           /\ Slice(Latest.at, m_pos) = Encode(r.codepoint)
    BY DEF DecodesExactlyTheWellFormed
  <2>1. /\ Within(input, Latest.at)
        /\ Latest.res = decode_utf8(input, Latest.at)
        /\ m_pos = Latest.at + Latest.res.byte_length
    BY DEF IInv, LatestFits
  <2> DEFINE at == Latest.at  r == Latest.res
  <2>2. /\ (r.status = "Ok") = WellFormedAt(input, at)
        /\ r.status = "Ok" => DecodesTo(input, at, r, r.byte_length)
    BY <2>1, DecodeUtf8Exact
  <2> HIDE DEF at, r
  <2>3. r.status = "Ok" => IsScalarValue(r.codepoint)
                           /\ Slice(at, m_pos) = Encode(r.codepoint)
    BY <2>1, <2>2 DEF DecodesTo, Slice, at, r
  <2> QED BY <2>2, <2>3 DEF at, r
<1> QED BY <1>1, IInvHolds, PTL

(* At the end of the buffer has_malformed says whether it is well-formed:  *)
(* no error is lost and none invented, wherever the steps fall.            *)
THEOREM FlagIsExact == Spec => []FlagIsValidity
<1>1. IInv => FlagIsValidity
  <2> SUFFICES ASSUME IInv, m_pos = Len(input)
               PROVE  has_malformed = ~WellFormed(input)
    BY DEF FlagIsValidity
  <2>1. /\ WellFormedFrom(input, m_pos) /\ has_malformed \in BOOLEAN
        /\ WellFormedFrom(input, 0) \in BOOLEAN
    BY WellFormedFromStep DEF IInv, TypeOK
  <2>2. WellFormedFrom(input, 0) <=> ~has_malformed
    BY <2>1, Zenon DEF IInv, FlagSoFar
  <2> QED BY <2>1, <2>2, Zenon DEF WellFormed
<1> QED BY <1>1, IInvHolds, PTL
-----------------------------------------------------------------------------
(* The halving, as upper_bound defines it. *)
IsSearch(ranges, cp, among) ==
  among = [len \in Nat |->
             [first \in Nat |->
                LET half == len \div 2
                    middle == first + half
                IN IF len = 0 THEN first
                   ELSE IF cp < ranges[middle].first THEN among[half][first]
                   ELSE among[len - half - 1][middle + 1]]]

(* The places that are still in doubt after one look, of the len from first*)
(* on: how many, and the first of them.                                    *)
Left(ranges, cp, len, first) ==
  IF cp < ranges[first + len \div 2].first THEN <<len \div 2, first>>
  ELSE <<len - len \div 2 - 1, first + len \div 2 + 1>>

LEMMA LeftIs ==
  ASSUME NEW ranges, NEW cp, NEW len \in Nat, NEW first \in Nat, len # 0
  PROVE  LET half == len \div 2  left == Left(ranges, cp, len, first) IN
         /\ half \in Nat /\ half < len
         /\ \/ cp < ranges[first + half].first /\ left = <<half, first>>
            \/ ~(cp < ranges[first + half].first)
               /\ left = <<len - half - 1, first + half + 1>>
         /\ left \in Nat \X Nat /\ left[1] < len
<1> DEFINE half == len \div 2
<1>1. half \in Nat /\ half < len
  OBVIOUS
<1>2. Left(ranges, cp, len, first) =
        IF cp < ranges[first + half].first THEN <<half, first>>
        ELSE <<len - half - 1, first + half + 1>>
  BY DEF Left
<1> HIDE DEF half
<1>3. len - half - 1 \in Nat /\ first + half + 1 \in Nat /\ len - half - 1 < len
  BY <1>1
<1>4. CASE cp < ranges[first + half].first
  BY <1>1, <1>2, <1>4 DEF half
<1>5. CASE ~(cp < ranges[first + half].first)
  <2>1. Left(ranges, cp, len, first) = <<len - half - 1, first + half + 1>>
    BY <1>2, <1>5
  <2> QED BY <1>1, <1>3, <1>5, <2>1 DEF half
<1> QED BY <1>4, <1>5

LEMMA SearchExists ==
  ASSUME NEW ranges, NEW cp
  PROVE  \E among : IsSearch(ranges, cp, among)
<1> DEFINE D == Nat \X Nat
           After == {e \in D \X D : e[1][1] # 0 /\ e[2] = Left(ranges, cp, e[1][1], e[1][2])}
           Is(v, g) == Reaches(D, {<<0, v>>}, After, g)
           G(v) == CHOOSE g : Is(v, g)
           Ends(d) == {v \in Nat : G(v)[d]}
           Pick(S) == CHOOSE v : v \in S
           among == [len \in Nat |-> [first \in Nat |-> Pick(Ends(<<len, first>>))]]
<1>1. \A v : Is(v, G(v))
  <2> TAKE v
  <2>1. \E g : Is(v, g)
    BY ReachesHasSolution, Zenon
  <2> QED BY <2>1, Zenon
<1>2. ASSUME NEW v, NEW d \in D
      PROVE  G(v)[d] = (d \in {<<0, v>>} \/ \E p \in D : <<d, p>> \in After /\ G(v)[p])
  <2> HIDE DEF G, D, After
  <2>1. G(v) = [o \in D |-> o \in {<<0, v>>} \/ \E p \in D : <<o, p>> \in After /\ G(v)[p]]
    BY <1>1, Zenon DEF Reaches
  <2> QED BY <2>1, Zenon
<1>3. ASSUME NEW first \in Nat
      PROVE  Ends(<<0, first>>) = {first}
  <2>1. <<0, first>> \in D /\ \A p : ~(<<<<0, first>>, p>> \in After)
    OBVIOUS
  <2>2. \A v \in Nat : G(v)[<<0, first>>] <=> <<0, first>> \in {<<0, v>>}
    <3> HIDE DEF G, D, After
    <3> QED BY <1>2, <2>1, Zenon
  <2>3. \A v \in Nat : <<0, first>> \in {<<0, v>>} <=> v = first
    OBVIOUS
  <2> HIDE DEF G
  <2> QED BY <2>2, <2>3
<1>4. ASSUME NEW len \in Nat, NEW first \in Nat, len # 0
      PROVE  Ends(<<len, first>>) = Ends(Left(ranges, cp, len, first))
  <2> DEFINE left == Left(ranges, cp, len, first)
  <2>1. left \in D
    BY <1>4, LeftIs
  <2>2. <<len, first>> \in D /\ \A v : ~(<<len, first>> \in {<<0, v>>})
    BY <1>4
  <2>3. \A p \in D : <<<<len, first>>, p>> \in After <=> p = left
    BY <1>4
  <2> HIDE DEF left
  <2>4. \A v \in Nat : G(v)[<<len, first>>] <=> G(v)[left]
    <3> HIDE DEF G, D, After
    <3>1. \A v, d : d \in D =>
            (G(v)[d] <=> (d \in {<<0, v>>} \/ \E p \in D : <<d, p>> \in After /\ G(v)[p]))
      BY <1>2, Zenon
    <3>2. \A v : (\E p \in D : <<<<len, first>>, p>> \in After /\ G(v)[p]) <=> G(v)[left]
      BY <2>1, <2>3, Zenon
    <3> QED BY <2>2, <3>1, <3>2, Zenon
  <2> HIDE DEF G
  <2>5. Ends(<<len, first>>) = Ends(left)
    BY <2>4
  <2> QED BY <2>5 DEF left
<1> HIDE DEF Ends
<1>5. \A first \in Nat : Pick({first}) = first
  OBVIOUS
<1> HIDE DEF Pick
<1>6. ASSUME NEW len \in Nat, NEW first \in Nat
      PROVE  among[len][first] = Pick(Ends(<<len, first>>))
  OBVIOUS
<1> DEFINE half(len) == len \div 2
           value(len, first) ==
             IF len = 0 THEN first
             ELSE IF cp < ranges[first + half(len)].first THEN among[half(len)][first]
             ELSE among[len - half(len) - 1][first + half(len) + 1]
<1>7. ASSUME NEW len \in Nat, NEW first \in Nat
      PROVE  Pick(Ends(<<len, first>>)) = value(len, first)
  <2>1. CASE len = 0
    BY <1>3, <1>5, <2>1
  <2>2. CASE len # 0 /\ cp < ranges[first + half(len)].first
    <3>1. /\ half(len) \in Nat
          /\ Left(ranges, cp, len, first) = <<half(len), first>>
      BY <2>2, LeftIs
    <3> HIDE DEF half, among
    <3>2. Pick(Ends(<<len, first>>)) = among[half(len)][first]
      BY <1>4, <1>6, <2>2, <3>1, Zenon
    <3> QED BY <2>2, <3>2
  <2>3. CASE len # 0 /\ ~(cp < ranges[first + half(len)].first)
    <3>1. /\ len - half(len) - 1 \in Nat /\ first + half(len) + 1 \in Nat
          /\ Left(ranges, cp, len, first) = <<len - half(len) - 1, first + half(len) + 1>>
      BY <2>3, LeftIs
    <3> DEFINE rest == len - half(len) - 1
               next == first + half(len) + 1
    <3>2. rest \in Nat /\ next \in Nat /\ Left(ranges, cp, len, first) = <<rest, next>>
      BY <3>1, Zenon
    <3> HIDE DEF half, among, rest, next
    <3>3. Ends(<<len, first>>) = Ends(<<rest, next>>)
      BY <1>4, <2>3, <3>2
    <3>4. Pick(Ends(<<len, first>>)) = among[rest][next]
      BY <1>6, <3>2, <3>3, Zenon
    <3> QED BY <2>3, <3>4 DEF rest, next
  <2> QED BY <2>1, <2>2, <2>3
<1>8. among = [len \in Nat |-> [first \in Nat |-> value(len, first)]]
  <2> DEFINE other == [len \in Nat |-> [first \in Nat |-> value(len, first)]]
  <2>1. \A len \in Nat : among[len] = other[len]
    <3> HIDE DEF value, Pick
    <3> QED BY <1>7
  <2> QED BY <2>1
<1>9. IsSearch(ranges, cp, among)
  <2> HIDE DEF among
  <2> QED BY <1>8, Zenon DEF IsSearch
<1> QED BY <1>9

-----------------------------------------------------------------------------
(* One look: the search goes on among the places that are left. *)
LEMMA SearchStep ==
  ASSUME NEW ranges, NEW cp, NEW among, IsSearch(ranges, cp, among),
         NEW len \in Nat, NEW first \in Nat
  PROVE  /\ len = 0 => among[len][first] = first
         /\ len # 0 => LET left == Left(ranges, cp, len, first)
                       IN  among[len][first] = among[left[1]][left[2]]
<1> DEFINE half(n) == n \div 2
           value(n, k) ==
             IF n = 0 THEN k
             ELSE IF cp < ranges[k + half(n)].first THEN among[half(n)][k]
             ELSE among[n - half(n) - 1][k + half(n) + 1]
<1>1. among = [n \in Nat |-> [k \in Nat |-> value(n, k)]]
  BY Zenon DEF IsSearch
<1>2. among[len][first] = value(len, first)
  <2> HIDE DEF value
  <2>1. among[len] = [k \in Nat |-> value(len, k)]
    BY <1>1, Zenon
  <2> QED BY <2>1, Zenon
<1>3. CASE len = 0
  BY <1>2, <1>3
<1>4. CASE len # 0
  <2>1. CASE cp < ranges[first + half(len)].first
    <3>1. Left(ranges, cp, len, first) = <<half(len), first>>
      BY <1>4, <2>1, LeftIs
    <3>2. among[len][first] = among[half(len)][first]
      <4> HIDE DEF half
      <4> QED BY <1>2, <1>4, <2>1
    <3> HIDE DEF half
    <3> QED BY <1>4, <3>1, <3>2
  <2>2. CASE ~(cp < ranges[first + half(len)].first)
    <3>1. Left(ranges, cp, len, first) = <<len - half(len) - 1, first + half(len) + 1>>
      BY <1>4, <2>2, LeftIs
    <3>2. among[len][first] = among[len - half(len) - 1][first + half(len) + 1]
      <4> HIDE DEF half
      <4> QED BY <1>2, <1>4, <2>2
    <3> HIDE DEF half
    <3> QED BY <1>4, <3>1, <3>2
  <2> QED BY <2>1, <2>2
<1> QED BY <1>3, <1>4

LEMMA OrderedRanges ==
  ASSUME NEW ranges, Ordered(ranges)
  PROVE  Len(ranges) \in Nat /\ \A k \in 1 .. Len(ranges) :
           /\ ranges[k].first \in Nat /\ ranges[k].last \in Nat
           /\ ranges[k].first <= ranges[k].last
<1>1. ranges \in Seq([first : Nat, last : Nat]) /\ Len(ranges) \in Nat
  BY DEF Ordered
<1>2. ASSUME NEW k \in 1 .. Len(ranges)
      PROVE  ranges[k].first \in Nat /\ ranges[k].last \in Nat
  <2>1. ranges[k] \in [first : Nat, last : Nat]
    BY <1>1, ElementOfSeq, Zenon
  <2> QED BY <2>1
<1>3. \A k \in 1 .. Len(ranges) : ranges[k].first <= ranges[k].last
  BY DEF Ordered
<1> QED BY <1>1, <1>2, <1>3

(* Ranges that are apart are so over any distance. *)
LEMMA FarApart ==
  ASSUME NEW ranges, Separated(ranges), Ordered(ranges),
         NEW i \in 1 .. Len(ranges), NEW j \in 1 .. Len(ranges), i < j
  PROVE  ranges[i].last < ranges[j].first
<1> DEFINE I == {n \in Nat : i + 1 + n <= Len(ranges) => ranges[i].last < ranges[i + 1 + n].first}
<1>1. Len(ranges) \in Nat /\ \A k \in 1 .. Len(ranges) :
        /\ ranges[k].first \in Nat /\ ranges[k].last \in Nat
        /\ ranges[k].first <= ranges[k].last
  BY OrderedRanges, Zenon
<1>2. \A k \in 2 .. Len(ranges) : ranges[k - 1].last < ranges[k].first
  BY DEF Separated
<1>3. 0 \in I
  <2>1. i + 1 <= Len(ranges) => i + 1 \in 2 .. Len(ranges) /\ (i + 1) - 1 = i
    BY <1>1
  <2> QED BY <1>2, <2>1
<1>4. ASSUME NEW n \in Nat, n \in I
      PROVE  n + 1 \in I
  <2>1. SUFFICES ASSUME i + 1 + (n + 1) <= Len(ranges)
                 PROVE  ranges[i].last < ranges[i + 1 + (n + 1)].first
    OBVIOUS
  <2> DEFINE k == i + 1 + n
  <2>2. /\ k \in 1 .. Len(ranges) /\ k + 1 \in 2 .. Len(ranges) /\ (k + 1) - 1 = k
        /\ i + 1 + (n + 1) = k + 1 /\ k + 1 \in 1 .. Len(ranges)
    BY <1>1, <2>1
  <2>3. ranges[i].last < ranges[k].first
    BY <1>4, <2>2
  <2> HIDE DEF k
  <2>4. ranges[k].last < ranges[k + 1].first
    BY <1>2, <2>2
  <2> QED BY <1>1, <2>2, <2>3, <2>4
<1> HIDE DEF I
<1>5. j - i - 1 \in I
  <2>1. j - i - 1 \in Nat
    OBVIOUS
  <2> QED BY <1>3, <1>4, <2>1, SetInduction, Zenon
<1>6. i + 1 + (j - i - 1) = j
  OBVIOUS
<1> QED BY <1>5, <1>6 DEF I

(* it parts the len places from first on: the ranges in front of it begin  *)
(* at cp or before, the others behind it.                                  *)
Parts(ranges, cp, first, len, it) ==
  /\ it \in first .. first + len
  /\ \A i \in first .. it - 1 : ranges[i].first <= cp
  /\ \A i \in it .. first + len - 1 : cp < ranges[i].first

LEMMA SearchParts ==
  ASSUME NEW ranges, Separated(ranges), Ordered(ranges), NEW cp \in Nat,
         NEW among, IsSearch(ranges, cp, among)
  PROVE  \A len, first \in Nat : first # 0 /\ first + len <= Len(ranges) + 1 =>
           Parts(ranges, cp, first, len, among[len][first])
<1> DEFINE Fits(len) ==
             \A first \in Nat : first # 0 /\ first + len <= Len(ranges) + 1 =>
               Parts(ranges, cp, first, len, among[len][first])
           Bad == {len \in Nat : ~Fits(len)}
<1>0. Len(ranges) \in Nat /\ \A k \in 1 .. Len(ranges) :
        /\ ranges[k].first \in Nat /\ ranges[k].last \in Nat
        /\ ranges[k].first <= ranges[k].last
  BY OrderedRanges, Zenon
<1>1. SUFFICES ASSUME Bad # {} PROVE FALSE
  OBVIOUS
<1>2. PICK len \in Bad : \A n \in Bad : len <= n
  <2>1. Bad \in SUBSET Nat
    OBVIOUS
  <2> HIDE DEF Bad
  <2> QED BY <1>1, <2>1, LeastExists, Zenon
<1>3. \A n \in Nat : n < len => Fits(n)
  <2> SUFFICES ASSUME NEW n \in Nat, n < len, ~Fits(n) PROVE FALSE
    OBVIOUS
  <2>1. n \in Bad
    OBVIOUS
  <2> HIDE DEF Bad
  <2>2. len \in Nat /\ len <= n
    BY <1>2, <2>1 DEF Bad
  <2> QED BY <2>2
<1>4. len \in Nat /\ ~Fits(len)
  OBVIOUS
<1>5. ASSUME NEW first \in Nat, first # 0, first + len <= Len(ranges) + 1
      PROVE  Parts(ranges, cp, first, len, among[len][first])
  <2> HIDE DEF Fits, Bad
  <2>1. CASE len = 0
    <3>1. among[len][first] = first
      BY <1>4, <2>1, SearchStep
    <3> QED BY <2>1, <3>1 DEF Parts
  <2>2. CASE len # 0
    <3> DEFINE left == Left(ranges, cp, len, first)
               half == len \div 2
               it == among[len][first]
    <3>1. it = among[left[1]][left[2]]
      BY <1>4, <2>2, SearchStep
    <3>2. /\ half \in Nat /\ half < len
          /\ \/ cp < ranges[first + half].first /\ left = <<half, first>>
             \/ ~(cp < ranges[first + half].first)
                /\ left = <<len - half - 1, first + half + 1>>
      BY <1>4, <2>2, LeftIs
    <3> HIDE DEF left, half, it
    <3>3. first + half \in 1 .. Len(ranges)
      BY <1>0, <1>4, <1>5, <3>2
    <3>4. CASE cp < ranges[first + half].first /\ left = <<half, first>>
      <4>1. it = among[half][first]
        BY <3>1, <3>4
      <4>2. first + half <= Len(ranges) + 1
        BY <1>0, <3>3
      <4>3. Parts(ranges, cp, first, half, it)
        <5>1. Fits(half)
          BY <1>3, <3>2, Zenon
        <5> QED BY <1>5, <4>1, <4>2, <5>1, Zenon DEF Fits
      <4>4. it \in first .. first + len
        BY <1>4, <3>2, <4>3 DEF Parts
      <4>5. \A i \in first .. it - 1 : ranges[i].first <= cp
        BY <4>3 DEF Parts
      <4>6. ASSUME NEW i \in it .. first + len - 1
            PROVE  cp < ranges[i].first
        <5>1. CASE i < first + half
          <6>1. i \in it .. first + half - 1
            BY <3>2, <4>4, <5>1
          <6> QED BY <4>3, <6>1 DEF Parts
        <5>2. CASE i = first + half
          BY <3>4, <5>2
        <5>3. CASE i > first + half
          <6>1. i \in 1 .. Len(ranges)
            BY <1>0, <1>4, <1>5, <4>4
          <6>2. ranges[first + half].last < ranges[i].first
            BY <3>3, <5>3, <6>1, FarApart
          <6> QED BY <1>0, <3>3, <3>4, <6>1, <6>2
        <5> QED BY <3>2, <4>4, <5>1, <5>2, <5>3
      <4> QED BY <4>4, <4>5, <4>6 DEF Parts, it
    <3>5. CASE ~(cp < ranges[first + half].first)
               /\ left = <<len - half - 1, first + half + 1>>
      <4> DEFINE rest == len - half - 1
                 next == first + half + 1
      <4>1. it = among[rest][next]
        BY <3>1, <3>5
      <4>2. /\ rest \in Nat /\ rest < len /\ next \in Nat /\ next # 0
            /\ next + rest = first + len /\ next - 1 = first + half
        BY <1>4, <3>2
      <4> HIDE DEF rest
      <4>3. Parts(ranges, cp, next, rest, it)
        <5>1. Fits(rest)
          BY <1>3, <4>2, Zenon
        <5>2. next + rest <= Len(ranges) + 1
          BY <1>5, <4>2
        <5> HIDE DEF next
        <5> QED BY <4>1, <4>2, <5>1, <5>2, Zenon DEF Fits
      <4>4. it \in first .. first + len /\ it \in next .. first + len
        BY <1>4, <3>2, <4>2, <4>3 DEF Parts
      <4>5. ASSUME NEW i \in first .. it - 1
            PROVE  ranges[i].first <= cp
        <5>1. CASE i > first + half
          <6>1. i \in next .. it - 1
            BY <3>2, <4>4, <5>1
          <6> QED BY <4>3, <6>1 DEF Parts
        <5>2. CASE i = first + half
          BY <1>0, <3>3, <3>5, <5>2
        <5>3. CASE i < first + half
          <6>1. i \in 1 .. Len(ranges)
            BY <1>0, <1>4, <1>5, <4>4
          <6>2. ranges[i].last < ranges[first + half].first
            BY <3>3, <5>3, <6>1, FarApart
          <6> QED BY <1>0, <3>3, <3>5, <6>1, <6>2
        <5> QED BY <3>2, <4>4, <5>1, <5>2, <5>3
      <4>6. \A i \in it .. first + len - 1 : cp < ranges[i].first
        <5>1. next + rest - 1 = first + len - 1
          BY <1>4, <4>2
        <5> HIDE DEF next
        <5>2. \A i \in it .. next + rest - 1 : cp < ranges[i].first
          BY <4>3, Zenon DEF Parts
        <5> QED BY <5>1, <5>2
      <4> QED BY <4>4, <4>5, <4>6 DEF Parts, it
    <3> QED BY <3>2, <3>4, <3>5
  <2> QED BY <2>1, <2>2
<1>6. Fits(len)
  BY <1>5
<1> QED BY <1>4, <1>6

(* The search finds a code point exactly when a range of the table holds   *)
(* it, for every table whose ranges are in order and apart.  in_ranges,    *)
(* UnicodeData.hpp:655.                                                    *)
THEOREM LookupIsExact ==
  ASSUME NEW ranges, Separated(ranges), Ordered(ranges), NEW cp \in Nat
  PROVE  in_ranges(cp, ranges) <=> cp \in Members(ranges)
<1> DEFINE it == upper_bound(ranges, cp)
<1>1. Len(ranges) \in Nat /\ \A k \in 1 .. Len(ranges) :
        /\ ranges[k].first \in Nat /\ ranges[k].last \in Nat
        /\ ranges[k].first <= ranges[k].last
  BY OrderedRanges, Zenon
<1>2. Parts(ranges, cp, 1, Len(ranges), it)
  <2> DEFINE among == CHOOSE among : IsSearch(ranges, cp, among)
  <2>1. it = among[Len(ranges)][1]
    BY Zenon DEF upper_bound, IsSearch
  <2>2. IsSearch(ranges, cp, among)
    BY SearchExists, Zenon
  <2> HIDE DEF among, it
  <2>3. \A len, first \in Nat : first # 0 /\ first + len <= Len(ranges) + 1 =>
          Parts(ranges, cp, first, len, among[len][first])
    BY <2>2, SearchParts, Zenon
  <2>4. 1 \in Nat /\ 1 # 0 /\ 1 + Len(ranges) <= Len(ranges) + 1
    BY <1>1
  <2> QED BY <1>1, <2>1, <2>3, <2>4, Zenon
<1> HIDE DEF it
<1>3. it \in 1 .. Len(ranges) + 1
  BY <1>1, <1>2 DEF Parts
<1>4. in_ranges(cp, ranges) <=> it # 1 /\ cp <= ranges[it - 1].last
  BY DEF in_ranges, it
<1>5. ASSUME it # 1, cp <= ranges[it - 1].last
      PROVE  cp \in Members(ranges)
  <2>1. it - 1 \in 1 .. Len(ranges) /\ it - 1 \in 1 .. it - 1
    BY <1>1, <1>3, <1>5
  <2>2. ranges[it - 1].first <= cp
    BY <1>2, <2>1 DEF Parts
  <2>3. cp \in ranges[it - 1].first .. ranges[it - 1].last
    BY <1>1, <1>5, <2>1, <2>2
  <2> QED BY <2>1, <2>3 DEF Members
<1>6. ASSUME cp \in Members(ranges)
      PROVE  it # 1 /\ cp <= ranges[it - 1].last
  <2>1. PICK i \in 1 .. Len(ranges) : cp \in ranges[i].first .. ranges[i].last
    BY <1>6 DEF Members
  <2>2. ranges[i].first <= cp /\ cp <= ranges[i].last
    BY <1>1, <2>1
  <2>3. i < it
    <3>1. SUFFICES ASSUME ~(i < it) PROVE FALSE
      OBVIOUS
    <3>2. i \in it .. 1 + Len(ranges) - 1
      BY <1>1, <1>3, <3>1
    <3>3. cp < ranges[i].first
      BY <1>2, <3>2 DEF Parts
    <3> QED BY <1>1, <2>2, <3>3
  <2>4. it - 1 \in 1 .. Len(ranges) /\ it - 1 \in 1 .. it - 1 /\ i <= it - 1
    BY <1>1, <1>3, <2>3
  <2>5. CASE i = it - 1
    BY <1>3, <2>2, <2>3, <2>5
  <2>6. CASE i < it - 1
    <3>1. ranges[i].last < ranges[it - 1].first
      BY <2>4, <2>6, FarApart
    <3>2. ranges[it - 1].first <= cp
      BY <1>2, <2>4 DEF Parts
    <3> QED BY <1>1, <2>2, <2>4, <3>1, <3>2
  <2> QED BY <2>4, <2>5, <2>6
<1> QED BY <1>4, <1>5, <1>6
-----------------------------------------------------------------------------
(* A table whose ranges hold those of another holds its members. *)
LEMMA HoldsMembers ==
  ASSUME NEW outer, NEW inner, Ordered(outer), Ordered(inner), Holds(outer, inner)
  PROVE  Members(inner) \subseteq Members(outer)
<1> SUFFICES ASSUME NEW i \in 1 .. Len(inner), NEW cp \in inner[i].first .. inner[i].last
             PROVE  cp \in Members(outer)
  BY DEF Members
<1>1. PICK j \in 1 .. Len(outer) :
        outer[j].first <= inner[i].first /\ inner[i].last <= outer[j].last
  BY DEF Holds
<1>2. /\ outer[j].first \in Nat /\ outer[j].last \in Nat
      /\ inner[i].first \in Nat /\ inner[i].last \in Nat
  BY OrderedRanges
<1>3. cp \in outer[j].first .. outer[j].last
  BY <1>1, <1>2
<1> QED BY <1>3 DEF Members

LEMMA ApartMembers ==
  ASSUME NEW ranges, NEW others, Ordered(ranges), Ordered(others),
         NeverMeet(ranges, others)
  PROVE  Members(ranges) \cap Members(others) = {}
<1> SUFFICES ASSUME NEW i \in 1 .. Len(ranges), NEW j \in 1 .. Len(others),
                    NEW cp, cp \in ranges[i].first .. ranges[i].last,
                    cp \in others[j].first .. others[j].last
             PROVE  FALSE
  BY DEF Members
<1>1. ranges[i].last < others[j].first \/ others[j].last < ranges[i].first
  BY DEF NeverMeet
<1>2. /\ ranges[i].first \in Nat /\ ranges[i].last \in Nat
      /\ others[j].first \in Nat /\ others[j].last \in Nat
  BY OrderedRanges
<1> QED BY <1>1, <1>2

(* What the tables hold, each in the next. *)
LEMMA MembersNest ==
  /\ Letters \subseteq IdStarts /\ IdStarts \subseteq IdContinues
  /\ IdContinues \cap Whitespaces = {}
  /\ {133, 8232, 8233} \subseteq Whitespaces
  /\ REPLACEMENT_CHAR \notin IdContinues \cup Whitespaces
<1>1. /\ Ordered(letter_ranges)      /\ Ordered(id_start_ranges)
      /\ Ordered(id_continue_ranges) /\ Ordered(whitespace_ranges)
  BY TablesAreOrdered
<1>2. /\ Holds(id_start_ranges, letter_ranges)
      /\ Holds(id_continue_ranges, id_start_ranges)
      /\ NeverMeet(id_continue_ranges, whitespace_ranges)
      /\ {133, 8232, 8233} \subseteq Members(whitespace_ranges)
      /\ REPLACEMENT_CHAR \notin Members(id_continue_ranges) \cup Members(whitespace_ranges)
  BY TablesNest
<1>3. Members(letter_ranges) \subseteq Members(id_start_ranges)
  BY <1>1, <1>2, HoldsMembers
<1>4. Members(id_start_ranges) \subseteq Members(id_continue_ranges)
  BY <1>1, <1>2, HoldsMembers
<1>5. Members(id_continue_ranges) \cap Members(whitespace_ranges) = {}
  BY <1>1, <1>2, ApartMembers
<1> QED BY <1>2, <1>3, <1>4, <1>5 DEF Letters, IdStarts, IdContinues, Whitespaces

(* Every class is its table, for every code point.                         *)
LEMMA ClassesOf ==
  ASSUME NEW cp \in Nat
  PROVE  /\ is_letter(cp) <=> cp \in Letters
         /\ is_id_start(cp) <=> cp = LowLine \/ cp \in IdStarts
         /\ is_id_continue(cp) <=> cp \in IdContinues
         /\ is_unicode_whitespace(cp) <=>
              cp = Space \/ (cp >= AsciiEnd /\ cp \in Whitespaces)
<1>1. /\ in_ranges(cp, letter_ranges) <=> cp \in Letters
      /\ in_ranges(cp, id_start_ranges) <=> cp \in IdStarts
      /\ in_ranges(cp, id_continue_ranges) <=> cp \in IdContinues
      /\ in_ranges(cp, whitespace_ranges) <=> cp \in Whitespaces
  BY LookupIsExact, TablesAreSeparated, TablesAreOrdered, Zenon
     DEF Letters, IdStarts, IdContinues, Whitespaces
<1>2. is_unicode_line_terminator(cp) => cp \in Whitespaces
  BY MembersNest DEF is_unicode_line_terminator
<1>3. CASE cp < AsciiEnd
  <2>1. cp \in 0 .. AsciiEnd - 1 /\ ~(cp >= AsciiEnd) /\ cp # 133
    BY <1>3 DEF AsciiEnd
  <2>2. /\ cp \in Letters     <=> AsciiLetter(cp)
        /\ cp \in IdStarts    <=> AsciiLetter(cp)
        /\ cp \in IdContinues <=> AsciiLetter(cp) \/ AsciiDigit(cp) \/ cp = LowLine
    BY <2>1, TablesBelowAscii, Zenon DEF Letters, IdStarts, IdContinues
  <2>3. /\ is_letter(cp) <=> AsciiLetter(cp)
        /\ is_id_start(cp) <=> AsciiLetter(cp) \/ cp = LowLine
        /\ is_id_continue(cp) <=> AsciiLetter(cp) \/ AsciiDigit(cp) \/ cp = LowLine
        /\ is_unicode_whitespace(cp) <=> cp = Space
    BY <1>3, <2>1, Zenon DEF is_letter, is_id_start, is_id_continue, is_unicode_whitespace
  <2> QED BY <2>1, <2>2, <2>3, Zenon
<1>4. CASE ~(cp < AsciiEnd)
  <2>1. cp >= AsciiEnd /\ cp # LowLine
    BY <1>4 DEF AsciiEnd, LowLine
  <2>2. /\ is_letter(cp) <=> in_ranges(cp, letter_ranges)
        /\ is_id_start(cp) <=> in_ranges(cp, id_start_ranges)
        /\ is_id_continue(cp) <=> in_ranges(cp, id_continue_ranges)
        /\ is_unicode_whitespace(cp) <=>
             \/ cp = Space
             \/ is_unicode_line_terminator(cp) \/ in_ranges(cp, whitespace_ranges)
    BY <1>4, <2>1, Zenon DEF is_letter, is_id_start, is_id_continue, is_unicode_whitespace
  <2> QED BY <1>1, <1>2, <2>1, <2>2, Zenon
<1> QED BY <1>3, <1>4

LEMMA ClassesAreBoolean ==
  ASSUME NEW cp
  PROVE  /\ is_letter(cp) \in BOOLEAN      /\ is_id_start(cp) \in BOOLEAN
         /\ is_id_continue(cp) \in BOOLEAN /\ is_unicode_whitespace(cp) \in BOOLEAN
<1>1. \A ranges : in_ranges(cp, ranges) \in BOOLEAN
  BY DEF in_ranges
<1>2. AsciiLetter(cp) \in BOOLEAN /\ AsciiDigit(cp) \in BOOLEAN
  BY DEF AsciiLetter, AsciiDigit
<1>3. /\ is_letter(cp) \in BOOLEAN /\ is_id_start(cp) \in BOOLEAN
      /\ is_id_continue(cp) \in BOOLEAN
  BY <1>1, <1>2, Zenon DEF is_letter, is_id_start, is_id_continue
<1> QED BY <1>3, Zenon DEF is_unicode_whitespace

LEMMA MalformedIsReplaced ==
  ASSUME NEW s, NEW o, decode_utf8(s, o).status # "Ok"
  PROVE  decode_utf8(s, o).codepoint = REPLACEMENT_CHAR
<1> DEFINE Good(res) == res.status # "Ok" => res.codepoint = REPLACEMENT_CHAR
<1>1. (\A cp, n : Good(Decoded(cp, n))) /\ \A n, why : Good(Malformed(n, why))
  BY DEF Decoded, Malformed
<1> HIDE DEF Good
<1>2. Good(decode_2byte(s, o))
  BY <1>1, Zenon DEF decode_2byte
<1>3. Good(decode_3byte(s, o))
  BY <1>1, Zenon DEF decode_3byte
<1>4. Good(decode_4byte(s, o))
  BY <1>1, Zenon DEF decode_4byte
<1>5. Good(DecodeLead(s, o, ByteAt(s, o)))
  BY <1>1, <1>2, <1>3, <1>4, Zenon DEF DecodeLead
<1>6. Good(decode_utf8(s, o))
  BY <1>1, <1>5, Zenon DEF decode_utf8
<1> QED BY <1>6 DEF Good

(* The code point a reader found is in a class exactly when the class's    *)
(* table holds it: the search of in_ranges and the fast paths below 80 are *)
(* right for every code point, not only at the edges of the ranges.        *)
THEOREM ClassesAreExact == Spec => []ClassesAreTheirTables
<1>1. IInv => ClassesAreTheirTables
  <2> SUFFICES ASSUME IInv, latest # <<>>
               PROVE  LET cp == Codepoint IN
                      /\ is_letter(cp) = (cp \in Letters)
                      /\ is_id_start(cp) = (cp = LowLine \/ cp \in IdStarts)
                      /\ is_id_continue(cp) = (cp \in IdContinues)
                      /\ is_unicode_whitespace(cp) =
                           (cp = Space \/ (cp >= AsciiEnd /\ cp \in Whitespaces))
    BY DEF ClassesAreTheirTables
  <2>1. Codepoint \in Nat
    BY DEF IInv, LatestFits, DecodeFits, DecodeResult, CodePoint, Codepoint
  <2> DEFINE cp == Codepoint
  <2> HIDE DEF cp
  <2>2. /\ is_letter(cp) <=> cp \in Letters
        /\ is_id_start(cp) <=> cp = LowLine \/ cp \in IdStarts
        /\ is_id_continue(cp) <=> cp \in IdContinues
        /\ is_unicode_whitespace(cp) <=>
             cp = Space \/ (cp >= AsciiEnd /\ cp \in Whitespaces)
    BY <2>1, ClassesOf, Zenon DEF cp
  <2> QED BY <2>2, ClassesAreBoolean DEF cp
<1> QED BY <1>1, IInvHolds, PTL

(* A letter starts a word, what starts one continues one, and nothing in a *)
(* word is whitespace; a line terminator is, and malformed bytes are in    *)
(* neither class.  is_letter to is_unicode_whitespace, UnicodeData.hpp:672.*)
THEOREM ClassesAreNested == Spec => []ClassesNest
<1>1. IInv => ClassesNest
  <2> SUFFICES ASSUME IInv, latest # <<>>
               PROVE  LET cp == Codepoint IN
                      /\ is_letter(cp) => is_id_start(cp)
                      /\ is_id_start(cp) => is_id_continue(cp)
                      /\ is_id_continue(cp) => ~is_unicode_whitespace(cp)
                      /\ is_unicode_line_terminator(cp) => is_unicode_whitespace(cp)
                      /\ Latest.res.status # "Ok" =>
                           ~is_id_continue(cp) /\ ~is_unicode_whitespace(cp)
    BY DEF ClassesNest
  <2> DEFINE cp == Codepoint
  <2>1. cp \in Nat
    BY DEF IInv, LatestFits, DecodeFits, DecodeResult, CodePoint, Codepoint
  <2>2. Latest.res.status # "Ok" => cp = REPLACEMENT_CHAR
    BY MalformedIsReplaced DEF IInv, LatestFits, Codepoint
  <2> HIDE DEF cp
  <2>3. LowLine \in IdContinues /\ Space \notin IdContinues
    <3>1. LowLine \in 0 .. AsciiEnd - 1 /\ Space \in 0 .. AsciiEnd - 1
      BY DEF LowLine, Space, AsciiEnd
    <3>2. ~(AsciiLetter(Space) \/ AsciiDigit(Space) \/ Space = LowLine)
      BY DEF AsciiLetter, AsciiDigit, Space, LowLine
    <3> QED BY <3>1, <3>2, TablesBelowAscii, Zenon DEF IdContinues
  <2>4. is_unicode_line_terminator(cp) => cp >= AsciiEnd /\ cp \in Whitespaces
    BY MembersNest DEF is_unicode_line_terminator, AsciiEnd
  <2>5. REPLACEMENT_CHAR # Space
    BY DEF REPLACEMENT_CHAR, Space
  <2>6. /\ is_letter(cp) <=> cp \in Letters
        /\ is_id_start(cp) <=> cp = LowLine \/ cp \in IdStarts
        /\ is_id_continue(cp) <=> cp \in IdContinues
        /\ is_unicode_whitespace(cp) <=>
             cp = Space \/ (cp >= AsciiEnd /\ cp \in Whitespaces)
    BY <2>1, ClassesOf, Zenon
  <2>7. is_letter(cp) => is_id_start(cp)
    BY <2>6, MembersNest
  <2>8. is_id_start(cp) => is_id_continue(cp)
    BY <2>3, <2>6, MembersNest
  <2>9. is_id_continue(cp) => ~is_unicode_whitespace(cp)
    BY <2>3, <2>6, MembersNest
  <2>10. is_unicode_line_terminator(cp) => is_unicode_whitespace(cp)
    BY <2>4, <2>6
  <2>11. Latest.res.status # "Ok" => ~is_id_continue(cp) /\ ~is_unicode_whitespace(cp)
    BY <2>2, <2>5, <2>6, MembersNest
  <2> QED BY <2>7, <2>8, <2>9, <2>10, <2>11, Zenon DEF cp
<1> QED BY <1>1, IInvHolds, PTL
-----------------------------------------------------------------------------
(* NarrowCast.hpp names the types of BaseCast.hpp, BitCast.hpp some of them. *)
LEMMA WithIs ==
  ASSUME NEW f, NEW g
  PROVE  /\ DOMAIN With(f, g) = DOMAIN f \cup DOMAIN g
         /\ \A m \in DOMAIN f : With(f, g)[m] = f[m]
         /\ \A m \in DOMAIN g : m \notin DOMAIN f => With(f, g)[m] = g[m]
BY DEF With

LEMMA SameTypes ==
  /\ NC_ = C_
  /\ DOMAIN BC_ \subseteq DOMAIN C_ /\ \A m \in DOMAIN BC_ : BC_[m] = C_[m]
<1>1. NC_ = C_
  BY DEF NC_, C_, NC_FixedWidth, C_FixedWidth, NC_Characters, C_Characters,
         NC_Signed, C_Signed, NC_Unsigned, C_Unsigned
<1>2. BC_ = C_FixedWidth
  BY DEF BC_, C_FixedWidth
<1>3. /\ DOMAIN C_FixedWidth \subseteq DOMAIN C_
      /\ \A m \in DOMAIN C_FixedWidth : C_FixedWidth[m] = C_[m]
  <2> DEFINE ST == [ST |-> "size_t"]
             Begins(f) == /\ DOMAIN C_FixedWidth \subseteq DOMAIN f
                          /\ \A m \in DOMAIN C_FixedWidth : f[m] = C_FixedWidth[m]
  <2>1. \A f, g : Begins(f) => Begins(With(f, g))
    BY DEF With
  <2>2. Begins(C_FixedWidth)
    OBVIOUS
  <2> HIDE DEF ST, Begins
  <2>3. Begins(C_)
    BY <2>1, <2>2, Zenon DEF C_
  <2> QED BY <2>3, Zenon DEF Begins
<1> QED BY <1>1, <1>2, <1>3

(* The types the bytes of a text go through.                               *)
LEMMA KnownTypes ==
  /\ C_["UC"] = "unsigned char" /\ C_["UI8T"] = "uint8_t" /\ C_["C8"] = "char8_t"
  /\ C_["I"] = "int"
<1>1. C_["UI8T"] = "uint8_t"
  BY DEF C_, With, C_FixedWidth
<1>2. C_["C8"] = "char8_t"
  BY DEF C_, With, C_FixedWidth, C_Characters
<1>3. C_["I"] = "int"
  BY DEF C_, With, C_FixedWidth, C_Characters, C_Signed
<1>4. C_["UC"] = "unsigned char"
  BY DEF C_, With, C_FixedWidth, C_Characters, C_Signed, C_Unsigned
<1> QED BY <1>1, <1>2, <1>3, <1>4

(* A type that a macro names has a size, on every platform.                *)
LEMMA SizesKnown ==
  ASSUME NEW p \in Platforms, NEW m \in DOMAIN C_
  PROVE  sizeof(p, C_[m]) \in {1, 2, 4, 8}
<1> DEFINE ST == [ST |-> "size_t"]
           A == With(C_FixedWidth, C_Characters)
           B == With(A, C_Signed)
           C == With(B, C_Unsigned)
           One == {"byte", "char", "char8_t", "unsigned char", "int8_t", "uint8_t"}
           Two == {"short", "char16_t", "int16_t", "uint16_t"}
           Four == {"int", "unsigned int", "char32_t", "int32_t", "uint32_t"}
           Eight == {"long long", "unsigned long long", "int64_t", "uint64_t"}
           Long == {"long", "unsigned long"}
           Pointer == {"size_t", "ptrdiff_t", "intptr_t", "uintptr_t"}
           Known == One \cup Two \cup Four \cup Eight \cup Long \cup Pointer
<1>1. p.long \in {1, 2, 4, 8} /\ p.pointer \in {1, 2, 4, 8}
  BY DEF Platforms
<1>2. \A k \in DOMAIN C_FixedWidth : C_FixedWidth[k] \in Known
  <2>1. DOMAIN C_FixedWidth =
          {"B", "IPTR", "UIPTR", "I8T", "I16T", "I32T", "I64T",
           "UI8T", "UI16T", "UI32T", "UI64T", "PTRDIFT"}
    BY DEF C_FixedWidth
  <2>2. /\ C_FixedWidth["B"] = "byte" /\ C_FixedWidth["IPTR"] = "intptr_t"
        /\ C_FixedWidth["UIPTR"] = "uintptr_t" /\ C_FixedWidth["I8T"] = "int8_t"
        /\ C_FixedWidth["I16T"] = "int16_t" /\ C_FixedWidth["I32T"] = "int32_t"
        /\ C_FixedWidth["I64T"] = "int64_t" /\ C_FixedWidth["UI8T"] = "uint8_t"
        /\ C_FixedWidth["UI16T"] = "uint16_t" /\ C_FixedWidth["UI32T"] = "uint32_t"
        /\ C_FixedWidth["UI64T"] = "uint64_t" /\ C_FixedWidth["PTRDIFT"] = "ptrdiff_t"
    BY DEF C_FixedWidth
  <2>3. {"byte", "int16_t", "int32_t", "int64_t", "int8_t", "intptr_t", "ptrdiff_t",
         "uint16_t", "uint32_t", "uint64_t", "uint8_t", "uintptr_t"} \subseteq Known
    OBVIOUS
  <2> HIDE DEF Known
  <2> QED BY <2>1, <2>2, <2>3
<1>3. \A k \in DOMAIN C_Characters : C_Characters[k] \in Known
  <2>1. DOMAIN C_Characters = {"C", "C16", "C32", "C8"}
    BY DEF C_Characters
  <2>2. /\ C_Characters["C"] = "char" /\ C_Characters["C16"] = "char16_t"
        /\ C_Characters["C32"] = "char32_t" /\ C_Characters["C8"] = "char8_t"
    BY DEF C_Characters
  <2>3. {"char", "char16_t", "char32_t", "char8_t"} \subseteq Known
    OBVIOUS
  <2> HIDE DEF Known
  <2> QED BY <2>1, <2>2, <2>3
<1>4. \A k \in DOMAIN C_Signed : C_Signed[k] \in Known
  <2>1. DOMAIN C_Signed = {"I", "L", "LI", "LL", "LLI", "S", "SI"}
    BY DEF C_Signed
  <2>2. /\ C_Signed["I"] = "int" /\ C_Signed["L"] = "long" /\ C_Signed["LI"] = "long"
        /\ C_Signed["LL"] = "long long" /\ C_Signed["LLI"] = "long long"
        /\ C_Signed["S"] = "short" /\ C_Signed["SI"] = "short"
    BY DEF C_Signed
  <2>3. {"int", "long long", "long", "short"} \subseteq Known
    OBVIOUS
  <2> HIDE DEF Known
  <2> QED BY <2>1, <2>2, <2>3
<1>5. \A k \in DOMAIN C_Unsigned : C_Unsigned[k] \in Known
  <2>1. DOMAIN C_Unsigned = {"UC", "UI", "UL", "ULI", "ULL", "ULLI"}
    BY DEF C_Unsigned
  <2>2. /\ C_Unsigned["UC"] = "unsigned char" /\ C_Unsigned["UI"] = "unsigned int"
        /\ C_Unsigned["UL"] = "unsigned long" /\ C_Unsigned["ULI"] = "unsigned long"
        /\ C_Unsigned["ULL"] = "unsigned long long"
        /\ C_Unsigned["ULLI"] = "unsigned long long"
    BY DEF C_Unsigned
  <2>3. {"unsigned char", "unsigned int", "unsigned long long", "unsigned long"} \subseteq Known
    OBVIOUS
  <2> HIDE DEF Known
  <2> QED BY <2>1, <2>2, <2>3
<1>6. \A k \in DOMAIN ST : ST[k] \in Known
  <2>1. DOMAIN ST = {"ST"}
    OBVIOUS
  <2>2. ST["ST"] = "size_t"
    OBVIOUS
  <2>3. "size_t" \in Known
    OBVIOUS
  <2> HIDE DEF Known, ST
  <2> QED BY <2>1, <2>2, <2>3
<1>7. \A type \in Known : sizeof(p, type) \in {1, 2, 4, 8}
  <2>1. \A type \in One : sizeof(p, type) = 1
    BY DEF sizeof
  <2>2. \A type \in Two : sizeof(p, type) = 2
    BY DEF sizeof
  <2>3. \A type \in Four : sizeof(p, type) = 4
    BY DEF sizeof
  <2>4. \A type \in Eight : sizeof(p, type) = 8
    BY DEF sizeof
  <2>5. \A type \in Long : sizeof(p, type) = p.long
    BY DEF sizeof
  <2>6. \A type \in Pointer : sizeof(p, type) = p.pointer
    BY DEF sizeof
  <2> HIDE DEF One, Two, Four, Eight, Long, Pointer
  <2> QED BY <1>1, <2>1, <2>2, <2>3, <2>4, <2>5, <2>6
<1> HIDE DEF Known, ST, A, B, C
<1>8. \A f, g : (\A k \in DOMAIN f : f[k] \in Known) /\ (\A k \in DOMAIN g : g[k] \in Known)
                => \A k \in DOMAIN With(f, g) : With(f, g)[k] \in Known
  BY DEF With
<1>9. \A k \in DOMAIN A : A[k] \in Known
  BY <1>2, <1>3, <1>8, Zenon DEF A
<1>10. \A k \in DOMAIN B : B[k] \in Known
  BY <1>4, <1>8, <1>9, Zenon DEF B
<1>11. \A k \in DOMAIN C : C[k] \in Known
  BY <1>5, <1>8, <1>10, Zenon DEF C
<1>12. C_ = With(C, ST)
  BY Zenon DEF C_, A, B, C, ST
<1>13. C_[m] \in Known
  BY <1>6, <1>8, <1>11, <1>12, Zenon
<1> QED BY <1>7, <1>13, Zenon

(* A char that an unsigned type of one byte took is not negative there. *)
LEMMA ByteSurvives ==
  ASSUME NEW p \in Platforms, NEW b \in Byte, NEW m \in ConvertsToUnsigned
  PROVE  static_cast(p, C_["I"], static_cast(p, C_[m], [type |-> "char", bytes |-> <<b>>])).bytes
           = <<b, 0, 0, 0>>
<1> DEFINE char == [type |-> "char", bytes |-> <<b>>]
           byte == static_cast(p, C_[m], char)
           int == static_cast(p, C_["I"], byte)
<1>1. C_[m] \in {"unsigned char", "uint8_t", "char8_t"} /\ C_["I"] = "int"
  BY KnownTypes DEF ConvertsToUnsigned
<1>2. sizeof(p, C_[m]) = 1 /\ sizeof(p, C_["I"]) = 4
  BY <1>1 DEF sizeof
<1>3. byte.type = C_[m] /\ byte.bytes = <<b>>
  <2>1. byte.type = C_[m] /\ byte.bytes = [i \in 1 .. 1 |-> IF i <= Len(char.bytes) THEN char.bytes[i]
                                     ELSE IF Negative(p, char) THEN 255 ELSE 0]
    BY <1>2 DEF static_cast
  <2>2. [i \in 1 .. 1 |-> IF i <= Len(char.bytes) THEN char.bytes[i]
                                     ELSE IF Negative(p, char) THEN 255 ELSE 0] = <<b>>
    OBVIOUS
  <2> QED BY <2>1, <2>2
<1>4. ~Negative(p, byte)
  <2> HIDE DEF byte
  <2> QED BY <1>1, <1>3 DEF Negative, IsSigned
<1>5. int.bytes = [i \in 1 .. 4 |-> IF i <= Len(byte.bytes) THEN byte.bytes[i]
                                   ELSE IF Negative(p, byte) THEN 255 ELSE 0]
  <2> HIDE DEF byte
  <2> QED BY <1>2 DEF static_cast
<1>6. int.bytes = [i \in 1 .. 4 |-> IF i <= 1 THEN <<b>>[i] ELSE 0]
  <2> HIDE DEF byte, int
  <2>1. Len(byte.bytes) = 1
    BY <1>3
  <2> QED BY <1>3, <1>4, <1>5, <2>1
<1>7. [i \in 1 .. 4 |-> IF i <= 1 THEN <<b>>[i] ELSE 0] = <<b, 0, 0, 0>>
  OBVIOUS
<1> HIDE DEF int
<1>8. int.bytes = <<b, 0, 0, 0>>
  BY <1>6, <1>7
<1> QED BY <1>8 DEF int

(* Bytes that need not be cut or filled up stay. *)
LEMMA SameSizeStays ==
  ASSUME NEW p, NEW type, NEW v, NEW n \in Nat, sizeof(p, type) = n,
         NEW bytes, v.bytes = [i \in 1 .. n |-> bytes[i]]
  PROVE  static_cast(p, type, v) = bit_cast(type, v)
<1>1. Len(v.bytes) = n
  OBVIOUS
<1>2. [i \in 1 .. n |-> IF i <= Len(v.bytes) THEN v.bytes[i]
                        ELSE IF Negative(p, v) THEN 255 ELSE 0] = v.bytes
  BY <1>1
<1> QED BY <1>2, Zenon DEF static_cast, bit_cast

(* Every byte comes out of the casts as it went in, on every platform, and *)
(* the three families of macros agree (C_ in BaseCast.hpp, NC_ in          *)
(* NarrowCast.hpp, BC_ in BitCast.hpp).                                    *)
THEOREM BytesSurvive == Spec => []BytesSurviveTheCasts
<1>1. IInv => BytesSurviveTheCasts
  <2> SUFFICES ASSUME IInv, Len(input) \in 1 .. 2, NEW p \in Platforms
               PROVE  /\ \A i \in DOMAIN input : \A macro \in ConvertsToUnsigned :
                           LET char == [type |-> "char", bytes |-> <<input[i]>>]
                           IN  static_cast(p, C_["I"], static_cast(p, C_[macro], char)).bytes
                                 = <<input[i], 0, 0, 0>>
                      /\ \A type \in Types :
                           LET v == Value(p, type) IN
                           /\ \A macro \in DOMAIN C_ :
                                narrow_cast(p, NC_[macro], v) = static_cast(p, C_[macro], v)
                           /\ \A macro \in DOMAIN BC_ : sizeof(p, BC_[macro]) = sizeof(p, type) =>
                                bit_cast(BC_[macro], v) = static_cast(p, C_[macro], v)
    BY Zenon DEF BytesSurviveTheCasts
  <2>1. ASSUME NEW i \in DOMAIN input, NEW macro \in ConvertsToUnsigned
        PROVE  static_cast(p, C_["I"], static_cast(p, C_[macro],
                 [type |-> "char", bytes |-> <<input[i]>>])).bytes = <<input[i], 0, 0, 0>>
    <3>1. input[i] \in Byte
      BY DEF IInv, TypeOK
    <3> QED BY <3>1, ByteSurvives, Zenon
  <2>2. ASSUME NEW type \in Types, NEW macro \in DOMAIN C_
        PROVE  narrow_cast(p, NC_[macro], Value(p, type))
                 = static_cast(p, C_[macro], Value(p, type))
    BY SameTypes, Zenon DEF narrow_cast
  <2>3. ASSUME NEW type \in Types, NEW macro \in DOMAIN BC_,
               sizeof(p, BC_[macro]) = sizeof(p, type)
        PROVE  bit_cast(BC_[macro], Value(p, type))
                 = static_cast(p, C_[macro], Value(p, type))
    <3> DEFINE n == sizeof(p, type)
               bytes == [i \in 1 .. n |-> input[((i - 1) % Len(input)) + 1]]
    <3>1. BC_[macro] = C_[macro]
      BY SameTypes, Zenon
    <3>2. n \in Nat
      <4>1. PICK m \in DOMAIN C_ : type = C_[m]
        BY DEF Types
      <4>2. n \in {1, 2, 4, 8}
        BY <4>1, SizesKnown, Zenon
      <4> HIDE DEF n
      <4> QED BY <4>2
    <3>3. Value(p, type).bytes = bytes
      BY DEF Value
    <3> HIDE DEF n
    <3>4. bytes = [i \in 1 .. n |-> bytes[i]]
      OBVIOUS
    <3> HIDE DEF bytes
    <3>5. sizeof(p, C_[macro]) = n
      BY <2>3, <3>1 DEF n
    <3>6. Value(p, type).bytes = [i \in 1 .. n |-> bytes[i]]
      BY <3>3, <3>4, Zenon
    <3>7. static_cast(p, C_[macro], Value(p, type)) = bit_cast(C_[macro], Value(p, type))
      BY <3>2, <3>5, <3>6, SameSizeStays
    <3> QED BY <3>1, <3>7
  <2> QED BY <2>1, <2>2, <2>3, Zenon
<1> QED BY <1>1, IInvHolds, PTL
=============================================================================
