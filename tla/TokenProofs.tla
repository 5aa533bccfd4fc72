----------------------------- MODULE TokenProofs -----------------------------
(***************************************************************************)
(* What the tokens of every source are: strings end at their first stop,   *)
(* numbers are the longest the grammar allows, a literal is an error       *)
(* exactly when its bytes are malformed, and only trivia lies between two  *)
(* tokens.  Each part remembers, for the token that is being scanned, what *)
(* the property will say of it once it is emitted.                         *)
(***************************************************************************)
EXTENDS LexerProofs

-----------------------------------------------------------------------------
LEMMA MinOffsetIs ==
  ASSUME NEW S \in SUBSET Nat, NEW m \in S, \A p \in S : m <= p
  PROVE  MinOffset(S) = m
<1>1. \A o \in S : (\A p \in S : o <= p) => o = m
  OBVIOUS
<1>2. \E o \in S : \A p \in S : o <= p
  OBVIOUS
<1>3. MinOffset(S) \in S /\ \A p \in S : MinOffset(S) <= p
  BY <1>2 DEF MinOffset
<1> QED BY <1>1, <1>3

-----------------------------------------------------------------------------
(* The bytes the scanners look at. *)
LEMMA Peek ==
  ASSUME IInv, NEW k \in Nat
  PROVE  /\ peek_byte(k) = IF m_pos + k < Size THEN ByteAt(m_source, m_pos + k) ELSE 0
         /\ is_at_end <=> m_pos = Size
         /\ m_pos \in Nat /\ Size \in Nat /\ m_pos <= Size
         /\ m_source \in Seq(Byte) /\ Size = Len(m_source)
         /\ start.offset \in Nat /\ start \in Location
BY DEF IInv, TypeOK, peek_byte, Available, is_at_end, Size, Location

LEMMA Looking ==
  ASSUME IInv
  PROVE  /\ m_pos \in Nat /\ Size = Len(m_source) /\ Size \in Nat /\ m_pos <= Size
         /\ m_source \in Seq(Byte) /\ (is_at_end <=> m_pos = Size)
         /\ peek_byte(0) = IF m_pos < Size THEN ByteAt(m_source, m_pos) ELSE 0
         /\ peek_byte(1) = IF m_pos + 1 < Size THEN ByteAt(m_source, m_pos + 1) ELSE 0
<1>1. 0 \in Nat /\ 1 \in Nat
  OBVIOUS
<1>2. m_pos + 0 = m_pos
  BY <1>1, Peek
<1> QED BY <1>1, <1>2, Peek

LEMMA Bytes ==
  ASSUME NEW s \in Seq(Byte), NEW o \in Nat, o < Len(s)
  PROVE  Within(s, o) /\ ByteAt(s, o) \in Byte
BY DEF Within, ByteAt

(* Each label has its own actions. *)
LEMMA StepAt ==
  ASSUME Next
  PROVE  /\ pc = "idle" => tokenize \/ next_token
         /\ pc = "skip" => \/ skip_whitespace \/ skip_unicode_whitespace \/ open_comment
                           \/ dispatch \/ end_of_input
         /\ pc = "line_comment" => skip_line_comment
         /\ pc = "block_comment" => skip_block_comment
         /\ pc = "word" => scan_word \/ finish_word
         /\ pc = "number" => scan_integer_part
         /\ pc = "exponent" => try_scan_exponent
         /\ pc = "exponent_digits" => scan_exponent_digits
         /\ pc = "type_suffix" => try_scan_type_suffix
         /\ pc = "hash" => scan_hash_tag
         /\ pc = "based" => scan_based_literal
         /\ pc \in {"string", "char"} => open_literal
         /\ pc = "string_body" => scan_string_body \/ finish_string
         /\ pc \in {"string_escape", "char_escape"} => skip_escape
         /\ pc = "char_body" => scan_char_body
         /\ pc = "char_close" => finish_char
         /\ pc = "operator" => scan_operator
<1>1. /\ tokenize \/ next_token => pc = "idle"
      /\ skip_whitespace \/ skip_unicode_whitespace \/ open_comment
         \/ dispatch \/ end_of_input => pc = "skip"
      /\ skip_line_comment => pc = "line_comment"
      /\ skip_block_comment => pc = "block_comment"
  BY DEF tokenize, StartTokenize, next_token, skip_whitespace, skip_unicode_whitespace,
     open_comment, dispatch, end_of_input, skip_line_comment, skip_block_comment
<1>2. /\ scan_word \/ finish_word => pc = "word"
      /\ scan_integer_part => pc = "number"
      /\ try_scan_exponent => pc = "exponent"
      /\ scan_exponent_digits => pc = "exponent_digits"
      /\ try_scan_type_suffix => pc = "type_suffix"
      /\ scan_hash_tag => pc = "hash"
      /\ scan_based_literal => pc = "based"
      /\ scan_operator => pc = "operator"
  BY DEF scan_word, finish_word, scan_integer_part, try_scan_exponent, scan_exponent_digits,
     try_scan_type_suffix, scan_hash_tag, scan_based_literal, scan_operator
<1>3. /\ open_literal => pc \in {"string", "char"}
      /\ scan_string_body \/ finish_string => pc = "string_body"
      /\ skip_escape => pc \in {"string_escape", "char_escape"}
      /\ scan_char_body => pc = "char_body"
      /\ finish_char => pc = "char_close"
  BY DEF open_literal, scan_string_body, finish_string, skip_escape, scan_char_body, finish_char
<1> QED BY <1>1, <1>2, <1>3 DEF Next, Scan

-----------------------------------------------------------------------------
(* The token being scanned began at a byte that is not trivia, and that    *)
(* byte alone tells which scanner runs.                                    *)
StringLabel == {"string", "string_body", "string_escape"}
CharLabel   == {"char", "char_body", "char_escape", "char_close"}
NumberLabel == {"number", "exponent", "exponent_digits", "type_suffix"}
OtherLabel  == {"word", "hash", "based", "operator"}

NumberAt(s, o) == ByteIn(s, o, Digit) \/ (ByteIn(s, o, {DOT}) /\ ByteIn(s, o + 1, Digit))

OpenedBy(s, o, label) ==
  /\ o < Len(s)
  /\ label \in StringLabel <=> ByteAt(s, o) = QUOTE
  /\ label \in CharLabel <=> ByteAt(s, o) = APOSTROPHE
  /\ label \in NumberLabel <=> NumberAt(s, o)
  /\ TriviaEnds(s, o) = {}

Opening == ~Skipping => OpenedBy(m_source, start.offset, pc)

LEMMA DispatchOpens ==
  ASSUME IInv, dispatch
  PROVE  OpenedBy(m_source, m_pos, pc')
<1>1. pc = "skip" /\ ~is_at_end /\ ~InTrivia /\ pc' = Scanner
  BY DEF dispatch, Goto
<1> DEFINE b == ByteAt(m_source, m_pos)  c == ByteAt(m_source, m_pos + 1)
<1>2. /\ m_pos \in Nat /\ Size \in Nat /\ m_pos < Size /\ Size = Len(m_source)
      /\ m_source \in Seq(Byte)
  <2>1. 0 \in Nat
    OBVIOUS
  <2> QED BY <1>1, <2>1, Peek
<1>3. peek_byte(0) = b /\ b \in Byte
  BY <1>2, Bytes DEF peek_byte, Available, Size
<1>4. /\ m_pos + 1 < Size => peek_byte(1) = c /\ c \in Byte
      /\ ~(m_pos + 1 < Size) => peek_byte(1) = 0
  BY <1>2, Bytes DEF peek_byte, Available, Size
<1>5. AtNumber <=> NumberAt(m_source, m_pos)
  BY <1>2, <1>3, <1>4 DEF AtNumber, NumberAt, ByteIn, Digit, DOT
<1> HIDE DEF b, c
<1>6. TriviaEnds(m_source, m_pos) = {}
  <2>1. ~(m_pos >= Len(m_source)) /\ b \notin HorizontalSpace \cup {LF}
    BY <1>1, <1>2, <1>3 DEF InTrivia
  <2>2. ~(m_pos + 1 < Len(m_source) /\ b = SLASH /\ c = SLASH)
        /\ ~(m_pos + 1 < Len(m_source) /\ b = SLASH /\ c = STAR)
    BY <1>1, <1>2, <1>3, <1>4 DEF InTrivia
  <2>3. ~(b > 127 /\ IsWhitespace(decode_utf8(m_source, m_pos)))
    BY <1>1, <1>3 DEF InTrivia, Here
  <2> QED BY <2>1, <2>2, <2>3 DEF TriviaEnds, b, c
<1>8. /\ AtNumber => b \in Digit \cup {DOT}
      /\ b \in Digit \cup {DOT} => b # HASH /\ b # QUOTE /\ b # APOSTROPHE
      /\ b \in Digit \cup {DOT} => b \notin Alpha \cup {UNDERSCORE} /\ ~(b > 127)
      /\ b \in {HASH, QUOTE, APOSTROPHE} => b \notin Alpha \cup {UNDERSCORE} /\ ~(b > 127)
      /\ HASH # QUOTE /\ QUOTE # APOSTROPHE /\ HASH # APOSTROPHE
  BY <1>3 DEF AtNumber, Alpha, UNDERSCORE, Digit, DOT, QUOTE, APOSTROPHE, HASH
<1>9. /\ Scanner = "number" <=> AtNumber
      /\ Scanner = "string" <=> b = QUOTE
      /\ Scanner = "char" <=> b = APOSTROPHE
  <2>1. CASE AtNumber
    BY <1>3, <1>8, <2>1 DEF Scanner
  <2>2. CASE ~AtNumber /\ b = QUOTE
    BY <1>3, <1>8, <2>2 DEF Scanner
  <2>3. CASE ~AtNumber /\ b = APOSTROPHE
    BY <1>3, <1>8, <2>3 DEF Scanner
  <2>4. CASE ~AtNumber /\ b # QUOTE /\ b # APOSTROPHE
    <3>1. Scanner \in {"hash", "word", "operator"}
      BY <1>3, <2>4 DEF Scanner
    <3> QED BY <2>4, <3>1
  <2> QED BY <2>1, <2>2, <2>3, <2>4
<1>10. Scanner \in {"number", "hash", "string", "char", "word", "operator"}
  BY DEF Scanner
<1>11. /\ Scanner \in StringLabel <=> b = QUOTE
       /\ Scanner \in CharLabel <=> b = APOSTROPHE
       /\ Scanner \in NumberLabel <=> NumberAt(m_source, m_pos)
  BY <1>5, <1>9, <1>10 DEF StringLabel, CharLabel, NumberLabel
<1> QED BY <1>1, <1>2, <1>6, <1>11 DEF OpenedBy, b

(* A step inside a token stays in its scanner. *)
LEMMA ScannerStays ==
  ASSUME IInv, Next, Scans
  PROVE  /\ pc' \in StringLabel <=> pc \in StringLabel
         /\ pc' \in CharLabel <=> pc \in CharLabel
         /\ pc' \in NumberLabel <=> pc \in NumberLabel
<1>1. ~Skipping /\ pc \in Label /\ pc' \in BodyLabel
  BY DEF Scans, IInv, TypeOK
<1>2. CASE pc \in StringLabel
  <2>1. open_literal \/ scan_string_body \/ finish_string \/ skip_escape
    BY <1>2, StepAt DEF StringLabel
  <2>2. pc' \in StringLabel
    BY <1>1, <1>2, <2>1 DEF StringLabel, BodyLabel, open_literal, scan_string_body,
       finish_string, skip_escape, GotoWith, Goto, Emit
  <2> QED BY <1>2, <2>2 DEF StringLabel, CharLabel, NumberLabel
<1>3. CASE pc \in CharLabel
  <2>1. open_literal \/ scan_char_body \/ finish_char \/ skip_escape
    BY <1>3, StepAt DEF CharLabel
  <2>2. pc' \in CharLabel
    BY <1>1, <1>3, <2>1 DEF CharLabel, BodyLabel, open_literal, scan_char_body,
       finish_char, skip_escape, GotoWith, Goto, Emit
  <2> QED BY <1>3, <2>2 DEF StringLabel, CharLabel, NumberLabel
<1>4. CASE pc \in NumberLabel
  <2>1. scan_integer_part \/ try_scan_exponent \/ scan_exponent_digits \/ try_scan_type_suffix
    BY <1>4, StepAt DEF NumberLabel
  <2>2. pc' \in NumberLabel
    BY <1>1, <2>1 DEF NumberLabel, BodyLabel, scan_integer_part, try_scan_exponent,
       scan_exponent_digits, try_scan_type_suffix, GotoWith, Goto, Emit
  <2> QED BY <1>4, <2>2 DEF StringLabel, CharLabel, NumberLabel
<1>5. CASE pc \in OtherLabel
  <2>1. \/ scan_word \/ finish_word \/ scan_hash_tag
        \/ scan_based_literal \/ scan_operator
    BY <1>5, StepAt DEF OtherLabel
  <2>2. pc' \in {"word", "based"}
    BY <1>1, <2>1 DEF BodyLabel, scan_word, finish_word, scan_hash_tag,
       scan_based_literal, scan_operator, Goto, Emit
  <2> QED BY <1>5, <2>2 DEF StringLabel, CharLabel, NumberLabel, OtherLabel
<1> QED BY <1>1, <1>2, <1>3, <1>4, <1>5
     DEF Label, Skipping, StringLabel, CharLabel, NumberLabel, OtherLabel

(* What a step does to the tokens. *)
LEMMA LatestStep ==
  ASSUME IInv, Next
  PROVE  \/ tokens' = tokens
         \/ /\ tokens' # <<>> /\ Len(tokens') = Len(tokens) + 1
            /\ m_pos' = Size /\ m_pos = Size /\ end_of_input
            /\ Latest' = [kind |-> "Eof", start |-> current_location, end |-> current_location]
            /\ pc' \in {"skip", "idle"}
         \/ /\ ~Skipping /\ tokens' # <<>> /\ Len(tokens') = Len(tokens) + 1
            /\ pc' \in {"skip", "idle"}
            /\ \E kind \in TokenKind \ {"Eof"} :
                 /\ Emit(kind, start)
                 /\ Latest' = [kind |-> kind, start |-> start, end |-> current_location']
<1>1. ASSUME NEW kind, NEW from, Emit(kind, from)
      PROVE  /\ tokens' # <<>> /\ Len(tokens') = Len(tokens) + 1 /\ pc' \in {"skip", "idle"}
             /\ Latest' = [kind |-> kind, start |-> from, end |-> current_location']
  <2> DEFINE t == [kind |-> kind, start |-> from, end |-> current_location']
  <2>1. tokens' = Append(tokens, t) /\ pc' \in {"skip", "idle"}
    BY <1>1 DEF Emit, current_location
  <2> HIDE DEF t
  <2>2. tokens' # <<>> /\ Len(tokens') = Len(tokens) + 1 /\ tokens'[Len(tokens')] = t
    BY <2>1 DEF IInv, TypeOK
  <2> QED BY <2>1, <2>2 DEF Latest, t
<1>2. CASE Skips \/ dispatch \/ Scans
  BY <1>2 DEF Skips, dispatch, Scans, Goto
<1>3. CASE Emits
  BY <1>1, <1>3 DEF Emits
<1>4. CASE end_of_input
  <2>1. Emit("Eof", current_location) /\ m_pos' = m_pos /\ current_location' = current_location
        /\ is_at_end
    BY <1>4 DEF end_of_input, cursor, current_location
  <2>2. 0 \in Nat
    OBVIOUS
  <2>3. m_pos = Size
    BY <2>1, <2>2, Peek
  <2> QED BY <1>1, <1>4, <2>1, <2>3
<1> QED BY <1>2, <1>3, <1>4, StepKinds

(* Which action emits, by scanner: only try_scan_type_suffix makes a       *)
(* numeric token.                                                          *)
LEMMA EmittedBy ==
  ASSUME IInv, Next, ~Skipping, NEW kind, Emit(kind, start)
  PROVE  /\ pc \in NumberLabel => try_scan_type_suffix /\ kind = "Numeric"
         /\ pc \in StringLabel => finish_string /\ kind = LiteralKind("StringLiteral")
         /\ pc \in CharLabel => finish_char /\ kind = LiteralKind("CharLiteral")
         /\ pc \notin NumberLabel => kind # "Numeric"
<1>1. tokens' # tokens /\ tokens'[Len(tokens')].kind = kind
  BY DEF Emit, IInv, TypeOK
<1>2. \A k : Emit(k, start) => tokens'[Len(tokens')].kind = k
  BY DEF Emit, IInv, TypeOK
<1>3. \A k : Emit(k, start) => k = kind
  BY <1>1, <1>2
<1>4. /\ ~scan_integer_part /\ ~try_scan_exponent /\ ~scan_exponent_digits
      /\ ~open_literal /\ ~scan_string_body /\ ~skip_escape /\ ~scan_char_body /\ ~scan_word
  BY <1>1 DEF scan_integer_part, try_scan_exponent, scan_exponent_digits, open_literal,
     scan_string_body, skip_escape, scan_char_body, scan_word, GotoWith, Goto
<1>5. pc \in NumberLabel => try_scan_type_suffix /\ kind = "Numeric"
  <2>1. pc \in NumberLabel => try_scan_type_suffix
    BY <1>4, StepAt DEF NumberLabel
  <2> QED BY <1>3, <2>1 DEF try_scan_type_suffix
<1>6. pc \in StringLabel => finish_string /\ kind = LiteralKind("StringLiteral")
  <2>1. pc \in StringLabel => finish_string
    BY <1>4, StepAt DEF StringLabel
  <2> QED BY <1>3, <2>1 DEF finish_string
<1>7. pc \in CharLabel => finish_char /\ kind = LiteralKind("CharLiteral")
  <2>1. pc \in CharLabel => finish_char
    BY <1>4, StepAt DEF CharLabel
  <2> QED BY <1>3, <2>1 DEF finish_char
<1>8. pc \in OtherLabel => kind # "Numeric"
  <2>1. CASE finish_word
    BY <1>3, <2>1 DEF finish_word, WordKind
  <2>2. CASE scan_hash_tag
    <3>1. Emit("Error", start)
      BY <1>1, <2>2 DEF scan_hash_tag, Goto
    <3> QED BY <1>3, <3>1
  <2>3. CASE scan_based_literal
    <3>1. Emit("Error", start) \/ Emit(BasedKind, start)
      BY <2>3 DEF scan_based_literal
    <3> QED BY <1>3, <3>1 DEF BasedKind
  <2>4. CASE scan_operator
    BY <1>3, <2>4 DEF scan_operator
  <2> QED BY <1>4, <2>1, <2>2, <2>3, <2>4, StepAt DEF OtherLabel
<1>9. LiteralKind("StringLiteral") # "Numeric" /\ LiteralKind("CharLiteral") # "Numeric"
  BY DEF LiteralKind
<1>10. pc \in NumberLabel \cup StringLabel \cup CharLabel \cup OtherLabel
  BY DEF IInv, TypeOK, Label, Skipping, NumberLabel, StringLabel, CharLabel, OtherLabel
<1> QED BY <1>5, <1>6, <1>7, <1>8, <1>9, <1>10

LEMMA OpeningKept ==
  ASSUME IInv, Next, Opening
  PROVE  Opening'
<1>1. m_source' = m_source
  BY SourceStays
<1>2. CASE Skips
  BY <1>2 DEF Skips, Opening, Skipping
<1>3. CASE dispatch
  <2>1. OpenedBy(m_source, m_pos, pc') /\ start'.offset = m_pos
    BY <1>3, DispatchOpens DEF dispatch, current_location
  <2> QED BY <1>1, <2>1 DEF Opening
<1>4. CASE Scans
  <2>1. OpenedBy(m_source, start.offset, pc) /\ start' = start
    BY <1>4 DEF Scans, Opening
  <2>2. OpenedBy(m_source, start.offset, pc')
    BY <1>4, <2>1, ScannerStays DEF OpenedBy
  <2> QED BY <1>1, <2>1, <2>2 DEF Opening
<1>5. CASE Emits \/ end_of_input
  <2>1. pc' \in {"skip", "idle"}
    BY <1>5 DEF Emits, end_of_input, Emit
  <2> QED BY <2>1 DEF Opening, Skipping
<1> QED BY <1>2, <1>3, <1>4, <1>5, StepKinds

LEMMA OpeningHolds == Spec => [](IInv /\ Opening)
<1>1. Init => Opening
  BY DEF Init, Opening, Skipping
<1>2. IInv /\ Opening /\ [Next]_vars => Opening'
  <2>1. ASSUME Opening, UNCHANGED vars PROVE Opening'
    BY <2>1 DEF vars, call, locals, Opening, Skipping
  <2> QED BY <2>1, OpeningKept
<1> QED BY <1>1, <1>2, IInvHolds, NextIInv, PTL DEF Spec
-----------------------------------------------------------------------------
(* Escapes.  Exactly n backslashes stand before o, inside a literal that   *)
(* opens at from.                                                          *)
Backslashes(s, from, o, n) ==
  /\ n \in 0 .. o - from - 1
  /\ \A p \in o - n .. o - 1 : ByteAt(s, p) = BACKSLASH
  /\ o - n - 1 > from => ByteAt(s, o - n - 1) # BACKSLASH

LEMMA BackslashesExist ==
  ASSUME NEW s, NEW from \in Nat, NEW o \in Nat, from < o
  PROVE  \E n \in Nat : Backslashes(s, from, o, n)
<1> DEFINE S == {n \in Nat : n = o - from - 1 \/ ByteAt(s, o - n - 1) # BACKSLASH}
<1>1. o - from - 1 \in S
  OBVIOUS
<1>2. S \in SUBSET Nat /\ S # {}
  BY <1>1
<1>3. PICK n \in S : \A k \in S : n <= k
  BY <1>2, LeastExists, Zenon
<1>4. n \in Nat /\ n <= o - from - 1
  BY <1>1, <1>3
<1>5. ASSUME NEW p \in o - n .. o - 1 PROVE ByteAt(s, p) = BACKSLASH
  <2> DEFINE k == o - p - 1
  <2>1. k \in Nat /\ k < n /\ o - k - 1 = p
    BY <1>4
  <2>2. k \notin S
    <3>1. ~(n <= k)
      BY <1>4, <2>1
    <3> HIDE DEF S, k
    <3> QED BY <1>3, <3>1
  <2> HIDE DEF k
  <2> QED BY <2>1, <2>2
<1>6. o - n - 1 > from => ByteAt(s, o - n - 1) # BACKSLASH
  BY <1>3, <1>4
<1> QED BY <1>4, <1>5, <1>6 DEF Backslashes

LEMMA BackslashesUnique ==
  ASSUME NEW s, NEW from \in Nat, NEW o \in Nat, NEW n \in Nat, NEW m \in Nat,
         Backslashes(s, from, o, n), Backslashes(s, from, o, m)
  PROVE  n = m
<1>1. ASSUME NEW i \in Nat, NEW j \in Nat, Backslashes(s, from, o, i),
             Backslashes(s, from, o, j), i < j
      PROVE  FALSE
  <2>1. o - i - 1 \in o - j .. o - 1 /\ o - i - 1 > from
    BY <1>1 DEF Backslashes
  <2> QED BY <1>1, <2>1 DEF Backslashes
<1> QED BY <1>1

LEMMA EscapedOdd ==
  ASSUME NEW s, NEW from \in Nat, NEW o \in Nat, from < o
  PROVE  Escaped(s, from, o) <=> \E n \in Nat : Backslashes(s, from, o, n) /\ n % 2 = 1
<1>1. ASSUME NEW n \in 1 .. o - from - 1 PROVE n \in Nat /\ n \in 0 .. o - from - 1
  OBVIOUS
<1>2. ASSUME NEW n \in Nat, n \in 0 .. o - from - 1, n % 2 = 1 PROVE n \in 1 .. o - from - 1
  BY <1>2
<1> QED BY <1>1, <1>2 DEF Escaped, Backslashes

(* A byte is escaped when the one before it is a backslash that is not.    *)
LEMMA EscapedNext ==
  ASSUME NEW s, NEW from \in Nat, NEW o \in Nat, from < o
  PROVE  Escaped(s, from, o + 1) <=> ByteAt(s, o) = BACKSLASH /\ ~Escaped(s, from, o)
<1>1. o + 1 \in Nat /\ from < o + 1 /\ (o + 1) - 1 = o
  OBVIOUS
<1>2. PICK n \in Nat : Backslashes(s, from, o, n)
  BY BackslashesExist
<1>3. Escaped(s, from, o) <=> n % 2 = 1
  BY <1>2, EscapedOdd, BackslashesUnique
<1>4. CASE ByteAt(s, o) = BACKSLASH
  <2>1. Backslashes(s, from, o + 1, n + 1)
    <3>1. n + 1 \in 0 .. (o + 1) - from - 1 /\ (o + 1) - (n + 1) = o - n
      BY <1>2 DEF Backslashes
    <3>2. \A p \in o - n .. o : p \in o - n .. o - 1 \/ p = o
      OBVIOUS
    <3> QED BY <1>1, <1>2, <1>4, <3>1, <3>2 DEF Backslashes
  <2>2. n + 1 \in Nat /\ ((n + 1) % 2 = 1 <=> ~(n % 2 = 1))
    OBVIOUS
  <2>3. Escaped(s, from, o + 1) <=> (n + 1) % 2 = 1
    BY <1>1, <2>1, <2>2, EscapedOdd, BackslashesUnique
  <2> QED BY <1>3, <1>4, <2>2, <2>3
<1>5. CASE ByteAt(s, o) # BACKSLASH
  <2>1. Backslashes(s, from, o + 1, 0)
    BY <1>1, <1>5 DEF Backslashes
  <2>2. Escaped(s, from, o + 1) <=> 0 % 2 = 1
    BY <1>1, <2>1, EscapedOdd, BackslashesUnique
  <2> QED BY <1>5, <2>2
<1> QED BY <1>4, <1>5

LEMMA FirstNotEscaped ==
  ASSUME NEW s, NEW from \in Nat
  PROVE  ~Escaped(s, from, from + 1)
<1>1. 1 .. (from + 1) - from - 1 = {}
  OBVIOUS
<1> QED BY <1>1 DEF Escaped

-----------------------------------------------------------------------------
(* String literals: every stop the scanner has passed was escaped, and     *)
(* between two steps the label says whether the next byte is.              *)
StringStop == {QUOTE, LF, CR}

StringSoFar(s, from, to, label) ==
  label \in {"string_body", "string_escape"} =>
    /\ from < to
    /\ \A q \in from + 1 .. to - 1 : ByteAt(s, q) \in StringStop => Escaped(s, from, q)
    /\ to < Len(s) => (Escaped(s, from, to) <=> label = "string_escape")

StringOf(s, t) ==
  ByteIn(s, t.start.offset, {QUOTE}) =>
    /\ t.end.offset = StringEnd(s, t.start.offset)
    /\ t.kind \in {"StringLiteral", "Error"}

StringInv ==
  /\ StringSoFar(m_source, start.offset, m_pos, pc)
  /\ tokens # <<>> => StringOf(m_source, Latest)

(* Going on over bytes that are neither stops nor backslashes. *)
LEMMA StringGoesOn ==
  ASSUME NEW s, NEW from \in Nat, NEW a \in Nat, NEW b \in Nat, from < a, a < b,
         \A q \in from + 1 .. a : ByteAt(s, q) \in StringStop => Escaped(s, from, q),
         \A q \in a + 1 .. b - 1 : ByteAt(s, q) \notin StringStop,
         ~Escaped(s, from, b)
  PROVE  StringSoFar(s, from, b, "string_body")
<1>1. \A q \in from + 1 .. b - 1 : q \in from + 1 .. a \/ q \in a + 1 .. b - 1
  OBVIOUS
<1> QED BY <1>1 DEF StringSoFar

LEMMA StringElementKeeps ==
  ASSUME IInv, pc = "string_body", ~StringStops, peek_byte(0) # BACKSLASH, LiteralElement,
         StringSoFar(m_source, start.offset, m_pos, pc)
  PROVE  StringSoFar(m_source, start.offset, m_pos', "string_body")
<1> DEFINE s == m_source  from == start.offset
<1>1. /\ m_pos \in Nat /\ Size \in Nat /\ m_pos < Size /\ from \in Nat /\ s \in Seq(Byte)
      /\ ~is_at_end /\ Size = Len(s)
      /\ peek_byte(0) = ByteAt(s, m_pos)
  <2>1. ~is_at_end
    BY DEF StringStops
  <2>2. start.offset \in Nat
    BY DEF IInv, TypeOK, Location
  <2>3. m_pos < Size
    BY <2>1, Looking
  <2> QED BY <2>1, <2>2, <2>3, Looking
<1>2. /\ from < m_pos
      /\ \A q \in from + 1 .. m_pos - 1 : ByteAt(s, q) \in StringStop => Escaped(s, from, q)
  BY DEF StringSoFar
<1>3. ByteAt(s, m_pos) \notin StringStop
  BY <1>1 DEF StringStops, StringStop
<1>4. \A q \in from + 1 .. m_pos : ByteAt(s, q) \in StringStop => Escaped(s, from, q)
  BY <1>1, <1>2, <1>3
<1>5. CASE peek_byte(0) > 127
  <2> DEFINE n == Here.byte_length
  <2>1. n \in 1 .. 4 /\ m_pos + n <= Size
    BY <1>1, HereFits DEF IInv
  <2>2. m_pos' = m_pos + n
    BY <1>5 DEF LiteralElement, advance_with_utf8_check, Advance
  <2>3. \A i \in 1 .. n - 1 : ContinuationAt(s, m_pos + i)
    <3>1. Within(s, m_pos)
      BY <1>1, Bytes
    <3> QED BY <3>1, DecodeUtf8Fits DEF DecodeFits, Here
  <2> HIDE DEF n
  <2>4. ASSUME NEW q \in m_pos + 1 .. (m_pos + n) - 1
        PROVE  ByteAt(s, q) \in 128 .. 191
    <3>1. q - m_pos \in 1 .. n - 1 /\ m_pos + (q - m_pos) = q
      BY <1>1, <2>1
    <3> QED BY <2>3, <3>1 DEF ContinuationAt
  <2>5. \A q \in m_pos + 1 .. (m_pos + n) - 1 : ByteAt(s, q) \notin StringStop
    BY <2>4 DEF StringStop, QUOTE, LF, CR
  <2> DEFINE last == (m_pos + n) - 1
  <2>6. last \in Nat /\ from < last /\ last + 1 = m_pos + n /\ last \in m_pos .. (m_pos + n) - 1
    BY <1>1, <1>2, <2>1
  <2>7. ByteAt(s, last) # BACKSLASH
    <3>1. last = m_pos \/ last \in m_pos + 1 .. (m_pos + n) - 1
      BY <1>1, <2>1
    <3> HIDE DEF last
    <3>2. CASE last = m_pos
      BY <1>1, <3>2
    <3>3. CASE last \in m_pos + 1 .. (m_pos + n) - 1
      <4>1. ByteAt(s, last) \in 128 .. 191
        BY <2>4, <3>3
      <4> QED BY <4>1 DEF BACKSLASH
    <3> QED BY <3>1, <3>2, <3>3
  <2> HIDE DEF last
  <2>8. ~Escaped(s, from, m_pos + n)
    BY <1>1, <2>6, <2>7, EscapedNext
  <2>9. m_pos + n \in Nat /\ m_pos < m_pos + n
    BY <1>1, <2>1
  <2> QED BY <1>1, <1>2, <1>4, <2>2, <2>5, <2>8, <2>9, StringGoesOn
<1>6. CASE ~(peek_byte(0) > 127)
  <2>1. m_pos' = m_pos + 1
    BY <1>6 DEF LiteralElement, Advance
  <2>2. ~Escaped(s, from, m_pos + 1)
    BY <1>1, <1>2, EscapedNext
  <2>3. m_pos + 1 .. (m_pos + 1) - 1 = {} /\ m_pos + 1 \in Nat /\ m_pos < m_pos + 1
    BY <1>1
  <2> QED BY <1>1, <1>2, <1>4, <2>1, <2>2, <2>3, StringGoesOn
<1> QED BY <1>5, <1>6

LEMMA StringEscapeKeeps ==
  ASSUME IInv, pc = "string_escape", skip_escape,
         StringSoFar(m_source, start.offset, m_pos, pc)
  PROVE  StringSoFar(m_source, start.offset, m_pos', "string_body")
<1> DEFINE s == m_source  from == start.offset
<1>1. /\ m_pos \in Nat /\ Size \in Nat /\ m_pos <= Size /\ from \in Nat /\ s \in Seq(Byte)
      /\ Size = Len(s) /\ (is_at_end <=> m_pos = Size)
  <2>1. 0 \in Nat
    OBVIOUS
  <2> QED BY <2>1, Peek
<1>2. /\ from < m_pos
      /\ \A q \in from + 1 .. m_pos - 1 : ByteAt(s, q) \in StringStop => Escaped(s, from, q)
      /\ m_pos < Size => Escaped(s, from, m_pos)
  BY <1>1 DEF StringSoFar
<1>3. CASE is_at_end
  <2>1. m_pos' = m_pos
    <3>1. CASE UNCHANGED cursor
      BY <3>1 DEF cursor
    <3> QED BY <1>3, <3>1 DEF skip_escape
  <2> QED BY <1>1, <1>2, <1>3, <2>1 DEF StringSoFar
<1>4. CASE ~is_at_end
  <2>1. PICK n \in 0 .. EscapeLimit(peek_byte(0)) :
          /\ \A i \in 1 .. n : Available(i) /\ peek_byte(i) \in HexDigit
          /\ Advance(1 + n)
    BY <1>4 DEF skip_escape
  <2>2. n \in Nat
    BY DEF EscapeLimit
  <2>3. m_pos' = m_pos + 1 + n
    BY <1>1, <2>1, <2>2 DEF Advance
  <2>4. ASSUME NEW q \in m_pos + 1 .. m_pos + n PROVE ByteAt(s, q) \in HexDigit
    <3>1. q - m_pos \in 1 .. n /\ m_pos + (q - m_pos) = q /\ q - m_pos \in Nat
      BY <1>1, <2>2
    <3> QED BY <2>1, <3>1 DEF peek_byte
  <2>5. \A q \in m_pos + 1 .. (m_pos + 1 + n) - 1 :
          ByteAt(s, q) \notin StringStop /\ ByteAt(s, q) # BACKSLASH
    <3>1. (m_pos + 1 + n) - 1 = m_pos + n
      BY <1>1, <2>2
    <3> QED BY <2>4, <3>1 DEF HexDigit, Digit, StringStop, QUOTE, LF, CR, BACKSLASH
  <2>6. \A q \in from + 1 .. m_pos : ByteAt(s, q) \in StringStop => Escaped(s, from, q)
    BY <1>1, <1>2, <1>4
  <2>7. ~Escaped(s, from, m_pos + 1 + n)
    <3>1. CASE n = 0
      <4>1. ~Escaped(s, from, m_pos + 1) /\ m_pos + 1 + n = m_pos + 1
        BY <1>1, <1>2, <1>4, <3>1, EscapedNext
      <4> QED BY <4>1
    <3>2. CASE n # 0
      <4>1. m_pos + n \in m_pos + 1 .. (m_pos + 1 + n) - 1 /\ m_pos + n \in Nat
            /\ from < m_pos + n /\ (m_pos + n) + 1 = m_pos + 1 + n
        BY <1>1, <1>2, <2>2, <3>2
      <4>2. ByteAt(s, m_pos + n) # BACKSLASH
        BY <2>5, <4>1
      <4>3. ~Escaped(s, from, (m_pos + n) + 1)
        BY <1>1, <4>1, <4>2, EscapedNext
      <4> QED BY <4>1, <4>3
    <3> QED BY <3>1, <3>2
  <2>8. m_pos + 1 + n \in Nat /\ m_pos < m_pos + 1 + n
    BY <1>1, <2>2
  <2> QED BY <1>1, <1>2, <2>3, <2>5, <2>6, <2>7, <2>8, StringGoesOn
<1> QED BY <1>3, <1>4

(* The end the scanner finds is the first that the definition allows. *)
LEMMA StringEndIs ==
  ASSUME NEW s \in Seq(Byte), NEW from \in Nat, NEW o \in Nat, from < o, o <= Len(s),
         \A q \in from + 1 .. o - 1 : ByteAt(s, q) \in StringStop => Escaped(s, from, q),
         o < Len(s) => ByteAt(s, o) \in StringStop /\ ~Escaped(s, from, o)
  PROVE  StringEnd(s, from) = IF o < Len(s) /\ ByteAt(s, o) = QUOTE THEN o + 1 ELSE o
<1> DEFINE inner == from + 1 .. Len(s) - 1
           quotes == {q \in inner : ByteAt(s, q) = QUOTE /\ ~Escaped(s, from, q)}
           breaks == {q \in inner : ByteAt(s, q) \in {LF, CR} /\ ~Escaped(s, from, q)}
           S == {Len(s)} \cup {p + 1 : p \in quotes} \cup breaks
           m == IF o < Len(s) /\ ByteAt(s, o) = QUOTE THEN o + 1 ELSE o
<1>1. StringEnd(s, from) = MinOffset(S)
  BY DEF StringEnd
<1>2. Len(s) \in Nat /\ \A q \in inner : q \in Nat /\ q < Len(s)
  OBVIOUS
<1>3. S \in SUBSET Nat
  BY <1>2
<1>4. \A q \in quotes \cup breaks : q >= o /\ q \in Nat /\ q < Len(s)
  <2> SUFFICES ASSUME NEW q \in inner, ByteAt(s, q) \in StringStop, ~Escaped(s, from, q), q < o
               PROVE  FALSE
    BY <1>2 DEF StringStop
  <2>1. q \in from + 1 .. o - 1
    OBVIOUS
  <2> QED BY <2>1
<1>5. m \in S
  <2>1. CASE o < Len(s)
    <3>1. o \in inner /\ ByteAt(s, o) \in StringStop /\ ~Escaped(s, from, o)
      BY <2>1
    <3>2. CASE ByteAt(s, o) = QUOTE
      BY <2>1, <3>1, <3>2
    <3>3. CASE ByteAt(s, o) # QUOTE
      BY <2>1, <3>1, <3>3 DEF StringStop
    <3> QED BY <3>2, <3>3
  <2>2. CASE ~(o < Len(s))
    <3>1. o = Len(s)
      BY <1>2, <2>2
    <3> QED BY <2>2, <3>1
  <2> QED BY <2>1, <2>2
<1>6. ASSUME NEW p \in S PROVE m <= p
  <2>1. CASE p = Len(s)
    BY <1>2, <2>1
  <2>2. CASE \E q \in quotes : p = q + 1
    BY <1>4, <2>2
  <2>3. CASE p \in breaks
    <3>1. p >= o /\ p \in Nat
      BY <1>4, <2>3
    <3>2. p = o => m = o
      BY <2>3 DEF QUOTE, LF, CR
    <3> QED BY <3>1, <3>2
  <2> QED BY <2>1, <2>2, <2>3
<1> HIDE DEF S, m
<1>7. MinOffset(S) = m
  BY <1>3, <1>5, <1>6, MinOffsetIs
<1> QED BY <1>1, <1>7 DEF m

LEMMA FinishStringEnds ==
  ASSUME IInv, finish_string, StringSoFar(m_source, start.offset, m_pos, pc)
  PROVE  m_pos' = StringEnd(m_source, start.offset)
<1> DEFINE s == m_source  from == start.offset
<1>1. /\ m_pos \in Nat /\ Size \in Nat /\ m_pos <= Size /\ from \in Nat /\ s \in Seq(Byte)
      /\ Size = Len(s) /\ (is_at_end <=> m_pos = Size)
      /\ peek_byte(0) = IF m_pos < Size THEN ByteAt(s, m_pos) ELSE 0
  <2>1. 0 \in Nat
    OBVIOUS
  <2>2. m_pos \in Nat /\ m_pos + 0 = m_pos
    BY <2>1, Peek
  <2> QED BY <2>1, <2>2, Peek
<1>2. pc = "string_body" /\ StringStops
  BY DEF finish_string
<1>3. /\ from < m_pos
      /\ \A q \in from + 1 .. m_pos - 1 : ByteAt(s, q) \in StringStop => Escaped(s, from, q)
      /\ m_pos < Len(s) => ~Escaped(s, from, m_pos)
  BY <1>1, <1>2 DEF StringSoFar
<1>4. m_pos < Len(s) => ByteAt(s, m_pos) \in StringStop
  BY <1>1, <1>2 DEF StringStops, StringStop
<1>5. StringEnd(s, from) = IF m_pos < Len(s) /\ ByteAt(s, m_pos) = QUOTE
                           THEN m_pos + 1 ELSE m_pos
  BY <1>1, <1>3, <1>4, StringEndIs
<1>6. peek_byte(0) = QUOTE <=> m_pos < Len(s) /\ ByteAt(s, m_pos) = QUOTE
  BY <1>1 DEF QUOTE
<1>7. m_pos' = IF peek_byte(0) = QUOTE THEN m_pos + 1 ELSE m_pos
  BY DEF finish_string, Advance, cursor
<1> QED BY <1>5, <1>6, <1>7

LEMMA StringSoFarKept ==
  ASSUME IInv, Next, StringInv
  PROVE  StringSoFar(m_source, start'.offset, m_pos', pc')
<1>0. StringSoFar(m_source, start.offset, m_pos, pc)
  BY DEF StringInv
<1>1. CASE pc \in {"string", "char"}
  <2>1. open_literal /\ AtStart
    BY <1>1, StepAt DEF AtStart
  <2>2. start' = start /\ m_pos' = m_pos + 1 /\ pc' \in {"string_body", "char_body"}
    BY <2>1 DEF open_literal, GotoWith, Goto, locals, Advance
  <2>3. start = current_location /\ m_pos \in Nat /\ start.offset = m_pos
    <3>1. start = current_location /\ m_pos \in 0 .. Size
      BY <2>1 DEF IInv, ScannerEntry, TypeOK
    <3> QED BY <3>1 DEF current_location
  <2>4. m_pos + 1 .. (m_pos + 1) - 1 = {} /\ m_pos < m_pos + 1 /\ ~Escaped(m_source, m_pos, m_pos + 1)
    BY <2>3, FirstNotEscaped
  <2> QED BY <2>2, <2>3, <2>4 DEF StringSoFar
<1>2. CASE pc = "string_body"
  <2>1. CASE scan_string_body /\ peek_byte(0) = BACKSLASH
    <3>1. m_pos' = m_pos + 1 /\ start' = start /\ pc' = "string_escape" /\ ~StringStops
      BY <2>1 DEF scan_string_body, Advance, GotoWith, Goto, locals
    <3>2. m_pos \in Nat /\ start.offset \in Nat /\ m_pos < Len(m_source)
          /\ ByteAt(m_source, m_pos) = BACKSLASH
      <4>1. ~is_at_end
        BY <3>1 DEF StringStops
      <4>2. start.offset \in Nat
        BY DEF IInv, TypeOK, Location
      <4>3. m_pos < Size
        BY <4>1, Looking
      <4> QED BY <2>1, <4>2, <4>3, Looking
    <3>3. start.offset < m_pos /\ ~Escaped(m_source, start.offset, m_pos)
      BY <1>0, <1>2, <3>2 DEF StringSoFar
    <3>4. Escaped(m_source, start.offset, m_pos + 1)
      BY <3>2, <3>3, EscapedNext
    <3>5. \A q \in start.offset + 1 .. (m_pos + 1) - 1 :
            q \in start.offset + 1 .. m_pos - 1 \/ q = m_pos
      BY <3>2
    <3>6. ByteAt(m_source, m_pos) \notin StringStop
      BY <3>2 DEF StringStop, QUOTE, LF, CR, BACKSLASH
    <3>7. start.offset < m_pos + 1
      BY <3>2, <3>3
    <3>8. \A q \in start.offset + 1 .. (m_pos + 1) - 1 :
            ByteAt(m_source, q) \in StringStop => Escaped(m_source, start.offset, q)
      BY <1>0, <1>2, <3>5, <3>6 DEF StringSoFar
    <3> QED BY <3>1, <3>4, <3>7, <3>8 DEF StringSoFar
  <2>2. CASE scan_string_body /\ peek_byte(0) # BACKSLASH
    <3>1. ~StringStops /\ LiteralElement /\ pc' = "string_body"
      BY <2>2 DEF scan_string_body, Goto
    <3>2. start' = start
      BY <3>1 DEF LiteralElement, advance_with_utf8_check, locals
    <3> QED BY <1>0, <1>2, <2>2, <3>1, <3>2, StringElementKeeps
  <2>3. CASE finish_string
    BY <2>3 DEF finish_string, Emit, StringSoFar
  <2> QED BY <1>2, <2>1, <2>2, <2>3, StepAt
<1>3. CASE pc = "string_escape"
  <2>1. skip_escape
    BY <1>3, StepAt
  <2>2. start' = start /\ pc' = "string_body"
    BY <1>3, <2>1 DEF skip_escape, GotoWith, Goto, locals
  <2> QED BY <1>0, <1>3, <2>1, <2>2, StringEscapeKeeps
<1>4. CASE pc \notin {"string", "char"} /\ pc \notin StringLabel
  <2>1. pc' \notin {"string_body", "string_escape"}
    <3>1. CASE Skips
      BY <3>1 DEF Skips
    <3>2. CASE dispatch
      <4>1. Scanner \notin {"string_body", "string_escape"}
        BY DEF Scanner
      <4> QED BY <3>2, <4>1 DEF dispatch, Goto
    <3>3. CASE Scans
      BY <1>4, <3>3, ScannerStays DEF StringLabel
    <3>4. CASE Emits \/ end_of_input
      BY <3>4 DEF Emits, end_of_input, Emit
    <3> QED BY <3>1, <3>2, <3>3, <3>4, StepKinds
  <2> QED BY <2>1 DEF StringSoFar
<1> QED BY <1>1, <1>2, <1>3, <1>4 DEF StringLabel

LEMMA StringInvKept ==
  ASSUME IInv, Next, Opening, StringInv
  PROVE  StringInv'
<1>1. m_source' = m_source
  BY SourceStays
<1>2. StringSoFar(m_source, start'.offset, m_pos', pc')
  BY StringSoFarKept
<1>3. tokens' # <<>> => StringOf(m_source, Latest')
  <2>1. CASE tokens' = tokens
    BY <2>1 DEF StringInv, Latest
  <2>2. CASE m_pos = Size /\ Latest' = [kind |-> "Eof", start |-> current_location,
                                        end |-> current_location]
    <3>1. m_pos \in Nat
      BY DEF IInv, TypeOK
    <3> QED BY <2>2, <3>1 DEF StringOf, ByteIn, current_location, Size
  <2>3. ASSUME ~Skipping, NEW kind \in TokenKind, Emit(kind, start),
               Latest' = [kind |-> kind, start |-> start, end |-> current_location']
        PROVE  StringOf(m_source, Latest')
    <3> SUFFICES ASSUME ByteIn(m_source, start.offset, {QUOTE})
                 PROVE  /\ m_pos' = StringEnd(m_source, start.offset)
                        /\ kind \in {"StringLiteral", "Error"}
      BY <2>3 DEF StringOf, current_location
    <3>1. pc \in StringLabel
      BY <2>3 DEF Opening, OpenedBy, ByteIn
    <3>2. finish_string /\ kind = LiteralKind("StringLiteral")
      BY <2>3, <3>1, EmittedBy
    <3> QED BY <3>2, FinishStringEnds DEF StringInv, LiteralKind
  <2> QED BY <2>1, <2>2, <2>3, LatestStep
<1> QED BY <1>1, <1>2, <1>3 DEF StringInv

LEMMA StringInvHolds == Spec => []StringInv
<1>1. Init => StringInv
  BY DEF Init, StringInv, StringSoFar
<1>2. IInv /\ Opening /\ StringInv /\ [Next]_vars => StringInv'
  <2>1. ASSUME StringInv, UNCHANGED vars PROVE StringInv'
    BY <2>1 DEF vars, cursor, call, locals, StringInv, Latest
  <2> QED BY <2>1, StringInvKept
<1> QED BY <1>1, <1>2, OpeningHolds, PTL DEF Spec

(* A string literal of any source ends where the definition says, at the   *)
(* first unescaped quote or line break or at the end of the source, and is *)
(* nothing but a string literal or an error (scan_string_literal and       *)
(* skip_escape, Lexer.cpp): no \u escape, no malformed sequence and no run *)
(* of backslashes makes the scanner miss its stop.                         *)
THEOREM StringsEndAtFirstStop == Spec => []StringEndsAtFirstStop
<1>1. StringInv => StringEndsAtFirstStop
  BY DEF StringInv, StringEndsAtFirstStop, StringOf, NewToken
<1> QED BY <1>1, StringInvHolds, PTL
-----------------------------------------------------------------------------
(* Numeric literals.  The end the scanner has chosen for the mantissa, and *)
(* then for the exponent, is the longest; at every shorter one the source  *)
(* goes on with a byte that no suffix begins with.                         *)
LongestMantissa(s, o, m) ==
  /\ m \in MantissaEnds(s, o)
  /\ \A p \in MantissaEnds(s, o) : p = m \/ (p < m /\ ByteIn(s, p, Digit \cup {DOT}))

LongestExponent(s, m, e) ==
  /\ e \in ExponentEnds(s, m)
  /\ \A p \in ExponentEnds(s, m) : p = e \/ (p < e /\ ByteIn(s, p, Digit \cup LetterE))

NumberSoFar(s, o, to, back, label) ==
  /\ label = "exponent" => LongestMantissa(s, o, to)
  /\ label = "exponent_digits" =>
       /\ LongestMantissa(s, o, back) /\ ByteIn(s, back, LetterE)
       /\ to = IF ByteIn(s, back + 1, SIGN) THEN back + 2 ELSE back + 1
  /\ label = "type_suffix" =>
       \E m \in Nat : LongestMantissa(s, o, m) /\ LongestExponent(s, m, to)

NumericOf(s, t) ==
  /\ (t.kind = "Numeric") = (NumericEnds(s, t.start.offset) # {})
  /\ t.kind = "Numeric" =>
       /\ t.end.offset \in NumericEnds(s, t.start.offset)
       /\ \A p \in NumericEnds(s, t.start.offset) : p <= t.end.offset

NumberInv ==
  /\ NumberSoFar(m_source, start.offset, m_pos, saved.pos, pc)
  /\ tokens # <<>> => NumericOf(m_source, Latest)

(* A run of digits. *)
LEMMA DigitsAre ==
  ASSUME m_source \in Seq(Byte), NEW o \in Nat, NEW n \in Nat, Run(Digit, o, n)
  PROVE  /\ DigitsFrom(m_source, o) = o .. o + n
         /\ SomeDigitsFrom(m_source, o) = o + 1 .. o + n
         /\ \A p \in o .. o + n - 1 : ByteIn(m_source, p, Digit)
<1>1. /\ o + n <= Len(m_source) /\ Len(m_source) \in Nat
      /\ \A i \in 0 .. n - 1 : ByteAt(m_source, o + i) \in Digit
      /\ o + n < Len(m_source) => ByteAt(m_source, o + n) \notin Digit
  BY DEF Run
<1>2. \A p \in o .. o + n - 1 : ByteIn(m_source, p, Digit) /\ ByteAt(m_source, p) \in Digit
  <2> TAKE p \in o .. o + n - 1
  <2>1. p - o \in 0 .. n - 1 /\ o + (p - o) = p /\ p < Len(m_source)
    BY <1>1
  <2> QED BY <1>1, <2>1 DEF ByteIn
<1>3. ASSUME NEW p \in o .. o + n PROVE p \in DigitsFrom(m_source, o)
  <2>1. p \in o .. Len(m_source) /\ \A q \in o .. p - 1 : q \in o .. o + n - 1
    BY <1>1
  <2> QED BY <1>2, <2>1 DEF DigitsFrom
<1>4. ASSUME NEW p \in DigitsFrom(m_source, o) PROVE p \in o .. o + n
  <2>1. p \in o .. Len(m_source) /\ \A q \in o .. p - 1 : ByteAt(m_source, q) \in Digit
    BY DEF DigitsFrom
  <2>2. ~(p > o + n)
    <3> SUFFICES ASSUME p > o + n PROVE FALSE
      OBVIOUS
    <3>1. o + n \in o .. p - 1 /\ o + n < Len(m_source)
      BY <1>1, <2>1
    <3> QED BY <1>1, <2>1, <3>1
  <2> QED BY <2>1, <2>2
<1>5. DigitsFrom(m_source, o) = o .. o + n
  BY <1>3, <1>4
<1>6. o + 1 .. o + n = (o .. o + n) \ {o}
  OBVIOUS
<1> QED BY <1>2, <1>5, <1>6 DEF SomeDigitsFrom

LEMMA NoDigits ==
  ASSUME NEW s \in Seq(Byte), NEW o \in Nat, ~ByteIn(s, o, Digit)
  PROVE  SomeDigitsFrom(s, o) = {}
<1> SUFFICES ASSUME NEW p \in SomeDigitsFrom(s, o) PROVE FALSE
  OBVIOUS
<1>1. /\ p \in o .. Len(s) /\ p # o
      /\ \A q \in o .. p - 1 : ByteAt(s, q) \in Digit
  BY DEF SomeDigitsFrom, DigitsFrom
<1>2. o \in o .. p - 1 /\ o < Len(s)
  BY <1>1
<1> QED BY <1>1, <1>2 DEF ByteIn

(* Where no digit and no dot with a digit stands, there is no literal. *)
LEMMA NoNumberNoEnds ==
  ASSUME NEW s \in Seq(Byte), NEW o \in Nat, ~NumberAt(s, o)
  PROVE  NumericEnds(s, o) = {}
<1>1. SomeDigitsFrom(s, o) = {}
  BY NoDigits DEF NumberAt
<1>2. ByteIn(s, o, {DOT}) => SomeDigitsFrom(s, o + 1) = {}
  BY NoDigits DEF NumberAt
<1>3. MantissaEnds(s, o) = {}
  BY <1>1, <1>2 DEF MantissaEnds
<1> QED BY <1>3 DEF NumericEnds

(* The disjoint roles of the bytes of a number. *)
LEMMA NumberBytes ==
  ASSUME NEW s, NEW p
  PROVE  /\ ByteIn(s, p, Digit \cup {DOT}) => ~ByteIn(s, p, LetterE)
         /\ ByteIn(s, p, Digit \cup {DOT} \cup LetterE) =>
              ~ByteIn(s, p, LetterDF) /\ ~ByteIn(s, p, LetterUI)
         /\ ByteIn(s, p, Digit) => ~ByteIn(s, p, {DOT}) /\ ~ByteIn(s, p, SIGN)
         /\ ByteIn(s, p, LetterDF) => ~ByteIn(s, p, LetterUI)
<1>1. ASSUME NEW A, NEW B, A \cap B = {} PROVE ~(ByteIn(s, p, A) /\ ByteIn(s, p, B))
  BY <1>1 DEF ByteIn
<1>2. /\ (Digit \cup {DOT}) \cap LetterE = {}
      /\ (Digit \cup {DOT} \cup LetterE) \cap LetterDF = {}
      /\ (Digit \cup {DOT} \cup LetterE) \cap LetterUI = {}
      /\ Digit \cap {DOT} = {} /\ Digit \cap SIGN = {}
      /\ LetterDF \cap LetterUI = {}
  BY DEF Digit, DOT, LetterE, LetterDF, LetterUI, LetterU, SIGN
<1> QED BY <1>1, <1>2, Zenon

LEMMA IntegerPartLongest ==
  ASSUME IInv, scan_integer_part
  PROVE  LongestMantissa(m_source, start.offset, m_pos')
<1> DEFINE s == m_source  o == m_pos
<1>1. /\ o \in Nat /\ s \in Seq(Byte) /\ Size = Len(s) /\ Size \in Nat
      /\ start.offset = o /\ o < Size /\ AtNumber
  <2>1. AtStart /\ pc = "number"
    BY DEF scan_integer_part, AtStart
  <2>2. start = current_location /\ m_pos \in 0 .. Size /\ m_pos < Size /\ AtNumber
        /\ m_source \in Seq(Byte)
    BY <2>1 DEF IInv, ScannerEntry, TypeOK
  <2> QED BY <2>2 DEF current_location, Size
<1>2. PICK i \in Remaining, f \in Remaining :
        /\ Run(Digit, o, i)
        /\ IF peek_byte(i) = DOT
           THEN Run(Digit, o + i + 1, f) /\ Advance(i + 1 + f)
           ELSE f = 0 /\ Advance(i)
  BY DEF scan_integer_part
<1>3. i \in Nat /\ f \in Nat
  BY DEF Remaining
<1>4. /\ peek_byte(i) = IF o + i < Size THEN ByteAt(s, o + i) ELSE 0
      /\ peek_byte(0) = ByteAt(s, o)
      /\ peek_byte(1) = IF o + 1 < Size THEN ByteAt(s, o + 1) ELSE 0
  <2>1. 0 \in Nat /\ 1 \in Nat /\ o + 0 = o
    BY <1>1
  <2>2. peek_byte(0) = IF o + 0 < Size THEN ByteAt(s, o + 0) ELSE 0
    BY <2>1, Peek
  <2> QED BY <1>1, <1>3, <2>1, <2>2, Peek
<1>5. /\ SomeDigitsFrom(s, o) = o + 1 .. o + i
      /\ \A p \in o .. o + i - 1 : ByteIn(s, p, Digit)
  BY <1>1, <1>2, <1>3, DigitsAre
<1>6. ByteIn(s, o + i, {DOT}) <=> peek_byte(i) = DOT
  BY <1>1, <1>4 DEF ByteIn, DOT
<1>7. /\ i # 0 => ByteIn(s, o, Digit) /\ ~ByteIn(s, o, {DOT})
      /\ \A q \in o + 1 .. o + i : ByteIn(s, q, {DOT}) => q = o + i
  <2>1. i # 0 => o \in o .. o + i - 1
    BY <1>1, <1>3
  <2>2. \A q \in o + 1 .. o + i : q = o + i \/ q \in o .. o + i - 1
    BY <1>1, <1>3
  <2> QED BY <1>5, <2>1, <2>2, NumberBytes
<1>8. CASE i # 0 /\ peek_byte(i) # DOT
  <2>1. m_pos' = o + i
    BY <1>2, <1>8 DEF Advance
  <2>2. {q \in o + 1 .. o + i : ByteIn(s, q, {DOT})} = {}
    BY <1>6, <1>7, <1>8
  <2>3. MantissaEnds(s, o) = o + 1 .. o + i
    <3>1. UNION {DigitsFrom(s, p + 1) : p \in {}} = {}
      OBVIOUS
    <3> QED BY <1>5, <1>7, <1>8, <2>2, <3>1 DEF MantissaEnds
  <2>4. o + i \in o + 1 .. o + i
    BY <1>1, <1>3, <1>8
  <2>5. \A p \in o + 1 .. o + i : p = o + i \/ (p < o + i /\ p \in o .. o + i - 1)
    BY <1>1, <1>3
  <2> QED BY <1>1, <1>5, <2>1, <2>3, <2>4, <2>5 DEF LongestMantissa, ByteIn
<1>9. CASE peek_byte(i) = DOT
  <2> DEFINE d == o + i + 1
  <2>1. m_pos' = d + f /\ Run(Digit, d, f)
    <3>1. m_pos' = o + (i + 1 + f) /\ Run(Digit, o + i + 1, f)
      BY <1>2, <1>9 DEF Advance
    <3> QED BY <1>1, <1>3, <3>1
  <2>2. d \in Nat
    BY <1>1, <1>3
  <2>3. /\ DigitsFrom(s, d) = d .. d + f /\ SomeDigitsFrom(s, d) = d + 1 .. d + f
        /\ \A p \in d .. d + f - 1 : ByteIn(s, p, Digit)
    <3> HIDE DEF d
    <3> QED BY <1>1, <1>3, <2>1, <2>2, DigitsAre
  <2>4. \A p \in d .. d + f : p = d + f \/ (p < d + f /\ p \in d .. d + f - 1)
    BY <1>3, <2>2
  <2>5. CASE i # 0
    <3>1. {q \in o + 1 .. o + i : ByteIn(s, q, {DOT})} = {o + i}
      <4>1. o + i \in o + 1 .. o + i
        BY <1>1, <1>3, <2>5
      <4> QED BY <1>6, <1>7, <1>9, <4>1
    <3>2. MantissaEnds(s, o) = (o + 1 .. o + i) \cup (d .. d + f)
      <4>1. UNION {DigitsFrom(s, p + 1) : p \in {o + i}} = DigitsFrom(s, o + i + 1)
        OBVIOUS
      <4> QED BY <1>5, <1>7, <2>3, <2>5, <3>1, <4>1 DEF MantissaEnds
    <3>3. d + f \in d .. d + f /\ \A p \in o + 1 .. o + i : p < d + f
      BY <1>1, <1>3
    <3>4. \A p \in o + 1 .. o + i : ByteIn(s, p, Digit \cup {DOT})
      <4>1. \A p \in o + 1 .. o + i : p = o + i \/ p \in o .. o + i - 1
        BY <1>1, <1>3
      <4> QED BY <1>5, <1>6, <1>9, <4>1 DEF ByteIn
    <3>5. \A p \in d .. d + f - 1 : ByteIn(s, p, Digit \cup {DOT})
      BY <2>3 DEF ByteIn
    <3> HIDE DEF d
    <3> QED BY <1>1, <2>1, <2>4, <3>2, <3>3, <3>4, <3>5 DEF LongestMantissa
  <2>6. CASE i = 0
    <3>1. o + 1 .. o + i = {} /\ d = o + 1 /\ o + i = o
      BY <1>1, <2>6
    <3>2. ByteIn(s, o, {DOT})
      BY <1>6, <1>9, <3>1
    <3>3. MantissaEnds(s, o) = d + 1 .. d + f
      <4>1. UNION {DigitsFrom(s, p + 1) : p \in {q \in {} : ByteIn(s, q, {DOT})}} = {}
        OBVIOUS
      <4>2. SomeDigitsFrom(s, o) = {} /\ SomeDigitsFrom(s, o + 1) = d + 1 .. d + f
        BY <1>5, <2>3, <3>1
      <4> QED BY <3>2, <4>1, <4>2 DEF MantissaEnds
    <3>4. f # 0
      <4> SUFFICES ASSUME f = 0 PROVE FALSE
        OBVIOUS
      <4>1. ByteIn(s, d, Digit)
        <5>1. peek_byte(0) \notin Digit
          BY <1>9, <2>6 DEF Digit, DOT
        <5>2. peek_byte(1) \in Digit
          BY <1>1, <5>1 DEF AtNumber
        <5>3. o + 1 < Size /\ ByteAt(s, o + 1) \in Digit
          BY <1>4, <5>2 DEF Digit
        <5> QED BY <1>1, <3>1, <5>3 DEF ByteIn
      <4>2. d + f = d
        BY <2>2
      <4> QED BY <2>1, <4>1, <4>2 DEF Run, ByteIn
    <3>5. d + f \in d + 1 .. d + f
      BY <1>3, <2>2, <3>4
    <3>6. \A p \in d .. d + f - 1 : ByteIn(s, p, Digit \cup {DOT})
      BY <2>3 DEF ByteIn
    <3>7. \A p \in d + 1 .. d + f : p \in d .. d + f
      BY <1>3, <2>2
    <3> HIDE DEF d
    <3> QED BY <1>1, <2>1, <2>4, <3>3, <3>5, <3>6, <3>7 DEF LongestMantissa
  <2> QED BY <2>5, <2>6
<1>10. CASE i = 0 /\ peek_byte(i) # DOT
  <2>1. peek_byte(0) \in Digit
    BY <1>1, <1>10 DEF AtNumber
  <2>2. o + i = o
    BY <1>1, <1>10
  <2> QED BY <1>1, <1>2, <1>4, <2>1, <2>2 DEF Run
<1> QED BY <1>8, <1>9, <1>10

(* What a letter of an exponent may be followed by. *)
LEMMA ExponentEndsAre ==
  ASSUME NEW s \in Seq(Byte), NEW m \in Nat
  PROVE  /\ ~ByteIn(s, m, LetterE) => ExponentEnds(s, m) = {m}
         /\ ByteIn(s, m, LetterE) /\ ByteIn(s, m + 1, SIGN) =>
              ExponentEnds(s, m) = {m} \cup SomeDigitsFrom(s, m + 2)
         /\ ByteIn(s, m, LetterE) /\ ~ByteIn(s, m + 1, SIGN) =>
              ExponentEnds(s, m) = {m} \cup SomeDigitsFrom(s, m + 1)
<1>1. ByteIn(s, m + 1, SIGN) => SomeDigitsFrom(s, m + 1) = {}
  BY NoDigits, NumberBytes
<1> QED BY <1>1 DEF ExponentEnds

LEMMA ExponentDigitsLongest ==
  ASSUME IInv, scan_exponent_digits,
         NumberSoFar(m_source, start.offset, m_pos, saved.pos, pc)
  PROVE  \E m \in Nat : LongestMantissa(m_source, start.offset, m)
                        /\ LongestExponent(m_source, m, m_pos')
<1> DEFINE s == m_source  m == saved.pos
<1>1. /\ m \in Nat /\ m_pos \in Nat /\ s \in Seq(Byte) /\ Size = Len(s)
      /\ peek_byte(0) = IF m_pos < Size THEN ByteAt(s, m_pos) ELSE 0
  <2>1. 0 \in Nat
    OBVIOUS
  <2>2. m_pos \in Nat /\ m_pos + 0 = m_pos
    BY <2>1, Peek
  <2>3. m \in Nat
    BY DEF IInv, TypeOK
  <2> QED BY <2>1, <2>2, <2>3, Peek
<1>2. /\ LongestMantissa(s, start.offset, m) /\ ByteIn(s, m, LetterE)
      /\ m_pos = IF ByteIn(s, m + 1, SIGN) THEN m + 2 ELSE m + 1
  BY DEF NumberSoFar, scan_exponent_digits
<1>3. /\ ExponentEnds(s, m) = {m} \cup SomeDigitsFrom(s, m_pos)
      /\ m < m_pos
  BY <1>1, <1>2, ExponentEndsAre
<1>4. ByteIn(s, m_pos, Digit) <=> peek_byte(0) \in Digit
  BY <1>1 DEF ByteIn, Digit
<1>5. CASE peek_byte(0) \in Digit
  <2>1. PICK n \in Remaining : Run(Digit, m_pos, n) /\ Advance(n)
    BY <1>5 DEF scan_exponent_digits
  <2>2. n \in Nat /\ m_pos' = m_pos + n
    BY <2>1 DEF Advance, Remaining
  <2>3. /\ SomeDigitsFrom(s, m_pos) = m_pos + 1 .. m_pos + n
        /\ \A p \in m_pos .. m_pos + n - 1 : ByteIn(s, p, Digit)
    BY <1>1, <2>1, <2>2, DigitsAre
  <2>4. n # 0
    <3> SUFFICES ASSUME n = 0 PROVE FALSE
      OBVIOUS
    <3>1. m_pos + n = m_pos
      BY <1>1
    <3> QED BY <1>4, <1>5, <2>1, <3>1 DEF Run, ByteIn
  <2>5. m_pos + n \in m_pos + 1 .. m_pos + n /\ m < m_pos + n
    BY <1>1, <1>3, <2>2, <2>4
  <2>6. \A p \in m_pos + 1 .. m_pos + n :
          p = m_pos + n \/ (p < m_pos + n /\ p \in m_pos .. m_pos + n - 1)
    BY <1>1, <2>2
  <2>7. /\ \A p \in m_pos .. m_pos + n - 1 : ByteIn(s, p, Digit \cup LetterE)
        /\ ByteIn(s, m, Digit \cup LetterE)
    BY <1>2, <2>3 DEF ByteIn
  <2>8. LongestExponent(s, m, m_pos + n)
    BY <1>3, <2>3, <2>5, <2>6, <2>7 DEF LongestExponent
  <2> QED BY <1>1, <1>2, <2>2, <2>8
<1>6. CASE peek_byte(0) \notin Digit
  <2>1. m_pos' = m
    BY <1>6 DEF scan_exponent_digits, Rollback
  <2>2. SomeDigitsFrom(s, m_pos) = {}
    BY <1>1, <1>4, <1>6, NoDigits
  <2>3. LongestExponent(s, m, m)
    BY <1>3, <2>2 DEF LongestExponent
  <2> QED BY <1>1, <1>2, <2>1, <2>3
<1> QED BY <1>5, <1>6

LEMMA TryExponentKeeps ==
  ASSUME IInv, try_scan_exponent,
         NumberSoFar(m_source, start.offset, m_pos, saved.pos, pc)
  PROVE  NumberSoFar(m_source, start.offset, m_pos', saved'.pos, pc')
<1> DEFINE s == m_source
<1>1. /\ m_pos \in Nat /\ s \in Seq(Byte) /\ Size = Len(s)
      /\ peek_byte(0) = IF m_pos < Size THEN ByteAt(s, m_pos) ELSE 0
      /\ peek_byte(1) = IF m_pos + 1 < Size THEN ByteAt(s, m_pos + 1) ELSE 0
  <2>1. 0 \in Nat /\ 1 \in Nat
    OBVIOUS
  <2>2. m_pos \in Nat /\ m_pos + 0 = m_pos
    BY <2>1, Peek
  <2> QED BY <2>1, <2>2, Peek
<1>2. LongestMantissa(s, start.offset, m_pos) /\ saved'.pos = m_pos
  BY DEF try_scan_exponent, NumberSoFar
<1>3. /\ ByteIn(s, m_pos, LetterE) <=> peek_byte(0) \in LetterE
      /\ ByteIn(s, m_pos + 1, SIGN) <=> peek_byte(1) \in SIGN
  BY <1>1 DEF ByteIn, LetterE, SIGN
<1>4. CASE peek_byte(0) \in LetterE
  <2>1. /\ pc' = "exponent_digits"
        /\ m_pos' = m_pos + (IF peek_byte(1) \in SIGN THEN 2 ELSE 1)
    BY <1>4 DEF try_scan_exponent, Goto, Advance
  <2> QED BY <1>2, <1>3, <1>4, <2>1 DEF NumberSoFar
<1>5. CASE peek_byte(0) \notin LetterE
  <2>1. pc' = "type_suffix" /\ m_pos' = m_pos
    BY <1>5 DEF try_scan_exponent, Goto, cursor
  <2>2. ExponentEnds(s, m_pos) = {m_pos}
    BY <1>1, <1>3, <1>5, ExponentEndsAre
  <2>3. LongestExponent(s, m_pos, m_pos)
    BY <2>2 DEF LongestExponent
  <2> QED BY <1>1, <1>2, <2>1, <2>3 DEF NumberSoFar
<1> QED BY <1>4, <1>5

(* The widths, and the suffixes that end with one. *)
LEMMA WidthShape ==
  ASSUME NEW w \in Widths
  PROVE  /\ w \in Seq(Byte) /\ Len(w) \in {1, 2} /\ 1 \in 1 .. Len(w)
         /\ \A i \in 1 .. Len(w) : w[i] # 0
         /\ \A v \in Widths : v[1] = w[1] => v = w
<1>1. \A v \in Widths : v = <<51, 50>> \/ v = <<49, 54>> \/ v = <<56>>
  BY DEF Widths
<1>2. /\ <<51, 50>> \in Seq(Byte) /\ <<49, 54>> \in Seq(Byte) /\ <<56>> \in Seq(Byte)
      /\ Len(<<51, 50>>) = 2 /\ Len(<<49, 54>>) = 2 /\ Len(<<56>>) = 1
  BY DEF Byte
<1>3. /\ <<51, 50>>[1] = 51 /\ <<51, 50>>[2] = 50
      /\ <<49, 54>>[1] = 49 /\ <<49, 54>>[2] = 54
      /\ <<56>>[1] = 56
  OBVIOUS
<1>4. w \in Seq(Byte) /\ Len(w) \in {1, 2}
  BY <1>1, <1>2
<1>5. 1 \in 1 .. Len(w)
  BY <1>4
<1>6. \A i \in 1 .. Len(w) : w[i] # 0
  <2>1. CASE Len(w) = 2
    <3>1. \A i \in 1 .. Len(w) : i = 1 \/ i = 2
      BY <2>1
    <3>2. w = <<51, 50>> \/ w = <<49, 54>>
      BY <1>1, <1>2, <2>1
    <3> QED BY <1>3, <3>1, <3>2
  <2>2. CASE Len(w) = 1
    <3>1. \A i \in 1 .. Len(w) : i = 1
      BY <2>2
    <3>2. w = <<56>>
      BY <1>1, <1>2, <2>2
    <3> QED BY <1>3, <3>1, <3>2
  <2> QED BY <1>4, <2>1, <2>2
<1>7. \A v \in Widths : v[1] = w[1] => v = w
  BY <1>1, <1>3
<1> QED BY <1>4, <1>5, <1>6, <1>7

LEMMA WidthSlice ==
  ASSUME NEW s \in Seq(Byte), NEW o \in Nat, NEW w \in Widths, o + Len(w) <= Len(s)
  PROVE  Slice(s, o, o + Len(w)) = w <=> \A i \in 1 .. Len(w) : ByteAt(s, o + i - 1) = w[i]
<1> DEFINE t == Slice(s, o, o + Len(w))
<1>1. w \in Seq(Byte) /\ Len(w) \in {1, 2}
  BY WidthShape
<1>2. /\ t \in Seq(Byte) /\ Len(t) = Len(w)
      /\ \A i \in 1 .. Len(w) : t[i] = ByteAt(s, o + i - 1)
  <2> DEFINE k == Len(w)
  <2>1. k \in {1, 2} /\ o + k <= Len(s)
    BY <1>1
  <2> HIDE DEF k
  <2>2. /\ SubSeq(s, o + 1, o + k) \in Seq(Byte) /\ Len(SubSeq(s, o + 1, o + k)) = k
        /\ \A i \in 1 .. k : SubSeq(s, o + 1, o + k)[i] = s[o + i - 1 + 1]
    BY <2>1
  <2> QED BY <2>2 DEF Slice, ByteAt, k
<1> HIDE DEF t
<1>3. t = w => \A i \in 1 .. Len(w) : ByteAt(s, o + i - 1) = w[i]
  BY <1>2
<1>4. (\A i \in 1 .. Len(w) : ByteAt(s, o + i - 1) = w[i]) => t = w
  <2> SUFFICES ASSUME \A i \in 1 .. Len(w) : t[i] = w[i] PROVE t = w
    BY <1>2
  <2> QED BY <1>1, <1>2, SeqEqual
<1> QED BY <1>3, <1>4 DEF t

WidthEndsAt(s, o, w) ==
  /\ o + 1 + Len(w) <= Len(s)
  /\ Slice(s, o + 1, o + 1 + Len(w)) = w
  /\ ~ByteIn(s, o + 1 + Len(w), Digit)

LEMMA WidthAtIs ==
  ASSUME IInv, NEW w \in Widths
  PROVE  WidthAt(w) <=> WidthEndsAt(m_source, m_pos, w)
<1> DEFINE s == m_source  k == Len(w)
<1>1. /\ m_pos \in Nat /\ s \in Seq(Byte) /\ Size = Len(s) /\ Size \in Nat
  <2>1. 0 \in Nat
    OBVIOUS
  <2> QED BY <2>1, Peek
<1>2. \A i \in Nat : peek_byte(i) = IF m_pos + i < Size THEN ByteAt(s, m_pos + i) ELSE 0
  BY Peek
<1>3. /\ k \in {1, 2}
      /\ \A i \in 1 .. k : w[i] # 0
  BY WidthShape
<1> HIDE DEF k
<1>4. peek_byte(k + 1) \notin Digit <=> ~ByteIn(s, m_pos + 1 + k, Digit)
  <2>1. k + 1 \in Nat /\ m_pos + (k + 1) = m_pos + 1 + k
    BY <1>1, <1>3
  <2> DEFINE j == m_pos + 1 + k
  <2>2. peek_byte(k + 1) = IF j < Size THEN ByteAt(s, j) ELSE 0
    BY <1>2, <2>1
  <2>3. 0 \notin Digit
    BY DEF Digit
  <2> HIDE DEF j
  <2>4. peek_byte(k + 1) \notin Digit <=> ~ByteIn(s, j, Digit)
    BY <1>1, <2>2, <2>3 DEF ByteIn
  <2> QED BY <2>4 DEF j
<1>5. ASSUME \A i \in 1 .. k : peek_byte(i) = w[i]
      PROVE  /\ m_pos + 1 + k <= Size
             /\ \A i \in 1 .. k : ByteAt(s, (m_pos + 1) + i - 1) = w[i]
  <2>1. \A i \in 1 .. k : m_pos + i < Size /\ ByteAt(s, m_pos + i) = w[i]
    BY <1>2, <1>3, <1>5
  <2>2. k \in 1 .. k /\ \A i \in 1 .. k : (m_pos + 1) + i - 1 = m_pos + i
    BY <1>1, <1>3
  <2>3. m_pos + k < Size
    BY <2>1, <2>2
  <2> QED BY <1>1, <1>3, <2>1, <2>2, <2>3
<1>6. ASSUME m_pos + 1 + k <= Size, \A i \in 1 .. k : ByteAt(s, (m_pos + 1) + i - 1) = w[i]
      PROVE  \A i \in 1 .. k : peek_byte(i) = w[i]
  <2> TAKE i \in 1 .. k
  <2>1. i \in Nat /\ m_pos + i < Size /\ (m_pos + 1) + i - 1 = m_pos + i
    BY <1>1, <1>3, <1>6
  <2>2. ByteAt(s, m_pos + i) = w[i]
    BY <1>6, <2>1
  <2> QED BY <1>2, <2>1, <2>2
<1>7. m_pos + 1 + k <= Size =>
        (Slice(s, m_pos + 1, m_pos + 1 + k) = w
         <=> \A i \in 1 .. k : ByteAt(s, (m_pos + 1) + i - 1) = w[i])
  <2>1. m_pos + 1 \in Nat
    BY <1>1
  <2> QED BY <1>1, <2>1, WidthSlice DEF k
<1>8. WidthAt(w) <=> (\A i \in 1 .. k : peek_byte(i) = w[i]) /\ peek_byte(k + 1) \notin Digit
  BY DEF WidthAt, k
<1>9. WidthEndsAt(s, m_pos, w) <=>
        /\ m_pos + 1 + k <= Size /\ Slice(s, m_pos + 1, m_pos + 1 + k) = w
        /\ ~ByteIn(s, m_pos + 1 + k, Digit)
  BY <1>1 DEF WidthEndsAt, k
<1> QED BY <1>4, <1>5, <1>6, <1>7, <1>8, <1>9

LEMMA OneWidth ==
  ASSUME NEW s \in Seq(Byte), NEW o \in Nat, NEW v \in Widths, NEW w \in Widths,
         WidthEndsAt(s, o, v), WidthEndsAt(s, o, w)
  PROVE  v = w
<1>1. o + 1 \in Nat /\ o + 1 + Len(v) <= Len(s) /\ o + 1 + Len(w) <= Len(s)
  BY DEF WidthEndsAt
<1>2. /\ \A i \in 1 .. Len(v) : ByteAt(s, (o + 1) + i - 1) = v[i]
      /\ \A i \in 1 .. Len(w) : ByteAt(s, (o + 1) + i - 1) = w[i]
  BY <1>1, WidthSlice DEF WidthEndsAt
<1>3. 1 \in 1 .. Len(v) /\ 1 \in 1 .. Len(w)
  BY WidthShape
<1>4. v[1] = w[1]
  BY <1>2, <1>3
<1> QED BY <1>4, WidthShape

LEMMA SuffixEndsAre ==
  ASSUME NEW s, NEW o
  PROVE  SuffixEnds(s, o) =
           {o} \cup (IF ByteIn(s, o, LetterDF) THEN {o + 1} ELSE {})
               \cup {o + 1 + Len(w) : w \in {v \in Widths :
                       ByteIn(s, o, LetterUI) /\ WidthEndsAt(s, o, v)}}
BY DEF SuffixEnds, WidthEndsAt

(* The suffix that try_scan_type_suffix takes is the longest. *)
LEMMA SuffixLongest ==
  ASSUME IInv, try_scan_type_suffix
  PROVE  /\ m_pos' \in SuffixEnds(m_source, m_pos) /\ m_pos <= m_pos'
         /\ \A p \in SuffixEnds(m_source, m_pos) : p <= m_pos'
<1> DEFINE s == m_source
           D == IF ByteIn(s, m_pos, LetterDF) THEN {m_pos + 1} ELSE {}
           W == {v \in Widths : ByteIn(s, m_pos, LetterUI) /\ WidthEndsAt(s, m_pos, v)}
<1>1. /\ m_pos \in Nat /\ s \in Seq(Byte) /\ Size = Len(s) /\ Size \in Nat
      /\ peek_byte(0) = IF m_pos < Size THEN ByteAt(s, m_pos) ELSE 0
  <2>1. 0 \in Nat
    OBVIOUS
  <2>2. m_pos \in Nat /\ m_pos + 0 = m_pos
    BY <2>1, Peek
  <2> QED BY <2>1, <2>2, Peek
<1>2. SuffixEnds(s, m_pos) = {m_pos} \cup D \cup {m_pos + 1 + Len(w) : w \in W}
  BY SuffixEndsAre
<1>3. /\ ByteIn(s, m_pos, LetterDF) <=> peek_byte(0) \in LetterDF
      /\ ByteIn(s, m_pos, LetterUI) <=> peek_byte(0) \in LetterUI
  BY <1>1 DEF ByteIn, LetterDF, LetterUI, LetterU
<1>4. peek_byte(0) \in LetterUI =>
        \A w \in Widths : (w \in W <=> WidthAt(w))
  BY <1>3, WidthAtIs
<1>5. peek_byte(0) \notin LetterUI => W = {}
  BY <1>3
<1>6. \A w \in Widths : Len(w) \in Nat
  BY WidthShape
<1>7. W \subseteq Widths
  OBVIOUS
<1>8. peek_byte(0) \in LetterDF => peek_byte(0) \notin LetterUI
  BY DEF LetterDF, LetterUI, LetterU
<1>9. /\ peek_byte(0) \in LetterDF => D = {m_pos + 1}
      /\ peek_byte(0) \notin LetterDF => D = {}
  BY <1>3
<1>10. \A v, w \in W : v = w
  BY <1>1, OneWidth
<1> HIDE DEF D, W
<1>11. CASE peek_byte(0) \in LetterDF /\ Advance(1)
  <2>1. m_pos' = m_pos + 1
    BY <1>11 DEF Advance
  <2>2. SuffixEnds(s, m_pos) = {m_pos, m_pos + 1}
    BY <1>2, <1>5, <1>8, <1>9, <1>11
  <2> QED BY <1>1, <2>1, <2>2
<1>12. ASSUME peek_byte(0) \in LetterUI, NEW w \in Widths, WidthAt(w), Advance(1 + Len(w))
       PROVE  /\ m_pos' \in SuffixEnds(m_source, m_pos) /\ m_pos <= m_pos'
              /\ \A p \in SuffixEnds(m_source, m_pos) : p <= m_pos'
  <2>1. m_pos' = m_pos + 1 + Len(w)
    BY <1>1, <1>6, <1>12 DEF Advance
  <2>2. w \in W /\ D = {}
    BY <1>4, <1>8, <1>9, <1>12
  <2>3. W = {w}
    BY <1>10, <2>2
  <2>4. SuffixEnds(s, m_pos) = {m_pos, m_pos + 1 + Len(w)}
    BY <1>2, <2>2, <2>3
  <2> QED BY <1>1, <1>6, <2>1, <2>4
<1>13. CASE /\ peek_byte(0) \notin LetterDF
            /\ ~(peek_byte(0) \in LetterUI /\ \E w \in Widths : WidthAt(w))
            /\ UNCHANGED cursor
  <2>1. m_pos' = m_pos
    BY <1>13 DEF cursor
  <2>2. D = {} /\ W = {}
    BY <1>4, <1>5, <1>7, <1>9, <1>13
  <2>3. SuffixEnds(s, m_pos) = {m_pos}
    BY <1>2, <2>2
  <2> QED BY <1>1, <2>1, <2>3
<1> QED BY <1>11, <1>12, <1>13 DEF try_scan_type_suffix

(* Where a number goes on, no suffix begins. *)
LEMMA NoSuffix ==
  ASSUME NEW s, NEW p, ~ByteIn(s, p, LetterDF), ~ByteIn(s, p, LetterUI)
  PROVE  SuffixEnds(s, p) = {p}
BY DEF SuffixEnds

LEMMA NumericLongest ==
  ASSUME NEW s \in Seq(Byte), NEW o, NEW m \in Nat, NEW e \in Nat, NEW f \in Nat,
         LongestMantissa(s, o, m), LongestExponent(s, m, e),
         f \in SuffixEnds(s, e), e <= f, \A p \in SuffixEnds(s, e) : p <= f
  PROVE  f \in NumericEnds(s, o) /\ \A p \in NumericEnds(s, o) : p <= f
<1>1. f \in NumericEnds(s, o)
  BY DEF NumericEnds, LongestMantissa, LongestExponent
<1>2. \A p \in Nat : ~ByteIn(s, p, LetterE) => ExponentEnds(s, p) = {p}
  BY ExponentEndsAre
<1>3. MantissaEnds(s, o) \subseteq Int
  BY DEF MantissaEnds, SomeDigitsFrom, DigitsFrom
<1>4. m <= e
  <2>1. m \in ExponentEnds(s, m)
    BY DEF ExponentEnds
  <2> QED BY <2>1 DEF LongestExponent
<1>5. ASSUME NEW a \in MantissaEnds(s, o), NEW b \in ExponentEnds(s, a), NEW p \in SuffixEnds(s, b)
      PROVE  p <= f
  <2>1. CASE a # m
    <3>1. a < m /\ ByteIn(s, a, Digit \cup {DOT})
      BY <2>1 DEF LongestMantissa
    <3>2. ~ByteIn(s, a, LetterE) /\ ~ByteIn(s, a, LetterDF) /\ ~ByteIn(s, a, LetterUI)
      BY <3>1, NumberBytes DEF ByteIn
    <3>3. b = a
      BY <3>2 DEF ExponentEnds
    <3>4. p = a
      BY <3>2, <3>3, NoSuffix
    <3> QED BY <1>3, <1>4, <3>1, <3>4
  <2>2. CASE a = m /\ b # e
    <3>1. b < e /\ ByteIn(s, b, Digit \cup LetterE)
      BY <2>2 DEF LongestExponent
    <3>2. ~ByteIn(s, b, LetterDF) /\ ~ByteIn(s, b, LetterUI)
      BY <3>1, NumberBytes DEF ByteIn
    <3>3. p = b
      BY <3>2, NoSuffix
    <3>4. b \in Int
      BY <2>2 DEF ExponentEnds, SomeDigitsFrom, DigitsFrom
    <3> QED BY <3>1, <3>3, <3>4
  <2>3. CASE a = m /\ b = e
    BY <2>3
  <2> QED BY <2>1, <2>2, <2>3
<1>6. ASSUME NEW p \in NumericEnds(s, o) PROVE p <= f
  <2>1. PICK a \in MantissaEnds(s, o) : p \in UNION {SuffixEnds(s, b) : b \in ExponentEnds(s, a)}
    BY DEF NumericEnds
  <2>2. PICK b \in ExponentEnds(s, a) : p \in SuffixEnds(s, b)
    BY <2>1
  <2> QED BY <1>5, <2>2
<1> QED BY <1>1, <1>6

LEMMA NumberSoFarKept ==
  ASSUME IInv, Next, NumberInv
  PROVE  NumberSoFar(m_source, start'.offset, m_pos', saved'.pos, pc')
<1>0. NumberSoFar(m_source, start.offset, m_pos, saved.pos, pc)
  BY DEF NumberInv
<1>1. CASE pc = "number"
  <2>1. scan_integer_part
    BY <1>1, StepAt
  <2>2. start' = start /\ pc' = "exponent"
    BY <2>1 DEF scan_integer_part, GotoWith, Goto, locals
  <2> QED BY <2>1, <2>2, IntegerPartLongest DEF NumberSoFar
<1>2. CASE pc = "exponent"
  <2>1. try_scan_exponent
    BY <1>2, StepAt
  <2>2. start' = start
    BY <2>1 DEF try_scan_exponent
  <2> QED BY <1>0, <2>1, <2>2, TryExponentKeeps
<1>3. CASE pc = "exponent_digits"
  <2>1. scan_exponent_digits
    BY <1>3, StepAt
  <2>2. start' = start /\ pc' = "type_suffix"
    BY <2>1 DEF scan_exponent_digits, GotoWith, Goto, locals
  <2> QED BY <1>0, <2>1, <2>2, ExponentDigitsLongest DEF NumberSoFar
<1>4. CASE pc = "type_suffix"
  <2>1. try_scan_type_suffix
    BY <1>4, StepAt
  <2>2. pc' \in {"skip", "idle"}
    BY <2>1 DEF try_scan_type_suffix, Emit
  <2> QED BY <2>2 DEF NumberSoFar
<1>5. CASE pc \notin NumberLabel
  <2>1. pc' \notin {"exponent", "exponent_digits", "type_suffix"}
    <3>1. CASE Skips
      BY <3>1 DEF Skips
    <3>2. CASE dispatch
      <4>1. Scanner \notin {"exponent", "exponent_digits", "type_suffix"}
        BY DEF Scanner
      <4> QED BY <3>2, <4>1 DEF dispatch, Goto
    <3>3. CASE Scans
      BY <1>5, <3>3, ScannerStays DEF NumberLabel
    <3>4. CASE Emits \/ end_of_input
      BY <3>4 DEF Emits, end_of_input, Emit
    <3> QED BY <3>1, <3>2, <3>3, <3>4, StepKinds
  <2> QED BY <2>1 DEF NumberSoFar
<1> QED BY <1>1, <1>2, <1>3, <1>4, <1>5 DEF NumberLabel

LEMMA NumericOfKept ==
  ASSUME IInv, Next, Opening, NumberInv, ~Skipping, NEW kind \in TokenKind, Emit(kind, start)
  PROVE  NumericOf(m_source, [kind |-> kind, start |-> start, end |-> current_location'])
<1> DEFINE t == [kind |-> kind, start |-> start, end |-> current_location']
           o == start.offset
<1>1. /\ t.kind = kind /\ t.start.offset = o /\ t.end.offset = m_pos'
      /\ o \in Nat /\ m_source \in Seq(Byte) /\ m_pos \in Nat
  <2>1. 0 \in Nat
    OBVIOUS
  <2>2. o \in Nat /\ m_source \in Seq(Byte) /\ m_pos \in Nat
    BY <2>1, Peek
  <2> QED BY <2>2 DEF current_location
<1> HIDE DEF t
<1>2. CASE pc \in NumberLabel
  <2>1. try_scan_type_suffix /\ kind = "Numeric"
    BY <1>2, EmittedBy
  <2>2. PICK m \in Nat : LongestMantissa(m_source, o, m) /\ LongestExponent(m_source, m, m_pos)
    BY <2>1 DEF NumberInv, NumberSoFar, try_scan_type_suffix
  <2>3. /\ m_pos' \in SuffixEnds(m_source, m_pos) /\ m_pos <= m_pos'
        /\ \A p \in SuffixEnds(m_source, m_pos) : p <= m_pos'
    BY <2>1, SuffixLongest
  <2>4. m_pos' \in Nat
    BY NextIInv DEF IInv, TypeOK
  <2>5. m_pos' \in NumericEnds(m_source, o) /\ \A p \in NumericEnds(m_source, o) : p <= m_pos'
    BY <1>1, <2>2, <2>3, <2>4, NumericLongest
  <2> QED BY <1>1, <2>1, <2>5 DEF NumericOf, t
<1>3. CASE pc \notin NumberLabel
  <2>1. kind # "Numeric"
    BY <1>3, EmittedBy
  <2>2. NumericEnds(m_source, o) = {}
    BY <1>1, <1>3, NoNumberNoEnds DEF Opening, OpenedBy
  <2> QED BY <1>1, <2>1, <2>2 DEF NumericOf, t
<1> QED BY <1>2, <1>3

LEMMA NumberInvKept ==
  ASSUME IInv, Next, Opening, NumberInv
  PROVE  NumberInv'
<1>1. m_source' = m_source
  BY SourceStays
<1>2. NumberSoFar(m_source, start'.offset, m_pos', saved'.pos, pc')
  BY NumberSoFarKept
<1>3. tokens' # <<>> => NumericOf(m_source, Latest')
  <2>1. CASE tokens' = tokens
    BY <2>1 DEF NumberInv, Latest
  <2>2. CASE m_pos = Size /\ Latest' = [kind |-> "Eof", start |-> current_location,
                                        end |-> current_location]
    <3>1. m_pos \in Nat /\ m_source \in Seq(Byte) /\ ~NumberAt(m_source, m_pos)
      BY <2>2 DEF IInv, TypeOK, NumberAt, ByteIn, Size
    <3>2. NumericEnds(m_source, m_pos) = {}
      BY <3>1, NoNumberNoEnds
    <3> QED BY <2>2, <3>2 DEF NumericOf, current_location
  <2>3. ASSUME ~Skipping, NEW kind \in TokenKind, Emit(kind, start),
               Latest' = [kind |-> kind, start |-> start, end |-> current_location']
        PROVE  NumericOf(m_source, Latest')
    BY <2>3, NumericOfKept
  <2> QED BY <2>1, <2>2, <2>3, LatestStep
<1> QED BY <1>1, <1>2, <1>3 DEF NumberInv

LEMMA NumberInvHolds == Spec => []NumberInv
<1>1. Init => NumberInv
  BY DEF Init, NumberInv, NumberSoFar
<1>2. IInv /\ Opening /\ NumberInv /\ [Next]_vars => NumberInv'
  <2>1. ASSUME NumberInv, UNCHANGED vars PROVE NumberInv'
    BY <2>1 DEF vars, cursor, call, locals, NumberInv, Latest
  <2> QED BY <2>1, NumberInvKept
<1> QED BY <1>1, <1>2, OpeningHolds, PTL DEF Spec

(* Maximal munch, for every source: a numeric token is the longest slice   *)
(* that mantissa, exponent and suffix accept, and there is one wherever    *)
(* they accept any (scan_numeric_literal, try_scan_exponent with its       *)
(* rollback, and try_scan_type_suffix, Lexer.cpp).                         *)
THEOREM NumericsAreLongest == Spec => []NumericIsLongest
<1>1. NumberInv => NumericIsLongest
  BY DEF NumberInv, NumericIsLongest, NumericOf, NewToken
<1> QED BY <1>1, NumberInvHolds, PTL
-----------------------------------------------------------------------------
(* Malformed literals.  Sound(s, from, e, o): of the slice of s from from  *)
(* to e, what lies behind offset o (of s) is well-formed.                  *)
Sound(s, from, e, o) == WellFormedFrom(Slice(s, from, e), o - from)

LEMMA SliceBytes ==
  ASSUME NEW s \in Seq(Byte), NEW from \in Nat, NEW e \in Nat, from <= e, e <= Len(s)
  PROVE  /\ Slice(s, from, e) \in Seq(Byte) /\ Len(Slice(s, from, e)) = e - from
         /\ \A o \in from .. e - 1 : ByteAt(Slice(s, from, e), o - from) = ByteAt(s, o)
<1> DEFINE t == Slice(s, from, e)
<1>1. /\ t \in Seq(Byte) /\ Len(t) = e - from
      /\ \A i \in 1 .. e - from : t[i] = s[from + i]
  <2>1. /\ SubSeq(s, from + 1, e) \in Seq(Byte) /\ Len(SubSeq(s, from + 1, e)) = e - from
        /\ \A i \in 1 .. e - from : SubSeq(s, from + 1, e)[i] = s[(from + 1) + i - 1]
    OBVIOUS
  <2>2. \A i \in 1 .. e - from : (from + 1) + i - 1 = from + i
    OBVIOUS
  <2> QED BY <2>1, <2>2 DEF Slice
<1> HIDE DEF t
<1>2. ASSUME NEW o \in from .. e - 1 PROVE ByteAt(t, o - from) = ByteAt(s, o)
  <2>1. (o - from) + 1 \in 1 .. e - from /\ from + ((o - from) + 1) = o + 1
    OBVIOUS
  <2> QED BY <1>1, <2>1 DEF ByteAt
<1> QED BY <1>1, <1>2 DEF t

LEMMA SliceShape ==
  ASSUME NEW s \in Seq(Byte), NEW from \in Nat, NEW e \in Nat, e <= Len(s),
         NEW o \in from .. e - 1, NEW n
  PROVE  WellShaped(Slice(s, from, e), o - from, n) <=>
           WellShaped(s, o, n) /\ o + n <= e
<1> DEFINE t == Slice(s, from, e)  a == o - from
           S(i) == ContinuationAt(s, o + i)
           T(i) == ContinuationAt(t, a + i)
<1>1. /\ t \in Seq(Byte) /\ Len(t) = e - from
      /\ \A q \in from .. e - 1 : ByteAt(t, q - from) = ByteAt(s, q)
  <2>1. e \in Nat /\ from <= e
    OBVIOUS
  <2> QED BY <2>1, SliceBytes
<1>2. a \in Nat /\ o \in Nat /\ o < e /\ Len(s) \in Nat
  OBVIOUS
<1>3. ByteAt(t, a) = ByteAt(s, o)
  BY <1>1
<1>4. ASSUME NEW i \in 1 .. 3
      PROVE  /\ T(i) <=> S(i) /\ o + i < e
             /\ T(i) => ByteAt(t, a + i) = ByteAt(s, o + i)
  <2>1. a + i = (o + i) - from /\ (a + i < e - from <=> o + i < e)
    OBVIOUS
  <2>2. o + i < e => o + i \in from .. e - 1 /\ o + i < Len(s)
    OBVIOUS
  <2>3. o + i < e => ByteAt(t, a + i) = ByteAt(s, o + i)
    BY <1>1, <2>1, <2>2
  <2> HIDE DEF t, a
  <2> QED BY <1>1, <2>1, <2>2, <2>3 DEF ContinuationAt
<1>5. /\ T(1) <=> S(1) /\ o + 1 < e
      /\ T(2) <=> S(2) /\ o + 2 < e
      /\ T(3) <=> S(3) /\ o + 3 < e
      /\ T(1) => ByteAt(t, a + 1) = ByteAt(s, o + 1)
  BY <1>4
<1> DEFINE b0 == ByteAt(s, o)  b1 == ByteAt(s, o + 1)
           c0 == ByteAt(t, a)  c1 == ByteAt(t, a + 1)
<1>6. /\ o + 1 <= e
      /\ o + 1 < e <=> o + 2 <= e
      /\ o + 2 < e <=> o + 3 <= e
      /\ o + 3 < e <=> o + 4 <= e
      /\ o + 3 < e => o + 2 < e
      /\ o + 2 < e => o + 1 < e
  BY <1>2
<1>7. WellShaped(t, a, n) <=>
        \/ n = 1 /\ c0 <= 127
        \/ n = 2 /\ c0 \in 194 .. 223 /\ T(1)
        \/ /\ n = 3 /\ c0 \in 224 .. 239
           /\ T(1) /\ T(2)
           /\ c0 = 224 => c1 >= 160
           /\ c0 = 237 => c1 < 160
        \/ /\ n = 4 /\ c0 \in 240 .. 244
           /\ T(1) /\ T(2) /\ T(3)
           /\ c0 = 240 => c1 >= 144
           /\ c0 = 244 => c1 < 144
  BY Zenon DEF WellShaped
<1>8. WellShaped(s, o, n) <=>
        \/ n = 1 /\ b0 <= 127
        \/ n = 2 /\ b0 \in 194 .. 223 /\ S(1)
        \/ /\ n = 3 /\ b0 \in 224 .. 239
           /\ S(1) /\ S(2)
           /\ b0 = 224 => b1 >= 160
           /\ b0 = 237 => b1 < 160
        \/ /\ n = 4 /\ b0 \in 240 .. 244
           /\ S(1) /\ S(2) /\ S(3)
           /\ b0 = 240 => b1 >= 144
           /\ b0 = 244 => b1 < 144
  BY Zenon DEF WellShaped
<1>9. c0 = b0 /\ (T(1) => c1 = b1)
  BY <1>3, <1>5
<1> HIDE DEF S, T, b0, b1, c0, c1, a, t
<1>10. WellShaped(t, a, n) <=> WellShaped(s, o, n) /\ o + n <= e
  <2>1. CASE n = 1
    BY <1>6, <1>7, <1>8, <1>9, <2>1
  <2>2. CASE n = 2
    BY <1>5, <1>6, <1>7, <1>8, <1>9, <2>2
  <2>3. CASE n = 3
    BY <1>5, <1>6, <1>7, <1>8, <1>9, <2>3
  <2>4. CASE n = 4
    BY <1>5, <1>6, <1>7, <1>8, <1>9, <2>4
  <2>5. CASE n # 1 /\ n # 2 /\ n # 3 /\ n # 4
    BY <1>7, <1>8, <2>5
  <2> QED BY <2>1, <2>2, <2>3, <2>4, <2>5
<1> QED BY <1>10 DEF t, a

(* Decoding in the slice or in the source comes to the same. *)
LEMMA SoundStep ==
  ASSUME NEW s \in Seq(Byte), NEW from \in Nat, NEW e \in Nat, from <= e, e <= Len(s)
  PROVE  /\ \A o \in from .. e : Sound(s, from, e, o) \in BOOLEAN
         /\ Sound(s, from, e, e)
         /\ \A o \in from .. e - 1 :
              LET res == decode_utf8(s, o) IN
              o + res.byte_length <= e =>
                (Sound(s, from, e, o) <=>
                   res.status = "Ok" /\ Sound(s, from, e, o + res.byte_length))
<1> DEFINE t == Slice(s, from, e)
<1>1. t \in Seq(Byte) /\ Len(t) = e - from
  BY SliceBytes
<1>2. \A o \in from .. e : o - from \in 0 .. Len(t)
  BY <1>1
<1>3. ASSUME NEW o \in from .. e PROVE Sound(s, from, e, o) \in BOOLEAN
  BY <1>1, <1>2, WellFormedFromStep DEF Sound
<1>4. Sound(s, from, e, e)
  BY <1>1, <1>2, WellFormedFromStep DEF Sound
<1>5. ASSUME NEW o \in from .. e - 1, o + decode_utf8(s, o).byte_length <= e
      PROVE  Sound(s, from, e, o) <=>
               decode_utf8(s, o).status = "Ok"
               /\ Sound(s, from, e, o + decode_utf8(s, o).byte_length)
  <2> DEFINE a == o - from
             r == decode_utf8(s, o)
             q == decode_utf8(t, a)
  <2>1. Within(s, o) /\ Within(t, a) /\ a \in 0 .. Len(t) /\ a < Len(t)
    BY <1>1 DEF Within
  <2>2. WellFormedFrom(t, a) <=> q.status = "Ok" /\ WellFormedFrom(t, a + q.byte_length)
    BY <1>1, <2>1, WellFormedFromStep
  <2>3. ASSUME r.status = "Ok" PROVE q.status = "Ok" /\ q.byte_length = r.byte_length
    <3>1. WellShaped(s, o, r.byte_length)
      BY <2>1, <2>3, OkShape
    <3>2. WellShaped(t, a, r.byte_length)
      BY <1>5, <3>1, SliceShape
    <3> HIDE DEF t, a, r
    <3> QED BY <2>1, <3>2, ShapeDecodes DEF DecodesTo
  <2>4. ASSUME q.status = "Ok" PROVE r.status = "Ok"
    <3>1. WellShaped(t, a, q.byte_length)
      <4> HIDE DEF t, a
      <4> QED BY <2>1, <2>4, OkShape
    <3>2. WellShaped(s, o, q.byte_length)
      BY <3>1, SliceShape
    <3> HIDE DEF t, a, q
    <3> QED BY <2>1, <3>2, ShapeDecodes DEF DecodesTo
  <2>5. r.byte_length \in Nat
    BY <2>1, DecodeUtf8Fits DEF DecodeFits, DecodeResult
  <2>6. (o + r.byte_length) - from = a + r.byte_length
    <3> HIDE DEF r
    <3> QED BY <2>5
  <2>7. Sound(s, from, e, o) <=> WellFormedFrom(t, a)
    BY DEF Sound
  <2>8. Sound(s, from, e, o + r.byte_length) <=> WellFormedFrom(t, a + r.byte_length)
    <3> HIDE DEF r, a
    <3> QED BY <2>6 DEF Sound
  <2> HIDE DEF r, q, t, a
  <2> QED BY <2>2, <2>3, <2>4, <2>7, <2>8 DEF r
<1> QED BY <1>3, <1>4, <1>5

LEMMA AsciiDecodes ==
  ASSUME NEW s \in Seq(Byte), NEW o \in Nat, o < Len(s), ByteAt(s, o) <= 127
  PROVE  decode_utf8(s, o).status = "Ok" /\ decode_utf8(s, o).byte_length = 1
<1>1. Within(s, o) /\ WellShaped(s, o, 1)
  BY DEF Within, WellShaped
<1> QED BY <1>1, ShapeDecodes DEF DecodesTo

(* Stepping over k bytes of ASCII changes nothing. *)
LEMMA SoundOverAscii ==
  ASSUME NEW s \in Seq(Byte), NEW from \in Nat, NEW e \in Nat, from <= e, e <= Len(s),
         NEW o \in from .. e, NEW k \in Nat, o + k <= e,
         \A i \in 0 .. k - 1 : ByteAt(s, o + i) <= 127
  PROVE  Sound(s, from, e, o) <=> Sound(s, from, e, o + k)
<1> DEFINE I == {i \in Nat : i <= k => (Sound(s, from, e, o) <=> Sound(s, from, e, o + i))}
<1>1. 0 \in I
  <2>1. o + 0 = o
    OBVIOUS
  <2> QED BY <2>1
<1>2. ASSUME NEW i \in Nat, i \in I PROVE i + 1 \in I
  <2> SUFFICES ASSUME i + 1 <= k PROVE Sound(s, from, e, o) <=> Sound(s, from, e, o + (i + 1))
    OBVIOUS
  <2>1. Sound(s, from, e, o) <=> Sound(s, from, e, o + i)
    BY <1>2
  <2>2. /\ o + i \in from .. e - 1 /\ o + i \in Nat /\ o + i < Len(s) /\ (o + i) + 1 = o + (i + 1)
        /\ i \in 0 .. k - 1 /\ (o + i) + 1 <= e
    OBVIOUS
  <2>3. decode_utf8(s, o + i).status = "Ok" /\ decode_utf8(s, o + i).byte_length = 1
    BY <2>2, AsciiDecodes
  <2>4. Sound(s, from, e, o + i) <=> Sound(s, from, e, (o + i) + 1)
    BY <2>2, <2>3, SoundStep
  <2> QED BY <2>1, <2>2, <2>4
<1> HIDE DEF I
<1>3. k \in I
  BY <1>1, <1>2, SetInduction
<1> QED BY <1>3 DEF I

(* What the scanners of literals have established: has_malformed tells     *)
(* whether what they have read is well-formed, wherever the literal may    *)
(* end.                                                                    *)
LiteralBody == {"string_body", "string_escape", "char_body", "char_escape", "char_close"}

Tells(s, from, to, bad) ==
  ~EscapesNonAscii(s, from, to) =>
    \A e \in to .. Len(s) : Sound(s, from, e, from) <=> ~bad /\ Sound(s, from, e, to)

LiteralSoFar(s, from, to, bad, label) ==
  /\ label \in {"string", "char"} => ~bad
  /\ label \in LiteralBody => from < to /\ Tells(s, from, to, bad)
  /\ label \in {"string_escape", "char_escape"} => ByteAt(s, to - 1) = BACKSLASH

LiteralOf(s, t) ==
  /\ ByteIn(s, t.start.offset, {QUOTE, APOSTROPHE})
  /\ ~EscapesNonAscii(s, t.start.offset, t.end.offset)
  => (t.kind = "Error") = ~WellFormed(Slice(s, t.start.offset, t.end.offset))

LiteralInv ==
  /\ LiteralSoFar(m_source, start.offset, m_pos, has_malformed, pc)
  /\ tokens # <<>> => LiteralOf(m_source, Latest)

LEMMA EscapesGrow ==
  ASSUME NEW s, NEW from \in Nat, NEW a \in Nat, NEW b \in Nat, a <= b,
         EscapesNonAscii(s, from, a)
  PROVE  EscapesNonAscii(s, from, b)
<1>1. PICK o \in from .. a - 2 : ByteAt(s, o) = BACKSLASH /\ ByteAt(s, o + 1) > 127
  BY DEF EscapesNonAscii
<1>2. o \in from .. b - 2
  OBVIOUS
<1> QED BY <1>1, <1>2 DEF EscapesNonAscii

(* k bytes of ASCII more, and has_malformed is left alone. *)
LEMMA TellsOverAscii ==
  ASSUME NEW s \in Seq(Byte), NEW from \in Nat, NEW to \in Nat, from <= to,
         NEW k \in Nat, to + k <= Len(s), NEW bad \in BOOLEAN, Tells(s, from, to, bad),
         ~EscapesNonAscii(s, from, to + k) => \A i \in 0 .. k - 1 : ByteAt(s, to + i) <= 127
  PROVE  Tells(s, from, to + k, bad)
<1> SUFFICES ASSUME ~EscapesNonAscii(s, from, to + k), NEW e \in to + k .. Len(s)
             PROVE  Sound(s, from, e, from) <=> ~bad /\ Sound(s, from, e, to + k)
  BY DEF Tells
<1>1. ~EscapesNonAscii(s, from, to)
  BY EscapesGrow
<1>2. e \in Nat /\ from <= e /\ e <= Len(s) /\ e \in to .. Len(s) /\ to \in from .. e /\ to + k <= e
  OBVIOUS
<1>3. Sound(s, from, e, from) <=> ~bad /\ Sound(s, from, e, to)
  BY <1>1, <1>2 DEF Tells
<1>4. Sound(s, from, e, to) <=> Sound(s, from, e, to + k)
  BY <1>2, SoundOverAscii
<1> QED BY <1>3, <1>4

(* One sequence more, and has_malformed follows its status. *)
LEMMA TellsOverSequence ==
  ASSUME NEW s \in Seq(Byte), NEW from \in Nat, NEW to \in Nat, from <= to, to < Len(s),
         NEW bad \in BOOLEAN, Tells(s, from, to, bad)
  PROVE  LET res == decode_utf8(s, to) IN
         Tells(s, from, to + res.byte_length, bad \/ res.status # "Ok")
<1> DEFINE res == decode_utf8(s, to)
           n == res.byte_length
<1>1. n \in 1 .. 4 /\ to + n <= Len(s)
  <2>1. Within(s, to)
    BY DEF Within
  <2> QED BY <2>1, DecodeUtf8Fits DEF DecodeFits, DecodeResult
<1>2. ASSUME ~EscapesNonAscii(s, from, to + n), NEW e \in to + n .. Len(s)
      PROVE  Sound(s, from, e, from) <=> ~(bad \/ res.status # "Ok") /\ Sound(s, from, e, to + n)
  <2> HIDE DEF n
  <2>1. ~EscapesNonAscii(s, from, to)
    <3>1. to <= to + n /\ to + n \in Nat
      BY <1>1
    <3> QED BY <1>2, <3>1, EscapesGrow
  <2>2. e \in Nat /\ from <= e /\ e <= Len(s) /\ e \in to .. Len(s) /\ to \in from .. e - 1
        /\ to + n <= e
    BY <1>1
  <2>3. Sound(s, from, e, from) <=> ~bad /\ Sound(s, from, e, to)
    BY <2>1, <2>2 DEF Tells
  <2>4. Sound(s, from, e, to) <=> res.status = "Ok" /\ Sound(s, from, e, to + n)
    BY <2>2, SoundStep DEF n
  <2> QED BY <2>3, <2>4
<1> HIDE DEF n, res
<1>3. Tells(s, from, to + n, bad \/ res.status # "Ok")
  BY <1>2 DEF Tells
<1> QED BY <1>3 DEF n, res

-----------------------------------------------------------------------------
LEMMA OpenLiteralTells ==
  ASSUME IInv, Opening, LiteralInv, open_literal
  PROVE  LiteralSoFar(m_source, start'.offset, m_pos', has_malformed', pc')
<1> DEFINE s == m_source  from == start.offset
<1>1. /\ pc \in {"string", "char"} /\ m_pos' = m_pos + 1 /\ start' = start
      /\ has_malformed' = has_malformed /\ pc' \in {"string_body", "char_body"}
  BY DEF open_literal, GotoWith, Goto, locals, Advance
<1>2. /\ from = m_pos /\ from \in Nat /\ s \in Seq(Byte) /\ from < Len(s)
  <2>1. AtStart
    BY <1>1 DEF AtStart
  <2>2. start = current_location /\ m_pos < Size /\ m_pos \in 0 .. Size /\ m_source \in Seq(Byte)
    BY <2>1 DEF IInv, ScannerEntry, TypeOK
  <2> QED BY <2>2 DEF current_location, Size
<1>3. ByteAt(s, from) \in {QUOTE, APOSTROPHE}
  <2>1. ~Skipping /\ (pc \in StringLabel \/ pc \in CharLabel)
    BY <1>1 DEF Skipping, StringLabel, CharLabel
  <2> QED BY <2>1 DEF Opening, OpenedBy
<1>4. ~has_malformed /\ has_malformed \in BOOLEAN
  BY <1>1 DEF LiteralInv, LiteralSoFar, IInv, TypeOK
<1>5. Tells(s, from, from, FALSE)
  BY DEF Tells
<1>6. Tells(s, from, from + 1, FALSE)
  <2>1. \A i \in 0 .. 1 - 1 : ByteAt(s, from + i) <= 127
    <3>1. \A i \in 0 .. 1 - 1 : i = 0
      OBVIOUS
    <3>2. from + 0 = from
      BY <1>2
    <3> QED BY <1>3, <3>1, <3>2 DEF QUOTE, APOSTROPHE
  <2>2. from <= from /\ 1 \in Nat /\ from + 1 <= Len(s) /\ FALSE \in BOOLEAN
    BY <1>2
  <2> QED BY <1>2, <1>5, <2>1, <2>2, TellsOverAscii
<1>7. has_malformed' = FALSE /\ from < from + 1
  BY <1>1, <1>2, <1>4
<1> HIDE DEF s, from
<1> QED BY <1>1, <1>2, <1>6, <1>7 DEF LiteralSoFar, s, from

LEMMA ElementTells ==
  ASSUME IInv, ~is_at_end, LiteralElement, Tells(m_source, start.offset, m_pos, has_malformed),
         start.offset < m_pos
  PROVE  Tells(m_source, start.offset, m_pos', has_malformed')
<1> DEFINE s == m_source  from == start.offset
<1>1. /\ m_pos \in Nat /\ m_pos < Len(s) /\ from \in Nat /\ s \in Seq(Byte)
      /\ peek_byte(0) = ByteAt(s, m_pos) /\ has_malformed \in BOOLEAN
  <2>1. 0 \in Nat /\ has_malformed \in BOOLEAN
    BY DEF IInv, TypeOK
  <2>2. /\ m_pos \in Nat /\ m_pos + 0 = m_pos /\ from \in Nat /\ s \in Seq(Byte)
        /\ Size = Len(s) /\ m_pos <= Size /\ (is_at_end <=> m_pos = Size) /\ Size \in Nat
    BY <2>1, Peek
  <2>3. peek_byte(0) = IF m_pos + 0 < Size THEN ByteAt(s, m_pos + 0) ELSE 0
    BY <2>1, Peek
  <2> HIDE DEF s, from
  <2>4. m_pos # Size
    BY <2>2, Zenon
  <2>5. m_pos < Size
    BY <2>2, <2>4
  <2>6. peek_byte(0) = ByteAt(s, m_pos)
    BY <2>2, <2>3, <2>5
  <2>7. m_pos < Len(s)
    BY <2>2, <2>5, Zenon
  <2> QED BY <2>1, <2>2, <2>6, <2>7, Zenon
<1>2. CASE peek_byte(0) > 127
  <2>1. m_pos' = m_pos + Here.byte_length /\ has_malformed' = (has_malformed \/ Here.status # "Ok")
    BY <1>2 DEF LiteralElement, advance_with_utf8_check, Advance, IsMalformed
  <2>2. from <= m_pos
    BY <1>1
  <2>3. Tells(s, from, m_pos + Here.byte_length, has_malformed \/ Here.status # "Ok")
    BY <1>1, <2>2, TellsOverSequence DEF Here
  <2> QED BY <2>1, <2>3, Zenon
<1>3. CASE ~(peek_byte(0) > 127)
  <2>1. m_pos' = m_pos + 1 /\ has_malformed' = has_malformed
    BY <1>3 DEF LiteralElement, Advance, locals
  <2>2. \A i \in 0 .. 1 - 1 : ByteAt(s, m_pos + i) <= 127
    <3>1. \A i \in 0 .. 1 - 1 : m_pos + i = m_pos
      BY <1>1
    <3>2. ByteAt(s, m_pos) \in Byte
      BY <1>1, Bytes
    <3>3. ByteAt(s, m_pos) <= 127
      <4> DEFINE b == ByteAt(s, m_pos)
      <4>1. ~(b > 127) /\ b \in Byte
        BY <1>1, <1>3, <3>2
      <4> HIDE DEF b
      <4>2. b <= 127
        BY <4>1 DEF Byte
      <4> QED BY <4>2 DEF b
    <3> QED BY <3>1, <3>3
  <2>3. from <= m_pos /\ 1 \in Nat /\ m_pos + 1 <= Len(s)
    BY <1>1
  <2>4. Tells(s, from, m_pos + 1, has_malformed)
    BY <1>1, <2>2, <2>3, TellsOverAscii
  <2> QED BY <2>1, <2>4, Zenon
<1> QED BY <1>2, <1>3

(* A backslash, or a closing quote, is one byte of ASCII. *)
LEMMA AsciiTells ==
  ASSUME IInv, NEW c \in 1 .. 127, peek_byte(0) = c,
         Tells(m_source, start.offset, m_pos, has_malformed),
         start.offset < m_pos
  PROVE  /\ Tells(m_source, start.offset, m_pos + 1, has_malformed)
         /\ m_pos + 1 <= Len(m_source) /\ ByteAt(m_source, m_pos) = c
<1> DEFINE s == m_source  from == start.offset
<1>1. /\ m_pos \in Nat /\ m_pos < Len(s) /\ from \in Nat /\ s \in Seq(Byte)
      /\ peek_byte(0) = ByteAt(s, m_pos) /\ has_malformed \in BOOLEAN
  <2>1. 0 \in Nat /\ has_malformed \in BOOLEAN /\ c # 0
    BY DEF IInv, TypeOK
  <2>2. /\ m_pos \in Nat /\ m_pos + 0 = m_pos /\ from \in Nat /\ s \in Seq(Byte)
        /\ Size = Len(s)
    BY <2>1, Peek
  <2>3. peek_byte(0) = IF m_pos + 0 < Size THEN ByteAt(s, m_pos + 0) ELSE 0
    BY <2>1, Peek
  <2> HIDE DEF s, from
  <2>4. m_pos + 0 < Size
    BY <2>1, <2>3
  <2>5. peek_byte(0) = ByteAt(s, m_pos + 0)
    BY <2>3, <2>4
  <2>6. m_pos < Len(s)
    BY <2>2, <2>4, Zenon
  <2>7. peek_byte(0) = ByteAt(s, m_pos)
    BY <2>2, <2>5, Zenon
  <2> QED BY <2>1, <2>2, <2>6, <2>7, Zenon
<1>2. \A i \in 0 .. 1 - 1 : ByteAt(s, m_pos + i) <= 127
  <2>1. \A i \in 0 .. 1 - 1 : m_pos + i = m_pos
    BY <1>1
  <2>2. ByteAt(s, m_pos) <= 127
    <3>1. c <= 127 /\ ByteAt(s, m_pos) = c
      BY <1>1
    <3> QED BY <3>1, Zenon
  <2> QED BY <2>1, <2>2
<1>3. from <= m_pos /\ 1 \in Nat /\ m_pos + 1 <= Len(s)
  BY <1>1
<1> QED BY <1>1, <1>2, <1>3, TellsOverAscii

LEMMA EscapeSpan ==
  ASSUME NEW n \in Nat, NEW from \in Nat, NEW p \in Nat, NEW size \in Nat,
         from < p, p < size, n # 0 => p + n < size
  PROVE  /\ p + (1 + n) <= size /\ from <= p /\ 1 + n \in Nat /\ from < p + (1 + n)
         /\ p - 1 \in from .. (p + (1 + n)) - 2 /\ (p - 1) + 1 = p /\ p + 0 = p
  OBVIOUS

LEMMA EscapeTells ==
  ASSUME IInv, pc \in {"string_escape", "char_escape"}, skip_escape, LiteralInv
  PROVE  LiteralSoFar(m_source, start'.offset, m_pos', has_malformed', pc')
<1> DEFINE s == m_source  from == start.offset
<1>1. /\ m_pos \in Nat /\ from \in Nat /\ s \in Seq(Byte) /\ Size = Len(s) /\ Size \in Nat
      /\ m_pos <= Size /\ (is_at_end <=> m_pos = Size) /\ has_malformed \in BOOLEAN
      /\ \A k \in Nat : peek_byte(k) = IF m_pos + k < Size THEN ByteAt(s, m_pos + k) ELSE 0
  <2>1. 0 \in Nat /\ has_malformed \in BOOLEAN
    BY DEF IInv, TypeOK
  <2> QED BY <2>1, Peek
<1>2. /\ from < m_pos /\ Tells(s, from, m_pos, has_malformed)
      /\ ByteAt(s, m_pos - 1) = BACKSLASH
  BY DEF LiteralInv, LiteralSoFar, LiteralBody
<1>3. /\ start' = start /\ has_malformed' = has_malformed
      /\ pc' \in {"string_body", "char_close"}
  BY DEF skip_escape, GotoWith, Goto, locals
<1>4. from < m_pos' /\ Tells(s, from, m_pos', has_malformed)
  <2>1. CASE UNCHANGED cursor
    BY <1>2, <2>1 DEF cursor
  <2>2. ASSUME ~is_at_end, NEW n \in 0 .. EscapeLimit(peek_byte(0)), Advance(1 + n),
               \A i \in 1 .. n : Available(i) /\ peek_byte(i) \in HexDigit
        PROVE  from < m_pos' /\ Tells(s, from, m_pos', has_malformed)
    <3>1. n \in Nat /\ m_pos' = m_pos + (1 + n)
      BY <2>2 DEF EscapeLimit, Advance
    <3>2. ASSUME NEW i \in 1 .. n
          PROVE  m_pos + i < Size /\ ByteAt(s, m_pos + i) <= 127
      <4>1. i \in Nat /\ peek_byte(i) \in HexDigit
        BY <2>2, <3>1
      <4>2. peek_byte(i) # 0 /\ peek_byte(i) <= 127
        BY <4>1 DEF HexDigit, Digit
      <4> QED BY <1>1, <4>1, <4>2
    <3>3. /\ m_pos + (1 + n) <= Size /\ from <= m_pos /\ 1 + n \in Nat /\ from < m_pos + (1 + n)
          /\ m_pos - 1 \in from .. (m_pos + (1 + n)) - 2 /\ (m_pos - 1) + 1 = m_pos
          /\ m_pos + 0 = m_pos
          /\ m_pos < Size
      <4>1. m_pos < Size
        BY <1>1, <2>2
      <4>2. n # 0 => n \in 1 .. n
        BY <3>1
      <4>3. n # 0 => m_pos + n < Size
        BY <3>2, <4>2, Zenon
      <4> HIDE DEF s, from
      <4> QED BY <1>1, <1>2, <3>1, <4>1, <4>3, EscapeSpan, Zenon
    <3>4. ASSUME ~EscapesNonAscii(s, from, m_pos + (1 + n)), NEW i \in 0 .. (1 + n) - 1
          PROVE  ByteAt(s, m_pos + i) <= 127
      <4>1. CASE i = 0
        <5>2. ~(ByteAt(s, m_pos) > 127)
          BY <1>2, <3>3, <3>4 DEF EscapesNonAscii
        <5>3. ByteAt(s, m_pos) \in Byte
          BY <1>1, <3>3, Bytes
        <5> QED BY <3>3, <4>1, <5>2, <5>3 DEF Byte
      <4>2. CASE i # 0
        <5>1. i \in 1 .. n
          BY <3>1, <4>2
        <5> QED BY <3>2, <5>1
      <4> QED BY <4>1, <4>2
    <3>5. from <= m_pos /\ 1 + n \in Nat /\ m_pos + (1 + n) <= Len(s) /\ from < m_pos + (1 + n)
      BY <1>1, <3>3, Zenon
    <3>6. Tells(s, from, m_pos + (1 + n), has_malformed)
      BY <1>1, <1>2, <3>4, <3>5, TellsOverAscii
    <3> QED BY <3>1, <3>5, <3>6
  <2> QED BY <2>1, <2>2 DEF skip_escape
<1> QED BY <1>3, <1>4 DEF LiteralSoFar

LEMMA BodyTells ==
  ASSUME IInv, LiteralInv, (scan_string_body /\ pc = "string_body") \/ (scan_char_body /\ pc = "char_body")
  PROVE  LiteralSoFar(m_source, start'.offset, m_pos', has_malformed', pc')
<1>1. start.offset < m_pos /\ Tells(m_source, start.offset, m_pos, has_malformed)
  BY DEF LiteralInv, LiteralSoFar, LiteralBody
<1>2. m_pos \in Nat /\ start.offset \in Nat
  <2>1. 0 \in Nat
    OBVIOUS
  <2> QED BY <2>1, Peek
<1>3. CASE /\ peek_byte(0) = BACKSLASH /\ Advance(1)
           /\ GotoWith("string_escape") \/ GotoWith("char_escape")
  <2>1. /\ m_pos' = m_pos + 1 /\ has_malformed' = has_malformed /\ start' = start
        /\ pc' \in {"string_escape", "char_escape"}
    BY <1>3 DEF Advance, GotoWith, Goto, locals
  <2>2. BACKSLASH \in 1 .. 127
    BY DEF BACKSLASH
  <2>3. /\ Tells(m_source, start.offset, m_pos + 1, has_malformed)
        /\ ByteAt(m_source, m_pos) = BACKSLASH
    BY <1>1, <1>3, <2>2, AsciiTells
  <2>4. (m_pos + 1) - 1 = m_pos /\ start.offset < m_pos + 1
    BY <1>1, <1>2
  <2> QED BY <2>1, <2>3, <2>4 DEF LiteralSoFar
<1>4. CASE ~is_at_end /\ LiteralElement /\ (Goto("string_body") \/ Goto("char_close"))
  <2>1. Tells(m_source, start.offset, m_pos', has_malformed')
    BY <1>1, <1>4, ElementTells
  <2>2. start' = start /\ pc' \in {"string_body", "char_close"}
    BY <1>4 DEF LiteralElement, advance_with_utf8_check, locals, Goto
  <2>3. start.offset < m_pos'
    <3>1. CASE Advance(1)
      BY <1>1, <1>2, <3>1 DEF Advance
    <3>2. CASE Advance(Here.byte_length)
      <4> DEFINE n == Here.byte_length
      <4>1. n \in 1 .. 4
        BY <1>4, HereFits DEF IInv
      <4>2. m_pos' = m_pos + n
        BY <3>2 DEF Advance
      <4> HIDE DEF n
      <4> QED BY <1>1, <1>2, <4>1, <4>2
    <3> QED BY <1>4, <3>1, <3>2 DEF LiteralElement, advance_with_utf8_check
  <2> QED BY <2>1, <2>2, <2>3 DEF LiteralSoFar
<1>5. CASE UNCHANGED cursor /\ GotoWith("char_close")
  <2>1. /\ m_pos' = m_pos /\ has_malformed' = has_malformed /\ start' = start
        /\ pc' = "char_close"
    BY <1>5 DEF cursor, GotoWith, Goto, locals
  <2> QED BY <1>1, <2>1 DEF LiteralSoFar
<1>6. CASE scan_string_body
  <2>1. ~is_at_end
    BY <1>6 DEF scan_string_body, StringStops
  <2> QED BY <1>3, <1>4, <1>6, <2>1 DEF scan_string_body
<1>7. CASE scan_char_body
  BY <1>3, <1>4, <1>5, <1>7 DEF scan_char_body
<1> QED BY <1>6, <1>7

LEMMA LiteralSoFarKept ==
  ASSUME IInv, Next, Opening, LiteralInv
  PROVE  LiteralSoFar(m_source, start'.offset, m_pos', has_malformed', pc')
<1>1. CASE pc \in {"string", "char"}
  BY <1>1, StepAt, OpenLiteralTells
<1>2. CASE pc \in {"string_escape", "char_escape"}
  BY <1>2, StepAt, EscapeTells
<1>3. CASE pc \in {"string_body", "char_body"}
  <2>1. CASE finish_string
    <3>1. pc' \in {"skip", "idle"}
      BY <2>1 DEF finish_string, Emit
    <3> QED BY <3>1 DEF LiteralSoFar, LiteralBody
  <2> QED BY <1>3, <2>1, StepAt, BodyTells
<1>4. CASE pc = "char_close"
  <2>1. pc' \in {"skip", "idle"}
    BY <1>4, StepAt DEF finish_char, Emit
  <2> QED BY <2>1 DEF LiteralSoFar, LiteralBody
<1>5. CASE pc \notin StringLabel \cup CharLabel
  <2>1. pc' \notin StringLabel \cup CharLabel \/ (dispatch /\ pc' \notin LiteralBody
          /\ pc' \notin {"string_escape", "char_escape"})
    <3>1. CASE Skips
      BY <3>1 DEF Skips, StringLabel, CharLabel
    <3>2. CASE dispatch
      <4>1. Scanner \notin LiteralBody /\ Scanner \notin {"string_escape", "char_escape"}
        BY DEF Scanner, LiteralBody
      <4> QED BY <3>2, <4>1 DEF dispatch, Goto
    <3>3. CASE Scans
      BY <1>5, <3>3, ScannerStays
    <3>4. CASE Emits \/ end_of_input
      BY <3>4 DEF Emits, end_of_input, Emit, StringLabel, CharLabel
    <3> QED BY <3>1, <3>2, <3>3, <3>4, StepKinds
  <2>2. dispatch => ~has_malformed'
    BY DEF dispatch
  <2> QED BY <2>1, <2>2 DEF LiteralSoFar, LiteralBody, StringLabel, CharLabel
<1> QED BY <1>1, <1>2, <1>3, <1>4, <1>5 DEF StringLabel, CharLabel

LEMMA FinishLiteralTells ==
  ASSUME IInv, LiteralInv, pc \in LiteralBody, NEW quote \in {QUOTE, APOSTROPHE},
         IF peek_byte(0) = quote THEN Advance(1) ELSE UNCHANGED cursor
  PROVE  ~EscapesNonAscii(m_source, start.offset, m_pos') =>
           (WellFormed(Slice(m_source, start.offset, m_pos')) <=> ~has_malformed)
<1> DEFINE s == m_source  from == start.offset
<1>1. from < m_pos /\ Tells(s, from, m_pos, has_malformed)
  BY DEF LiteralInv, LiteralSoFar
<1>2. m_pos \in Nat /\ from \in Nat /\ s \in Seq(Byte) /\ m_pos <= Len(s)
  <2>1. 0 \in Nat
    OBVIOUS
  <2> QED BY <2>1, Peek
<1>3. /\ Tells(s, from, m_pos', has_malformed) /\ from < m_pos'
      /\ m_pos' \in Nat /\ m_pos' <= Len(s)
  <2>1. CASE peek_byte(0) = quote
    <3>1. quote \in 1 .. 127 /\ m_pos' = m_pos + 1
      BY <2>1 DEF QUOTE, APOSTROPHE, Advance
    <3>2. Tells(s, from, m_pos + 1, has_malformed) /\ m_pos + 1 <= Len(s)
      BY <1>1, <2>1, <3>1, AsciiTells
    <3> QED BY <1>1, <1>2, <3>1, <3>2
  <2>2. CASE peek_byte(0) # quote
    BY <1>1, <1>2, <2>2 DEF cursor
  <2> QED BY <2>1, <2>2
<1>4. m_pos' \in m_pos' .. Len(s) /\ from <= m_pos' /\ from - from = 0
  BY <1>2, <1>3
<1>5. Sound(s, from, m_pos', m_pos')
  BY <1>2, <1>3, <1>4, SoundStep
<1>6. WellFormed(Slice(s, from, m_pos')) <=> Sound(s, from, m_pos', from)
  BY <1>4 DEF WellFormed, Sound
<1> QED BY <1>3, <1>4, <1>5, <1>6 DEF Tells

LEMMA LiteralOfKept ==
  ASSUME IInv, Next, Opening, LiteralInv, ~Skipping, NEW kind \in TokenKind, Emit(kind, start)
  PROVE  LiteralOf(m_source, [kind |-> kind, start |-> start, end |-> current_location'])
<1> SUFFICES ASSUME ByteIn(m_source, start.offset, {QUOTE, APOSTROPHE}),
                    ~EscapesNonAscii(m_source, start.offset, m_pos')
             PROVE  (kind = "Error") = ~WellFormed(Slice(m_source, start.offset, m_pos'))
  BY DEF LiteralOf, current_location
<1>1. pc \in StringLabel \/ pc \in CharLabel
  BY DEF Opening, OpenedBy, ByteIn
<1>2. WellFormed(Slice(m_source, start.offset, m_pos')) <=> ~has_malformed
  <2>1. CASE pc \in StringLabel
    <3>1. finish_string
      BY <2>1, EmittedBy
    <3> QED BY <3>1, FinishLiteralTells DEF finish_string, LiteralBody
  <2>2. CASE pc \in CharLabel
    <3>1. finish_char
      BY <2>2, EmittedBy
    <3> QED BY <3>1, FinishLiteralTells DEF finish_char, LiteralBody
  <2> QED BY <1>1, <2>1, <2>2
<1>3. kind = "Error" <=> has_malformed
  BY <1>1, EmittedBy DEF LiteralKind
<1> QED BY <1>2, <1>3

LEMMA LiteralInvKept ==
  ASSUME IInv, Next, Opening, LiteralInv
  PROVE  LiteralInv'
<1>1. m_source' = m_source
  BY SourceStays
<1>2. LiteralSoFar(m_source, start'.offset, m_pos', has_malformed', pc')
  BY LiteralSoFarKept
<1>3. tokens' # <<>> => LiteralOf(m_source, Latest')
  <2>1. CASE tokens' = tokens
    BY <2>1 DEF LiteralInv, Latest
  <2>2. CASE m_pos = Size /\ Latest' = [kind |-> "Eof", start |-> current_location,
                                        end |-> current_location]
    <3>1. m_pos \in Nat
      BY DEF IInv, TypeOK
    <3> QED BY <2>2, <3>1 DEF LiteralOf, ByteIn, current_location, Size
  <2>3. ASSUME ~Skipping, NEW kind \in TokenKind, Emit(kind, start),
               Latest' = [kind |-> kind, start |-> start, end |-> current_location']
        PROVE  LiteralOf(m_source, Latest')
    BY <2>3, LiteralOfKept
  <2> QED BY <2>1, <2>2, <2>3, LatestStep
<1> QED BY <1>1, <1>2, <1>3 DEF LiteralInv

LEMMA LiteralInvHolds == Spec => []LiteralInv
<1>1. Init => LiteralInv
  BY DEF Init, LiteralInv, LiteralSoFar, LiteralBody
<1>2. IInv /\ Opening /\ LiteralInv /\ [Next]_vars => LiteralInv'
  <2>1. ASSUME LiteralInv, UNCHANGED vars PROVE LiteralInv'
    BY <2>1 DEF vars, cursor, call, locals, LiteralInv, Latest
  <2> QED BY <2>1, LiteralInvKept
<1> QED BY <1>1, <1>2, OpeningHolds, PTL DEF Spec

(* A string or character literal is an Error token exactly when its bytes  *)
(* are not well-formed UTF-8, for every source (Lexer.hpp:80, "marking     *)
(* has_malformed if invalid"), unless a backslash stands in front of a     *)
(* byte above 7F.                                                          *)
THEOREM LiteralErrorsAreMalformed == Spec => []LiteralErrorIsMalformed
<1>1. LiteralInv => LiteralErrorIsMalformed
  BY DEF LiteralInv, LiteralErrorIsMalformed, LiteralOf, IsLiteral, WellFormedToken, NewToken
<1> QED BY <1>1, LiteralInvHolds, PTL
-----------------------------------------------------------------------------
(* Trivia.  The first end is the end, for a line comment that begins at    *)
(* b - 2 and for a block comment there.                                    *)
LEMMA LineEndIs ==
  ASSUME NEW s \in Seq(Byte), NEW b \in Nat, NEW o \in Nat, b <= o, o <= Len(s),
         \A q \in b .. o - 1 : ByteAt(s, q) # LF,
         o = Len(s) \/ ByteAt(s, o) = LF
  PROVE  LineEnd(s, b) = o
<1> DEFINE S == {p \in b .. Len(s) : p = Len(s) \/ ByteAt(s, p) = LF}
<1>1. S \in SUBSET Nat /\ o \in S /\ LineEnd(s, b) = MinOffset(S)
  BY DEF LineEnd
<1>2. ASSUME NEW p \in S PROVE o <= p
  <2> SUFFICES ASSUME p < o PROVE FALSE
    OBVIOUS
  <2>1. p \in b .. o - 1 /\ p # Len(s)
    OBVIOUS
  <2> QED BY <2>1
<1> HIDE DEF S
<1> QED BY <1>1, <1>2, MinOffsetIs

LEMMA CommentEndIs ==
  ASSUME NEW s \in Seq(Byte), NEW b \in Nat, NEW o \in Nat, b <= o, o <= Len(s),
         \A q \in b .. o - 3 : ~(ByteAt(s, q) = STAR /\ ByteAt(s, q + 1) = SLASH),
         o = Len(s) \/ (o >= b + 2 /\ ByteAt(s, o - 2) = STAR /\ ByteAt(s, o - 1) = SLASH)
  PROVE  CommentEnd(s, b) = o
<1> DEFINE S == {p \in b .. Len(s) :
                   \/ p = Len(s)
                   \/ p >= b + 2 /\ ByteAt(s, p - 2) = STAR /\ ByteAt(s, p - 1) = SLASH}
<1>1. S \in SUBSET Nat /\ o \in S /\ CommentEnd(s, b) = MinOffset(S)
  BY DEF CommentEnd
<1>2. ASSUME NEW p \in S PROVE o <= p
  <2> SUFFICES ASSUME p < o PROVE FALSE
    OBVIOUS
  <2>1. /\ p >= b + 2 /\ ByteAt(s, p - 2) = STAR /\ ByteAt(s, p - 1) = SLASH
        /\ p - 2 \in b .. o - 3 /\ (p - 2) + 1 = p - 1
    OBVIOUS
  <2> QED BY <2>1
<1> HIDE DEF S
<1> QED BY <1>1, <1>2, MinOffsetIs

(* An item of trivia is not empty and ends inside the text. *)
LEMMA LeastIn ==
  ASSUME NEW S \in SUBSET Nat, S # {}
  PROVE  MinOffset(S) \in S
<1>1. PICK m \in S : \A n \in S : m <= n
  BY LeastExists
<1>2. MinOffset(S) = m
  BY <1>1, MinOffsetIs
<1> QED BY <1>2

LEMMA TriviaEndsFit ==
  ASSUME NEW s \in Seq(Byte), NEW o \in Nat
  PROVE  \A p \in TriviaEnds(s, o) : p \in Nat /\ o < p /\ p <= Len(s)
<1> SUFFICES ASSUME NEW p \in TriviaEnds(s, o)
             PROVE  p \in Nat /\ o < p /\ p <= Len(s)
  OBVIOUS
<1>1. o < Len(s) /\ Len(s) \in Nat
  BY DEF TriviaEnds
<1>2. ASSUME o + 1 < Len(s)
      PROVE  /\ LineEnd(s, o + 2) \in o + 2 .. Len(s)
             /\ CommentEnd(s, o + 2) \in o + 2 .. Len(s)
  <2> DEFINE L == {q \in o + 2 .. Len(s) : q = Len(s) \/ ByteAt(s, q) = LF}
             C == {q \in o + 2 .. Len(s) :
                     \/ q = Len(s)
                     \/ q >= (o + 2) + 2 /\ ByteAt(s, q - 2) = STAR /\ ByteAt(s, q - 1) = SLASH}
  <2>1. /\ L \in SUBSET Nat /\ C \in SUBSET Nat /\ Len(s) \in L /\ Len(s) \in C
        /\ L \subseteq o + 2 .. Len(s) /\ C \subseteq o + 2 .. Len(s)
    BY <1>1, <1>2
  <2>2. LineEnd(s, o + 2) = MinOffset(L) /\ CommentEnd(s, o + 2) = MinOffset(C)
    BY Zenon DEF LineEnd, CommentEnd
  <2> HIDE DEF L, C
  <2>3. L # {} /\ C # {}
    BY <2>1
  <2>4. MinOffset(L) \in L /\ MinOffset(C) \in C
    BY <2>1, <2>3, LeastIn, Zenon
  <2> QED BY <2>1, <2>2, <2>4, Zenon
<1> DEFINE n == decode_utf8(s, o).byte_length
<1>3. n \in 1 .. 4 /\ o + n <= Len(s)
  <2>1. Within(s, o)
    BY <1>1, Bytes
  <2>2. DecodeFits(s, o, decode_utf8(s, o))
    BY <2>1, DecodeUtf8Fits
  <2> QED BY <2>2 DEF DecodeFits, DecodeResult
<1> HIDE DEF n
<1>4. \/ p = o + 1
      \/ o + 1 < Len(s) /\ p \in {LineEnd(s, o + 2), CommentEnd(s, o + 2)}
      \/ p = o + n
  BY DEF TriviaEnds, n
<1> QED BY <1>1, <1>2, <1>3, <1>4

(* The equation of IsTrivia, from a solution of it. *)
IsCovering(s, to, f) ==
  f = [o \in 0 .. to |-> o = to \/ \E p \in TriviaEnds(s, o) : p <= to /\ f[p]]

LEMMA CoveringExists ==
  ASSUME NEW s \in Seq(Byte), NEW to \in Nat
  PROVE  \E f : IsCovering(s, to, f)
<1> DEFINE D == 0 .. to
           After == {e \in D \X D : e[2] \in TriviaEnds(s, e[1])}
<1>1. PICK f : Reaches(D, {to}, After, f)
  BY ReachesHasSolution, Zenon
<1>2. ASSUME NEW o \in D
      PROVE  (o \in {to} \/ \E p \in D : <<o, p>> \in After /\ f[p])
             <=> (o = to \/ \E p \in TriviaEnds(s, o) : p <= to /\ f[p])
  <2>1. \A p \in D : <<o, p>> \in After <=> p \in TriviaEnds(s, o)
    OBVIOUS
  <2>2. \A p \in D : p <= to
    OBVIOUS
  <2>3. \A p \in TriviaEnds(s, o) : p <= to => p \in D
    BY TriviaEndsFit
  <2> HIDE DEF After, D
  <2> QED BY <2>1, <2>2, <2>3, Zenon
<1>3. f = [o \in D |-> o \in {to} \/ \E p \in D : <<o, p>> \in After /\ f[p]]
  BY <1>1, Zenon DEF Reaches
<1> HIDE DEF After, D
<1>4. f = [o \in D |-> o = to \/ \E p \in TriviaEnds(s, o) : p <= to /\ f[p]]
  BY <1>2, <1>3, Zenon
<1> QED BY <1>4, Zenon DEF IsCovering, D

LEMMA IsTriviaStep ==
  ASSUME NEW s \in Seq(Byte), NEW to \in Nat, NEW o \in 0 .. to
  PROVE  IsTrivia(s, o, to) <=>
           (o = to \/ \E p \in TriviaEnds(s, o) : p <= to /\ IsTrivia(s, p, to))
<1> DEFINE F == CHOOSE f : IsCovering(s, to, f)
<1>1. IsCovering(s, to, F)
  BY CoveringExists, Zenon
<1>2. \A q : IsTrivia(s, q, to) = F[q]
  BY Zenon DEF IsTrivia, IsCovering
<1> HIDE DEF F
<1>3. F[o] = (o = to \/ \E p \in TriviaEnds(s, o) : p <= to /\ F[p])
  BY <1>1, Zenon DEF IsCovering
<1> QED BY <1>2, <1>3, Zenon

-----------------------------------------------------------------------------
(* Covers: whatever trivia reaches from o, it reaches from the offset from *)
(* too, so what lies between them is trivia.                               *)
Covers(s, from, o) ==
  /\ from \in Nat /\ from <= o
  /\ \A t \in Nat : o <= t /\ IsTrivia(s, o, t) => IsTrivia(s, from, t)

GapSoFar(s, S, o) == \E from \in S : Covers(s, from, o)

LEMMA GapGrows ==
  ASSUME NEW s \in Seq(Byte), NEW S, NEW o \in Nat, GapSoFar(s, S, o),
         NEW e \in TriviaEnds(s, o)
  PROVE  GapSoFar(s, S, e)
<1>1. e \in Nat /\ o < e
  BY TriviaEndsFit
<1>2. PICK from \in S : Covers(s, from, o)
  BY DEF GapSoFar
<1>3. ASSUME NEW t \in Nat, e <= t, IsTrivia(s, e, t)
      PROVE  IsTrivia(s, from, t)
  <2>1. o \in 0 .. t /\ o <= t
    BY <1>1, <1>3
  <2>2. IsTrivia(s, o, t)
    BY <1>3, <2>1, IsTriviaStep
  <2> QED BY <1>2, <2>1, <2>2 DEF Covers
<1>4. from \in Nat /\ from <= e
  BY <1>1, <1>2 DEF Covers
<1> QED BY <1>3, <1>4 DEF GapSoFar, Covers

LEMMA GapReaches ==
  ASSUME NEW s \in Seq(Byte), NEW S, NEW o \in Nat, GapSoFar(s, S, o)
  PROVE  \E from \in S : IsTrivia(s, from, o)
<1>1. PICK from \in S : Covers(s, from, o)
  BY DEF GapSoFar
<1>2. o \in 0 .. o /\ o <= o
  OBVIOUS
<1>3. IsTrivia(s, o, o)
  BY <1>2, IsTriviaStep
<1> QED BY <1>1, <1>2, <1>3 DEF Covers

LEMMA GapStartsHere ==
  ASSUME NEW s, NEW S, NEW o \in Nat, o \in S
  PROVE  GapSoFar(s, S, o)
<1>1. o <= o
  OBVIOUS
<1> QED BY <1>1 DEF GapSoFar, Covers

-----------------------------------------------------------------------------
(* Inside a comment the scanner has seen its two first bytes, and no end   *)
(* of it so far.                                                           *)
CommentOpens(s, S, o, b, second) ==
  /\ b \in Nat /\ b >= 2 /\ b <= o
  /\ GapSoFar(s, S, b - 2)
  /\ ByteAt(s, b - 2) = SLASH /\ ByteAt(s, b - 1) = second

LineCommentAt(s, S, o, b) ==
  /\ CommentOpens(s, S, o, b, SLASH)
  /\ \A q \in b .. o - 1 : ByteAt(s, q) # LF

BlockCommentAt(s, S, o, b) ==
  /\ CommentOpens(s, S, o, b, STAR)
  /\ \A q \in b .. o - 1 :
       ~(ByteAt(s, q) = STAR /\ q + 1 < Len(s) /\ ByteAt(s, q + 1) = SLASH)

GapAt(s, S, o, label) ==
  /\ label \in {"idle", "skip"} => GapSoFar(s, S, o)
  /\ label = "line_comment" => \E b \in Nat : LineCommentAt(s, S, o, b)
  /\ label = "block_comment" => \E b \in Nat : BlockCommentAt(s, S, o, b)

(* Where a gap that is being scanned, or that ends at the token being      *)
(* scanned, may have begun.                                                *)
Bom(s) == Len(s) >= 3 /\ SubSeq(s, 1, 3) = <<239, 187, 191>>
Origins(s, ts) ==
  IF ts = <<>> THEN {0} \cup (IF Bom(s) THEN {3} ELSE {}) ELSE {ts[Len(ts)].end.offset}

LatestGap ==
  tokens # <<>> =>
    /\ \E from \in LatestGapStarts : IsTrivia(m_source, from, Latest.start.offset)
    /\ TriviaEnds(m_source, Latest.start.offset) = {}

GapInv ==
  /\ GapAt(m_source, Origins(m_source, tokens), m_pos, pc)
  /\ ~Skipping =>
       \E from \in Origins(m_source, tokens) : IsTrivia(m_source, from, start.offset)
  /\ LatestGap

LEMMA CommentEnds ==
  ASSUME NEW s \in Seq(Byte), NEW S, NEW o \in Nat, NEW e \in Nat, o <= e, e <= Len(s),
         NEW b \in Nat,
         \/ /\ LineCommentAt(s, S, o, b) /\ e = o
            /\ o = Len(s) \/ ByteAt(s, o) = LF
         \/ /\ BlockCommentAt(s, S, o, b)
            /\ \/ e = o /\ o = Len(s)
               \/ e = o + 2 /\ ByteAt(s, o) = STAR /\ ByteAt(s, o + 1) = SLASH
  PROVE  GapSoFar(s, S, e)
<1> DEFINE a == b - 2
<1>1. /\ a \in Nat /\ a + 1 = b - 1 /\ a + 2 = b /\ a + 1 < Len(s) /\ a < Len(s) /\ Len(s) \in Nat
      /\ GapSoFar(s, S, a) /\ ByteAt(s, a) = SLASH /\ b <= o
  BY DEF LineCommentAt, BlockCommentAt, CommentOpens
<1> HIDE DEF a
<1>2. SLASH \notin HorizontalSpace \cup {LF} /\ SLASH # STAR
  BY DEF SLASH, STAR, HorizontalSpace, LF
<1>3. CASE LineCommentAt(s, S, o, b) /\ e = o /\ (o = Len(s) \/ ByteAt(s, o) = LF)
  <2>1. ByteAt(s, a + 1) = SLASH /\ \A q \in b .. o - 1 : ByteAt(s, q) # LF
    BY <1>1, <1>3 DEF LineCommentAt, CommentOpens
  <2>2. LineEnd(s, b) = e
    BY <1>1, <1>3, <2>1, LineEndIs
  <2>3. TriviaEnds(s, a) = {e}
    BY <1>1, <1>2, <2>1, <2>2 DEF TriviaEnds
  <2> QED BY <1>1, <2>3, GapGrows
<1>4. CASE /\ BlockCommentAt(s, S, o, b)
           /\ \/ e = o /\ o = Len(s)
              \/ e = o + 2 /\ ByteAt(s, o) = STAR /\ ByteAt(s, o + 1) = SLASH
  <2>1. ByteAt(s, a + 1) = STAR
    BY <1>1, <1>4 DEF BlockCommentAt, CommentOpens
  <2>2. ASSUME NEW q \in b .. e - 3
        PROVE  ~(ByteAt(s, q) = STAR /\ ByteAt(s, q + 1) = SLASH)
    <3>1. q \in b .. o - 1 /\ q + 1 < Len(s)
      BY <1>1, <1>4
    <3> QED BY <1>4, <3>1 DEF BlockCommentAt
  <2>3. e = Len(s) \/ (e >= b + 2 /\ ByteAt(s, e - 2) = STAR /\ ByteAt(s, e - 1) = SLASH)
    <3>1. CASE e = o + 2 /\ ByteAt(s, o) = STAR /\ ByteAt(s, o + 1) = SLASH
      <4>1. e - 2 = o /\ e - 1 = o + 1 /\ e >= b + 2
        BY <1>1, <3>1
      <4> QED BY <3>1, <4>1
    <3> QED BY <1>4, <3>1
  <2>4. b <= e
    BY <1>1
  <2>5. CommentEnd(s, b) = e
    BY <2>2, <2>3, <2>4, CommentEndIs
  <2>6. TriviaEnds(s, a) = {e}
    BY <1>1, <1>2, <2>1, <2>5 DEF TriviaEnds
  <2> QED BY <1>1, <2>6, GapGrows
<1> QED BY <1>3, <1>4

-----------------------------------------------------------------------------
(* The steps that skip. *)
LEMMA TokenizeGap ==
  ASSUME IInv, tokenize \/ next_token, GapInv
  PROVE  GapAt(m_source, Origins(m_source, tokens), m_pos', pc')
<1> DEFINE S == Origins(m_source, tokens)
<1>1. pc = "idle" /\ pc' = "skip" /\ GapSoFar(m_source, S, m_pos)
  BY DEF tokenize, next_token, StartTokenize, GapInv, GapAt
<1>2. GapSoFar(m_source, S, m_pos')
  <2>1. CASE UNCHANGED cursor
    BY <1>1, <2>1 DEF cursor
  <2>2. CASE tokenize /\ HasBom /\ Advance(3)
    <3>1. tokens = <<>> /\ m_pos = 0
      BY <1>1, <2>2 DEF tokenize, IInv, ScannerEntry
    <3>2. m_pos' = 3 /\ 3 \in Nat
      BY <2>2, <3>1 DEF Advance
    <3>3. Bom(m_source)
      BY <2>2 DEF HasBom, Bom
    <3>4. 3 \in S
      BY <3>1, <3>3 DEF Origins
    <3> HIDE DEF S
    <3> QED BY <3>2, <3>4, GapStartsHere
  <2> QED BY <2>1, <2>2 DEF tokenize, next_token, StartTokenize, cursor
<1> QED BY <1>1, <1>2 DEF GapAt

LEMMA WhitespaceGap ==
  ASSUME IInv, skip_whitespace \/ skip_unicode_whitespace, NEW S, GapSoFar(m_source, S, m_pos)
  PROVE  GapAt(m_source, S, m_pos', pc')
<1> DEFINE s == m_source  b == ByteAt(s, m_pos)  n == Here.byte_length
<1>1. pc' = "skip" /\ m_pos \in Nat /\ s \in Seq(Byte) /\ m_pos < Len(s) /\ peek_byte(0) = b
  <2>1. pc' = "skip" /\ ~is_at_end
    BY DEF skip_whitespace, skip_unicode_whitespace, GotoWith, Goto
  <2> QED BY <2>1, Looking
<1>2. m_pos' \in TriviaEnds(s, m_pos)
  <2>1. CASE skip_whitespace
    <3>1. b \in HorizontalSpace \cup {LF} /\ m_pos' = m_pos + 1
      BY <1>1, <2>1 DEF skip_whitespace, Advance, NewLine
    <3> QED BY <1>1, <3>1 DEF TriviaEnds
  <2>2. CASE skip_unicode_whitespace
    <3>1. b > 127 /\ IsWhitespace(decode_utf8(s, m_pos)) /\ m_pos' = m_pos + n
      BY <1>1, <2>2 DEF skip_unicode_whitespace, Advance, NewLine, Here
    <3>2. b \in Byte
      BY <1>1, Bytes
    <3> HIDE DEF b
    <3>3. b \notin HorizontalSpace \cup {LF} /\ b # SLASH
      BY <3>1, <3>2 DEF HorizontalSpace, LF, SLASH
    <3> QED BY <1>1, <3>1, <3>3 DEF TriviaEnds, b, Here
  <2> QED BY <2>1, <2>2
<1>3. GapSoFar(s, S, m_pos')
  BY <1>1, <1>2, GapGrows
<1> QED BY <1>1, <1>3 DEF GapAt

LEMMA OpenCommentGap ==
  ASSUME IInv, open_comment, NEW S, GapSoFar(m_source, S, m_pos)
  PROVE  GapAt(m_source, S, m_pos', pc')
<1> DEFINE s == m_source  b == m_pos + 2
<1>1. /\ m_pos \in Nat /\ m_pos' = b /\ peek_byte(0) = SLASH
      /\ \/ peek_byte(1) = SLASH /\ pc' = "line_comment"
         \/ peek_byte(1) = STAR /\ pc' = "block_comment"
  BY Looking DEF open_comment, Advance, GotoWith, Goto
<1>2. ByteAt(s, m_pos) = SLASH /\ ByteAt(s, m_pos + 1) = peek_byte(1)
  <2>1. SLASH # 0 /\ STAR # 0
    BY DEF SLASH, STAR
  <2> QED BY <1>1, <2>1, Looking
<1>3. b \in Nat /\ b >= 2 /\ b <= b /\ b - 2 = m_pos /\ b - 1 = m_pos + 1 /\ b .. b - 1 = {}
  BY <1>1
<1>4. CommentOpens(s, S, b, b, peek_byte(1))
  BY <1>1, <1>2, <1>3 DEF CommentOpens
<1> HIDE DEF b, s
<1>5. CASE peek_byte(1) = SLASH /\ pc' = "line_comment"
  <2>1. LineCommentAt(s, S, b, b)
    BY <1>3, <1>4, <1>5 DEF LineCommentAt
  <2> QED BY <1>1, <1>3, <1>5, <2>1 DEF GapAt, s
<1>6. CASE peek_byte(1) = STAR /\ pc' = "block_comment"
  <2>1. BlockCommentAt(s, S, b, b)
    BY <1>3, <1>4, <1>6 DEF BlockCommentAt
  <2> QED BY <1>1, <1>3, <1>6, <2>1 DEF GapAt, s
<1> QED BY <1>1, <1>5, <1>6

LEMMA LineCommentGap ==
  ASSUME IInv, skip_line_comment, NEW S, NEW b \in Nat, LineCommentAt(m_source, S, m_pos, b)
  PROVE  GapAt(m_source, S, m_pos', pc')
<1> DEFINE s == m_source
<1>1. CASE is_at_end \/ peek_byte(0) = LF
  <2>1. m_pos' = m_pos /\ pc' = "skip"
    BY <1>1 DEF skip_line_comment, cursor, GotoWith, Goto
  <2>2. m_pos = Len(s) \/ ByteAt(s, m_pos) = LF
    <3>1. LF # 0
      BY DEF LF
    <3> QED BY <1>1, <3>1, Looking
  <2>3. m_pos <= m_pos /\ m_pos <= Len(s) /\ m_pos \in Nat /\ s \in Seq(Byte)
    BY Looking
  <2>4. GapSoFar(s, S, m_pos)
    BY <2>2, <2>3, CommentEnds
  <2> QED BY <2>1, <2>4 DEF GapAt
<1>2. CASE ~(is_at_end \/ peek_byte(0) = LF)
  <2>1. m_pos' = m_pos + 1 /\ pc' = "line_comment"
    BY <1>2 DEF skip_line_comment, Advance, GotoWith, Goto
  <2>2. ByteAt(s, m_pos) # LF /\ m_pos \in Nat
    BY <1>2, Looking
  <2>3. /\ \A q \in b .. (m_pos + 1) - 1 : q \in b .. m_pos - 1 \/ q = m_pos
        /\ b <= m_pos => b <= m_pos + 1
    BY <2>2
  <2>4. LineCommentAt(s, S, m_pos + 1, b)
    BY <2>2, <2>3 DEF LineCommentAt, CommentOpens
  <2> QED BY <2>1, <2>4 DEF GapAt
<1> QED BY <1>1, <1>2

LEMMA BlockCommentGap ==
  ASSUME IInv, skip_block_comment, NEW S, NEW b \in Nat, BlockCommentAt(m_source, S, m_pos, b)
  PROVE  GapAt(m_source, S, m_pos', pc')
<1> DEFINE s == m_source
<1>1. CASE is_at_end /\ UNCHANGED cursor /\ GotoWith("skip")
  <2>1. m_pos' = m_pos /\ pc' = "skip"
    BY <1>1 DEF cursor, GotoWith, Goto
  <2>2. m_pos = Len(s) /\ m_pos <= m_pos /\ m_pos <= Len(s) /\ m_pos \in Nat /\ s \in Seq(Byte)
    BY <1>1, Looking
  <2>3. GapSoFar(s, S, m_pos)
    BY <2>2, CommentEnds
  <2> QED BY <2>1, <2>3 DEF GapAt
<1>2. CASE AtCommentEnd /\ Advance(2) /\ GotoWith("skip")
  <2>1. m_pos' = m_pos + 2 /\ pc' = "skip"
    BY <1>2 DEF Advance, GotoWith, Goto
  <2>2. /\ ByteAt(s, m_pos) = STAR /\ ByteAt(s, m_pos + 1) = SLASH
        /\ m_pos + 1 < Len(s)
    <3>1. SLASH # 0 /\ STAR # 0
      BY DEF SLASH, STAR
    <3> QED BY <1>2, <3>1, Looking DEF AtCommentEnd
  <2>3. m_pos <= m_pos + 2 /\ m_pos + 2 <= Len(s) /\ m_pos + 2 \in Nat /\ m_pos \in Nat
        /\ s \in Seq(Byte)
    BY <2>2, Looking
  <2>4. GapSoFar(s, S, m_pos + 2)
    BY <2>2, <2>3, CommentEnds
  <2> QED BY <2>1, <2>4 DEF GapAt
<1>3. CASE ~is_at_end /\ ~AtCommentEnd /\ advance_codepoint /\ GotoWith("block_comment")
  <2> DEFINE n == Here.byte_length
  <2>1. m_pos' = m_pos + n /\ pc' = "block_comment"
    BY <1>3 DEF advance_codepoint, Advance, NewLine, GotoWith, Goto
  <2>2. n \in 1 .. 4 /\ m_pos \in Nat /\ m_pos < Len(s) /\ s \in Seq(Byte) /\ Size = Len(s)
    BY <1>3, HereFits, Looking DEF IInv
  <2>3. \A i \in 1 .. n - 1 : ContinuationAt(s, m_pos + i)
    <3>1. Within(s, m_pos)
      BY <2>2, Bytes
    <3> QED BY <3>1, DecodeUtf8Fits DEF DecodeFits, Here
  <2>4. ~(ByteAt(s, m_pos) = STAR /\ m_pos + 1 < Len(s) /\ ByteAt(s, m_pos + 1) = SLASH)
    BY <1>3, <2>2, Looking DEF AtCommentEnd
  <2> HIDE DEF n
  <2>5. ASSUME NEW q \in m_pos + 1 .. (m_pos + n) - 1 PROVE ByteAt(s, q) # STAR
    <3>1. q - m_pos \in 1 .. n - 1 /\ m_pos + (q - m_pos) = q
      BY <2>2
    <3>2. ByteAt(s, q) \in 128 .. 191
      BY <2>3, <3>1 DEF ContinuationAt
    <3> QED BY <3>2 DEF STAR
  <2>6. \A q \in b .. (m_pos + n) - 1 :
          q \in b .. m_pos - 1 \/ q = m_pos \/ q \in m_pos + 1 .. (m_pos + n) - 1
    BY <2>2
  <2>7. b <= m_pos => b <= m_pos + n
    BY <2>2
  <2> HIDE DEF s
  <2>8. BlockCommentAt(s, S, m_pos, b)
    BY DEF s
  <2>9. BlockCommentAt(s, S, m_pos + n, b)
    BY <2>4, <2>5, <2>6, <2>7, <2>8 DEF BlockCommentAt, CommentOpens
  <2> QED BY <2>1, <2>9 DEF GapAt, s
<1> QED BY <1>1, <1>2, <1>3 DEF skip_block_comment

(* What a token that is emitted leaves behind. *)
LEMMA EmittedGap ==
  ASSUME IInv, Next, NEW kind, NEW from, Emit(kind, from),
         \E p \in Origins(m_source, tokens) : IsTrivia(m_source, p, from.offset),
         TriviaEnds(m_source, from.offset) = {}
  PROVE  /\ LatestGap' /\ tokens' # <<>> /\ pc' \in {"idle", "skip"}
         /\ GapAt(m_source, Origins(m_source, tokens'), m_pos', pc')
<1> DEFINE t == [kind |-> kind, start |-> from, end |-> current_location']
<1>1. /\ tokens' = Append(tokens, t) /\ tokens \in Seq(Token) /\ m_source' = m_source
      /\ t.start = from /\ t.end.offset = m_pos' /\ pc' \in {"idle", "skip"}
  BY DEF Emit, current_location, call, IInv, TypeOK
<1> HIDE DEF t
<1>2. /\ tokens' # <<>> /\ Len(tokens') = Len(tokens) + 1 /\ tokens'[Len(tokens')] = t
      /\ Len(tokens) \in Nat /\ (tokens = <<>> <=> Len(tokens) = 0)
      /\ \A i \in 1 .. Len(tokens) : tokens'[i] = tokens[i]
  BY <1>1
<1>3. LatestGapStarts' = Origins(m_source, tokens)
  <2>1. HasBom' = Bom(m_source)
    BY <1>1 DEF HasBom, Bom
  <2>2. CASE tokens = <<>>
    BY <1>2, <2>1, <2>2 DEF LatestGapStarts, Origins
  <2>3. CASE tokens # <<>>
    <3>1. /\ Len(tokens') > 1 /\ Len(tokens') - 1 = Len(tokens)
          /\ tokens'[Len(tokens)] = tokens[Len(tokens)]
      BY <1>2, <2>3
    <3> QED BY <2>3, <3>1 DEF LatestGapStarts, Origins
  <2> QED BY <2>2, <2>3
<1>4. Latest'.start = from
  BY <1>1, <1>2 DEF Latest
<1>5. LatestGap'
  BY <1>1, <1>3, <1>4 DEF LatestGap
<1>6. GapSoFar(m_source, Origins(m_source, tokens'), m_pos')
  <2>1. m_pos' \in Nat
    BY NextIInv DEF IInv, TypeOK
  <2>2. m_pos' \in Origins(m_source, tokens')
    BY <1>1, <1>2 DEF Origins
  <2> QED BY <2>1, <2>2, GapStartsHere
<1> QED BY <1>1, <1>2, <1>5, <1>6 DEF GapAt

LEMMA GapInvKept ==
  ASSUME IInv, Next, Opening, GapInv
  PROVE  GapInv'
<1> DEFINE S == Origins(m_source, tokens)
<1>1. m_source' = m_source
  BY SourceStays
<1>2. LatestGap /\ GapAt(m_source, S, m_pos, pc)
      /\ (~Skipping => \E from \in S : IsTrivia(m_source, from, start.offset))
  BY DEF GapInv
<1>3. tokens' = tokens => LatestGap'
  BY <1>1, <1>2 DEF LatestGap, LatestGapStarts, Latest, HasBom
<1>4. CASE Skips
  <2>1. tokens' = tokens /\ Skipping /\ pc' \in {"skip", "line_comment", "block_comment"}
    BY <1>4 DEF Skips
  <2>2. GapAt(m_source, S, m_pos', pc')
    <3>1. CASE pc = "idle"
      BY <3>1, StepAt, TokenizeGap
    <3>2. CASE pc = "skip"
      <4>1. GapSoFar(m_source, S, m_pos)
        BY <1>2, <3>2 DEF GapAt
      <4>2. ~dispatch /\ ~end_of_input
        <5>1. dispatch => pc' \notin {"skip", "line_comment", "block_comment"}
          BY DEF dispatch, Goto, Scanner
        <5>2. end_of_input => tokens' # tokens
          BY DEF end_of_input, Emit, IInv, TypeOK
        <5> QED BY <2>1, <5>1, <5>2
      <4> HIDE DEF S
      <4> QED BY <3>2, <4>1, <4>2, StepAt, WhitespaceGap, OpenCommentGap
    <3>3. CASE pc = "line_comment"
      <4>1. PICK b \in Nat : LineCommentAt(m_source, S, m_pos, b)
        BY <1>2, <3>3 DEF GapAt
      <4> HIDE DEF S
      <4> QED BY <3>3, <4>1, StepAt, LineCommentGap
    <3>4. CASE pc = "block_comment"
      <4>1. PICK b \in Nat : BlockCommentAt(m_source, S, m_pos, b)
        BY <1>2, <3>4 DEF GapAt
      <4> HIDE DEF S
      <4> QED BY <3>4, <4>1, StepAt, BlockCommentGap
    <3> QED BY <2>1, <3>1, <3>2, <3>3, <3>4 DEF Skipping
  <2> QED BY <1>1, <1>3, <2>1, <2>2 DEF GapInv, Skipping
<1>5. CASE dispatch
  <2>1. /\ tokens' = tokens /\ start'.offset = m_pos /\ pc = "skip"
        /\ pc' \in {"number", "hash", "string", "char", "word", "operator"}
    BY <1>5 DEF dispatch, current_location, Goto, Scanner
  <2>2. \E from \in S : IsTrivia(m_source, from, m_pos)
    <3>1. GapSoFar(m_source, S, m_pos)
      BY <1>2, <2>1 DEF GapAt
    <3> HIDE DEF S
    <3> QED BY <3>1, Looking, GapReaches
  <2> QED BY <1>1, <1>3, <2>1, <2>2 DEF GapInv, GapAt
<1>6. CASE Scans
  <2>1. /\ tokens' = tokens /\ start' = start /\ ~Skipping
        /\ pc' \notin {"idle", "skip", "line_comment", "block_comment"}
    BY <1>6 DEF Scans, BodyLabel
  <2> QED BY <1>1, <1>2, <1>3, <2>1 DEF GapInv, GapAt
<1>7. CASE Emits \/ end_of_input
  <2>1. /\ LatestGap' /\ tokens' # <<>> /\ pc' \in {"idle", "skip"}
        /\ GapAt(m_source, Origins(m_source, tokens'), m_pos', pc')
    <3>1. CASE Emits
      <4>1. PICK kind : Emit(kind, start)
        BY <3>1 DEF Emits
      <4>2. /\ TriviaEnds(m_source, start.offset) = {}
            /\ \E p \in Origins(m_source, tokens) : IsTrivia(m_source, p, start.offset)
        BY <1>2, <3>1 DEF Emits, Opening, OpenedBy
      <4> QED BY <4>1, <4>2, EmittedGap
    <3>2. CASE end_of_input
      <4>1. /\ Emit("Eof", current_location) /\ pc = "skip" /\ is_at_end
            /\ current_location.offset = m_pos
        BY <3>2 DEF end_of_input, current_location
      <4>2. GapSoFar(m_source, S, m_pos)
        BY <1>2, <4>1 DEF GapAt
      <4>3. \E p \in S : IsTrivia(m_source, p, m_pos)
        <5> HIDE DEF S
        <5> QED BY <4>2, Looking, GapReaches
      <4>4. TriviaEnds(m_source, m_pos) = {}
        BY <4>1, Looking DEF TriviaEnds
      <4> QED BY <4>1, <4>3, <4>4, EmittedGap
    <3> QED BY <1>7, <3>1, <3>2
  <2> QED BY <1>1, <2>1 DEF GapInv, Skipping
<1> QED BY <1>4, <1>5, <1>6, <1>7, StepKinds

LEMMA InitGapInv == Init => GapInv
<1> SUFFICES ASSUME Init PROVE GapInv
  OBVIOUS
<1>1. pc = "idle" /\ tokens = <<>> /\ m_pos = 0 /\ 0 \in Nat
  BY DEF Init
<1>2. 0 \in Origins(m_source, tokens)
  BY <1>1 DEF Origins
<1>3. GapSoFar(m_source, Origins(m_source, tokens), m_pos)
  BY <1>1, <1>2, GapStartsHere
<1> QED BY <1>1, <1>3 DEF GapInv, GapAt, Skipping, LatestGap

LEMMA GapInvHolds == Spec => []GapInv
<1>1. IInv /\ Opening /\ GapInv /\ [Next]_vars => GapInv'
  <2>1. ASSUME GapInv, UNCHANGED vars PROVE GapInv'
    BY <2>1 DEF vars, cursor, call, locals, GapInv, LatestGap, LatestGapStarts, Latest,
       HasBom, Skipping
  <2> QED BY <2>1, GapInvKept
<1> QED BY <1>1, InitGapInv, OpeningHolds, PTL DEF Spec

(* Of any source, the lexer loses nothing between two tokens: what lies    *)
(* there is white space and whole comments, read from the end of the       *)
(* earlier one as the definition of trivia reads it, and no token begins   *)
(* where trivia could (skip_whitespace_and_comments and next_token,        *)
(* Lexer.cpp), for a client that calls tokenize() once and first.          *)
THEOREM NothingIsLost == Spec => []GapsAreTrivia
<1>1. GapInv => GapsAreTrivia
  BY DEF GapInv, LatestGap, GapsAreTrivia, NewToken
<1> QED BY <1>1, GapInvHolds, PTL
=============================================================================
