----------------------------- MODULE LexerProofs -----------------------------
(***************************************************************************)
(* Safety of the lexer for every set of sources and every choice of        *)
(* Unicode classes: the cursor stays within the source, the locations      *)
(* agree, and the tokens implement TokenStream.                            *)
(***************************************************************************)
EXTENDS LexerProperties, Utf8Theorems, SequenceTheorems

(* b is where the lexer can be some bytes after it was at a. *)
Behind(a, b) ==
  /\ a.offset <= b.offset
  /\ a.line <= b.line
  /\ a.line = b.line => b.column - a.column = b.offset - a.offset
  /\ a.line < b.line => a.offset < b.offset

Skipping == pc \in {"idle", "skip", "line_comment", "block_comment"}
AtStart  == pc \in {"number", "hash", "string", "char", "operator"}
Floor    == IF Skipping THEN current_location ELSE start

TokenLocations ==
  {tokens[i].start : i \in DOMAIN tokens} \cup {tokens[i].end : i \in DOMAIN tokens}

(* What a scanner may rely on when it is entered: the byte that chose it   *)
(* is still unread, or it has consumed something already.                  *)
ScannerEntry ==
  /\ pc = "idle" /\ tokens = <<>> => m_pos = 0
  /\ AtStart => m_pos < Size /\ start = current_location
  /\ pc = "number" => AtNumber
  /\ pc = "word" /\ start.offset = m_pos => WordContinues
  /\ ~Skipping => Behind(start, current_location)
  /\ ~Skipping /\ ~AtStart /\ pc # "word" => start.offset < m_pos

(* What try_scan_exponent may fall back to lies behind the token's start.  *)
SavedLocation == [line |-> m_line, column |-> saved.column, offset |-> saved.pos]
RollbackSafe ==
  pc = "exponent_digits" =>
    start.offset < saved.pos /\ Behind(start, SavedLocation)

(* The tokens' locations form a chain that ends where the lexer goes on.   *)
TokenChain ==
  /\ \A a \in TokenLocations : Behind(a, Floor)
  /\ \A a, b \in TokenLocations : Behind(a, b) \/ Behind(b, a)
  /\ \A i \in DOMAIN tokens : Behind(tokens[i].start, tokens[i].end)

IInv == TypeOK /\ ScannerEntry /\ RollbackSafe /\ TokenChain
-----------------------------------------------------------------------------
(* The order of locations. *)
LEMMA BehindRefl ==
  ASSUME NEW a \in Location
  PROVE  Behind(a, a)
BY DEF Behind, Location

LEMMA BehindTrans ==
  ASSUME NEW a \in Location, NEW b \in Location, NEW c \in Location,
         Behind(a, b), Behind(b, c)
  PROVE  Behind(a, c)
BY DEF Behind, Location

LEMMA BehindAgrees ==
  ASSUME NEW a \in Location, NEW b \in Location, Behind(a, b)
  PROVE  Agree(a, b) /\ Agree(b, a)
<1> DEFINE al == a.line  ac == a.column  ao == a.offset
           bl == b.line  bc == b.column  bo == b.offset
<1>1. /\ al \in Nat /\ ac \in Nat /\ ao \in Nat
      /\ bl \in Nat /\ bc \in Nat /\ bo \in Nat
  BY DEF Location
<1>2. /\ ao <= bo /\ al <= bl
      /\ al = bl => bc - ac = bo - ao
      /\ al < bl => ao < bo
  BY DEF Behind
<1> HIDE DEF al, ac, ao, bl, bc, bo
<1>3. \/ al < bl
      \/ al = bl /\ ac < bc
      \/ al = bl /\ ac = bc /\ ao <= bo
  BY <1>1, <1>2
<1>4. \/ bl < al
      \/ bl = al /\ bc < ac
      \/ bl = al /\ bc = ac /\ bo <= ao
      <=> bo <= ao
  BY <1>1, <1>2
<1>5. bl = al => ac - bc = ao - bo
  BY <1>1, <1>2
<1>6. Before(a, b) = (al < bl \/ (al = bl /\ ac < bc)
                              \/ (al = bl /\ ac = bc /\ ao <= bo))
  BY Zenon DEF Before, al, ac, ao, bl, bc, bo
<1>7. Before(b, a) = (bl < al \/ (bl = al /\ bc < ac)
                              \/ (bl = al /\ bc = ac /\ bo <= ao))
  BY Zenon DEF Before, al, ac, ao, bl, bc, bo
<1>8. /\ al = bl => bc - ac = bo - ao
      /\ Before(a, b) = (ao <= bo)
  BY <1>2, <1>3, <1>6
<1>9. /\ bl = al => ac - bc = ao - bo
      /\ Before(b, a) = (bo <= ao)
  BY <1>4, <1>5, <1>7
<1> QED BY <1>8, <1>9 DEF Agree, al, ac, ao, bl, bc, bo
-----------------------------------------------------------------------------
(* The cursor's types without the sequences, which is all that the         *)
(* arithmetic of a step needs.                                             *)
CursorTypes ==
  /\ Size \in Nat
  /\ m_pos \in Nat /\ m_pos <= Size
  /\ m_line \in Nat \ {0} /\ m_column \in Nat \ {0}

LEMMA CursorTyped ==
  ASSUME TypeOK
  PROVE  CursorTypes /\ current_location \in Location
<1>1. CursorTypes
  BY DEF TypeOK, CursorTypes, Size
<1> QED BY <1>1 DEF CursorTypes, current_location, Location

(* A step that takes the cursor on, within the source. *)
Moved ==
  /\ m_pos' \in Nat /\ m_pos' <= Size
  /\ m_line' \in Nat \ {0} /\ m_column' \in Nat \ {0}
  /\ Behind(current_location, current_location')

LEMMA StayMoves ==
  ASSUME CursorTypes, UNCHANGED cursor
  PROVE  Moved
BY DEF CursorTypes, cursor, Moved, Behind, current_location

LEMMA AdvanceMoves ==
  ASSUME CursorTypes, NEW n \in Nat, m_pos + n <= Size, Advance(n)
  PROVE  Moved /\ m_pos' = m_pos + n
BY DEF CursorTypes, Advance, Moved, Behind, current_location

LEMMA NewLineMoves ==
  ASSUME CursorTypes, NEW n \in Nat \ {0}, m_pos + n <= Size, NewLine(n)
  PROVE  Moved /\ m_pos' = m_pos + n
BY DEF CursorTypes, NewLine, Moved, Behind, current_location
-----------------------------------------------------------------------------
(* The bytes in front of the cursor.                                       *)
LEMMA PeekedIsThere ==
  ASSUME CursorTypes, NEW k \in Nat, peek_byte(k) # 0
  PROVE  m_pos + k < Size /\ ~is_at_end
BY DEF CursorTypes, peek_byte, Available, is_at_end, Size

LEMMA HereFits ==
  ASSUME TypeOK, ~is_at_end
  PROVE  /\ Here.byte_length \in 1 .. 4
         /\ m_pos + Here.byte_length <= Size
<1>1. Within(m_source, m_pos)
  BY DEF TypeOK, is_at_end, Within, Size
<1>2. DecodeFits(m_source, m_pos, Here)
  BY <1>1, DecodeUtf8Fits DEF Here
<1>3. Here \in DecodeResult /\ m_pos + Here.byte_length <= Size
  BY <1>2 DEF DecodeFits, Size
<1> QED BY <1>3 DEF DecodeResult

LEMMA AdvanceCodepointMoves ==
  ASSUME TypeOK, ~is_at_end, advance_codepoint
  PROVE  Moved /\ m_pos < m_pos'
<1> DEFINE n == Here.byte_length
<1>1. CursorTypes
  BY CursorTyped
<1>2. n \in 1 .. 4 /\ m_pos + n <= Size
  BY HereFits
<1>3. NewLine(n) \/ Advance(n)
  BY Zenon DEF advance_codepoint
<1> HIDE DEF n
<1>4. Moved /\ m_pos' = m_pos + n
  BY <1>1, <1>2, <1>3, NewLineMoves, AdvanceMoves
<1> QED BY <1>1, <1>2, <1>4 DEF CursorTypes
-----------------------------------------------------------------------------
(* The five kinds of step.  A step between two tokens. *)
Skips ==
  /\ Skipping /\ Moved
  /\ pc' \in {"skip", "line_comment", "block_comment"}
  /\ UNCHANGED <<m_source, tokens, locals>>
  /\ tokenizing' \in BOOLEAN /\ calls' \in 0 .. MaxCalls

(* The cursor is behind the first byte of the token being scanned. *)
Past ==
  /\ m_pos' \in Nat /\ m_pos' <= Size
  /\ m_line' \in Nat \ {0} /\ m_column' \in Nat \ {0}
  /\ Behind(start, current_location')
  /\ start.offset < m_pos'

(* A step inside a token. *)
BodyLabel == {"word", "exponent", "exponent_digits", "type_suffix", "based",
              "string_body", "string_escape", "char_body", "char_escape",
              "char_close"}
Scans ==
  /\ ~Skipping /\ Past
  /\ pc' \in BodyLabel
  /\ UNCHANGED <<call, tokens, start>>
  /\ seen_unicode' \in BOOLEAN /\ has_malformed' \in BOOLEAN
  /\ saved' \in [pos : 0 .. Size, column : Nat \ {0}]
  /\ base' \in Byte
  /\ RollbackSafe'

(* The end of a token. *)
Emits == ~Skipping /\ Past /\ \E kind \in TokenKind \ {"Eof"} : Emit(kind, start)

LEMMA MovedPast ==
  ASSUME IInv, ~Skipping, Moved, start.offset < m_pos \/ m_pos < m_pos'
  PROVE  Past
<1>1. CursorTypes /\ current_location \in Location /\ start \in Location
  BY CursorTyped DEF IInv, TypeOK
<1>2. current_location' \in Location
  BY DEF Moved, current_location, Location
<1>3. Behind(start, current_location)
  BY DEF IInv, ScannerEntry
<1>4. Behind(start, current_location')
  BY <1>1, <1>2, <1>3, BehindTrans DEF Moved
<1>5. start.offset <= m_pos /\ m_pos <= m_pos'
  BY <1>3 DEF Moved, Behind, current_location
<1>6. start.offset \in Nat /\ m_pos \in Nat /\ m_pos' \in Nat
  BY <1>1 DEF Location, CursorTypes, Moved
<1>7. start.offset < m_pos'
  BY <1>5, <1>6
<1> QED BY <1>4, <1>7 DEF Past, Moved
-----------------------------------------------------------------------------
(* Each kind of step preserves the invariant. *)
LEMMA TokenLocationsTyped ==
  ASSUME TypeOK
  PROVE  TokenLocations \subseteq Location
<1>1. \A i \in DOMAIN tokens : tokens[i] \in Token
  BY DEF TypeOK
<1>2. \A t \in Token : t.start \in Location /\ t.end \in Location
  BY DEF Token
<1> QED BY <1>1, <1>2 DEF TokenLocations

LEMMA FloorTyped ==
  ASSUME TypeOK
  PROVE  Floor \in Location
BY CursorTyped DEF Floor, TypeOK

LEMMA SkipsKeep ==
  ASSUME IInv, Skips
  PROVE  IInv'
<1>1. /\ Skipping /\ Moved /\ pc' \in {"skip", "line_comment", "block_comment"}
      /\ m_source' = m_source /\ tokens' = tokens
      /\ start' = start /\ saved' = saved /\ base' = base
      /\ seen_unicode' = seen_unicode /\ has_malformed' = has_malformed
      /\ tokenizing' \in BOOLEAN /\ calls' \in 0 .. MaxCalls
  BY DEF Skips, locals
<1>2. TypeOK'
  <2>1. m_pos' \in 0 .. Size' /\ saved' \in [pos : 0 .. Size', column : Nat \ {0}]
    BY <1>1 DEF IInv, TypeOK, Moved, Size
  <2>2. m_line' \in Nat \ {0} /\ m_column' \in Nat \ {0}
    BY <1>1 DEF Moved
  <2>3. pc' \in Label
    BY <1>1 DEF Label
  <2> QED BY <1>1, <2>1, <2>2, <2>3 DEF IInv, TypeOK
<1>3. ScannerEntry' /\ RollbackSafe'
  BY <1>1 DEF ScannerEntry, RollbackSafe, Skipping, AtStart
<1>4. TokenChain'
  <2>1. TokenLocations' = TokenLocations /\ TokenLocations \subseteq Location
    BY <1>1, TokenLocationsTyped DEF TokenLocations, IInv
  <2>2. Floor = current_location /\ Floor' = current_location'
    BY <1>1 DEF Floor, Skipping
  <2>3. current_location \in Location /\ current_location' \in Location
    BY <1>2, CursorTyped DEF IInv, TypeOK, current_location, Location
  <2>4. \A a \in TokenLocations : Behind(a, current_location')
    BY <1>1, <2>1, <2>2, <2>3, BehindTrans DEF IInv, TokenChain, Moved
  <2>5. \A i \in DOMAIN tokens' : Behind(tokens[i].start, tokens[i].end)
    BY <1>1 DEF IInv, TokenChain
  <2> QED BY <1>1, <2>1, <2>2, <2>4, <2>5 DEF IInv, TokenChain
<1> QED BY <1>2, <1>3, <1>4 DEF IInv

LEMMA ScansKeep ==
  ASSUME IInv, Scans
  PROVE  IInv'
<1>1. /\ ~Skipping /\ Past /\ pc' \in BodyLabel
      /\ m_source' = m_source /\ tokens' = tokens /\ start' = start
      /\ tokenizing' = tokenizing /\ calls' = calls
      /\ seen_unicode' \in BOOLEAN /\ has_malformed' \in BOOLEAN
      /\ saved' \in [pos : 0 .. Size, column : Nat \ {0}]
      /\ base' \in Byte
  BY DEF Scans, call
<1>2. TypeOK'
  <2>1. m_pos' \in 0 .. Size' /\ saved' \in [pos : 0 .. Size', column : Nat \ {0}]
    BY <1>1 DEF Past, Size
  <2>2. m_line' \in Nat \ {0} /\ m_column' \in Nat \ {0}
    BY <1>1 DEF Past
  <2>3. pc' \in Label
    BY <1>1 DEF Label, BodyLabel
  <2> QED BY <1>1, <2>1, <2>2, <2>3 DEF IInv, TypeOK
<1>3. ~Skipping' /\ ~AtStart' /\ pc' # "idle" /\ pc' # "number"
  BY <1>1 DEF Skipping, AtStart, BodyLabel
<1>4. ScannerEntry'
  <2>1. start'.offset < m_pos' /\ Behind(start', current_location')
    BY <1>1 DEF Past
  <2>2. start'.offset # m_pos'
    BY <1>1, <2>1 DEF IInv, TypeOK, Location, Past
  <2> QED BY <1>3, <2>1, <2>2 DEF ScannerEntry
<1>5. TokenChain'
  <2>1. TokenLocations' = TokenLocations
    BY <1>1 DEF TokenLocations
  <2>2. Floor' = Floor
    BY <1>1, <1>3 DEF Floor
  <2> QED BY <1>1, <2>1, <2>2 DEF IInv, TokenChain
<1> QED BY <1>2, <1>4, <1>5 DEF IInv, Scans

(* A token from the floor to a place behind it extends the chain. *)
LEMMA AppendChain ==
  ASSUME IInv, NEW kind \in TokenKind, NEW to \in Location, Behind(Floor, to),
         tokens' = Append(tokens, [kind |-> kind, start |-> Floor, end |-> to])
  PROVE  /\ tokens' \in Seq(Token)
         /\ \A a \in TokenLocations' : Behind(a, to)
         /\ \A a, b \in TokenLocations' : Behind(a, b) \/ Behind(b, a)
         /\ \A i \in DOMAIN tokens' : Behind(tokens'[i].start, tokens'[i].end)
<1> DEFINE t == [kind |-> kind, start |-> Floor, end |-> to]
<1>1. t \in Token /\ t.start = Floor /\ t.end = to /\ Floor \in Location
  BY FloorTyped DEF Token, IInv
<1>2. tokens \in Seq(Token) /\ tokens' = Append(tokens, t)
  BY DEF IInv, TypeOK
<1> HIDE DEF t
<1>3. tokens' \in Seq(Token)
  BY <1>1, <1>2
<1>4. \A i \in DOMAIN tokens' : tokens'[i] = t \/ (i \in DOMAIN tokens /\ tokens'[i] = tokens[i])
  BY <1>2
<1>5. \A a \in TokenLocations' : a \in TokenLocations \/ a = Floor \/ a = to
  BY <1>1, <1>4 DEF TokenLocations
<1>6. \A a \in TokenLocations : a \in Location /\ Behind(a, Floor) /\ Behind(a, to)
  BY <1>1, TokenLocationsTyped, BehindTrans DEF IInv, TokenChain
<1>7. Behind(to, to) /\ Behind(Floor, Floor)
  BY <1>1, BehindRefl
<1>8. \A a \in TokenLocations' : Behind(a, to)
  BY <1>5, <1>6, <1>7
<1>9. \A a, b \in TokenLocations' : Behind(a, b) \/ Behind(b, a)
  BY <1>5, <1>6, <1>7 DEF IInv, TokenChain
<1>10. \A i \in DOMAIN tokens' : Behind(tokens'[i].start, tokens'[i].end)
  BY <1>1, <1>4 DEF IInv, TokenChain
<1> QED BY <1>3, <1>8, <1>9, <1>10

(* What Emit leaves behind, in either of its uses. *)
LEMMA EmittedKeeps ==
  ASSUME IInv, NEW kind \in TokenKind, Emit(kind, Floor),
         m_pos' \in Nat, m_pos' <= Size,
         m_line' \in Nat \ {0}, m_column' \in Nat \ {0},
         Behind(Floor, current_location')
  PROVE  IInv'
<1>1. /\ tokens' = Append(tokens, [kind |-> kind, start |-> Floor, end |-> current_location'])
      /\ pc' \in {"skip", "idle"}
      /\ m_source' = m_source /\ tokenizing' = tokenizing /\ calls' = calls
      /\ start' = start /\ saved' = saved /\ base' = base
      /\ seen_unicode' = seen_unicode /\ has_malformed' = has_malformed
  BY DEF Emit, call, locals, current_location
<1>2. current_location' \in Location
  BY DEF current_location, Location
<1>3. /\ tokens' \in Seq(Token)
      /\ \A a \in TokenLocations' : Behind(a, current_location')
      /\ \A a, b \in TokenLocations' : Behind(a, b) \/ Behind(b, a)
      /\ \A i \in DOMAIN tokens' : Behind(tokens'[i].start, tokens'[i].end)
  BY <1>1, <1>2, AppendChain
<1>4. TypeOK'
  <2>1. m_pos' \in 0 .. Size' /\ saved' \in [pos : 0 .. Size', column : Nat \ {0}]
    BY <1>1 DEF IInv, TypeOK, Size
  <2>2. pc' \in Label
    BY <1>1 DEF Label
  <2> QED BY <1>1, <1>3, <2>1, <2>2 DEF IInv, TypeOK
<1>5. ScannerEntry' /\ RollbackSafe'
  <2>1. tokens' # <<>>
    BY <1>1 DEF IInv, TypeOK
  <2> QED BY <1>1, <2>1 DEF ScannerEntry, RollbackSafe, Skipping, AtStart
<1>6. Floor' = current_location'
  BY <1>1 DEF Floor, Skipping
<1> QED BY <1>3, <1>4, <1>5, <1>6 DEF IInv, TokenChain

LEMMA EmitsKeep ==
  ASSUME IInv, Emits
  PROVE  IInv'
<1>1. Floor = start
  BY DEF Emits, Floor
<1>2. PICK kind \in TokenKind \ {"Eof"} : Emit(kind, Floor)
  BY <1>1 DEF Emits
<1> QED BY <1>1, <1>2, EmittedKeeps DEF Emits, Past

LEMMA EndKeeps ==
  ASSUME IInv, end_of_input
  PROVE  IInv'
<1>1. CursorTypes /\ current_location \in Location
  BY CursorTyped DEF IInv
<1>2. UNCHANGED cursor /\ Floor = current_location /\ Emit("Eof", Floor)
  BY DEF end_of_input, Floor, Skipping
<1>3. Moved
  BY <1>1, <1>2, StayMoves
<1>4. "Eof" \in TokenKind
  BY DEF TokenKind
<1> QED BY <1>2, <1>3, <1>4, EmittedKeeps DEF Moved

(* A word is entered at a byte that continues it. *)
LEMMA DispatchEntersWord ==
  ASSUME TypeOK, ~is_at_end, Scanner = "word"
  PROVE  WordContinues
<1> DEFINE first == peek_byte(0)
<1>1. first \in Alpha \cup {UNDERSCORE} \/ (first > 127 /\ Here.codepoint \in IdStart)
  BY DEF Scanner
<1>2. CASE first \in Alpha \cup {UNDERSCORE}
  BY <1>2 DEF WordContinues, WordByte, Alpha, UNDERSCORE
<1>3. CASE first > 127 /\ Here.codepoint \in IdStart
  <2>1. first \in Byte
    <3>1. Within(m_source, m_pos)
      BY DEF TypeOK, Within, is_at_end, Size
    <3>2. m_pos + 0 = m_pos /\ Available(0)
      BY DEF TypeOK, Available, is_at_end, Size
    <3>3. first = ByteAt(m_source, m_pos)
      BY <3>2 DEF peek_byte
    <3> QED BY <3>1, <3>3, ByteAtIsByte
  <2>2. ~(first < 128)
    BY <1>3, <2>1 DEF Byte
  <2> QED BY <1>3, <2>2, ClassesAssumption DEF WordContinues
<1> QED BY <1>1, <1>2, <1>3

LEMMA DispatchKeeps ==
  ASSUME IInv, dispatch
  PROVE  IInv'
<1>1. /\ pc = "skip" /\ ~is_at_end
      /\ m_pos' = m_pos /\ m_line' = m_line /\ m_column' = m_column
      /\ start' = current_location /\ current_location' = current_location
      /\ seen_unicode' = (peek_byte(0) > 127) /\ has_malformed' = FALSE
      /\ pc' = Scanner
      /\ m_source' = m_source /\ tokens' = tokens
      /\ tokenizing' = tokenizing /\ calls' = calls
      /\ saved' = saved /\ base' = base
  BY DEF dispatch, Goto, cursor, call, current_location
<1>2. CursorTypes /\ current_location \in Location
  BY CursorTyped DEF IInv
<1>3. Scanner \in {"number", "hash", "string", "char", "word", "operator"}
  BY DEF Scanner
<1>4. Scanner = "number" => AtNumber
  BY DEF Scanner
<1>5. Scanner = "word" => WordContinues
  BY <1>1, DispatchEntersWord DEF IInv
<1>6. AtNumber' = AtNumber /\ WordContinues' = WordContinues /\ Size' = Size
  BY <1>1 DEF AtNumber, WordContinues, peek_byte, Available, Here, is_at_end, Size
<1>7. TypeOK'
  <2>1. pc' \in Label
    BY <1>1, <1>3 DEF Label
  <2>2. seen_unicode' \in BOOLEAN /\ has_malformed' \in BOOLEAN
    <3>1. (peek_byte(0) > 127) \in BOOLEAN
      OBVIOUS
    <3> QED BY Zenon, <1>1, <3>1
  <2>3. start' \in Location
    BY <1>1, <1>2
  <2>4. m_pos' \in 0 .. Size' /\ saved' \in [pos : 0 .. Size', column : Nat \ {0}]
    BY <1>1, <1>6 DEF IInv, TypeOK
  <2> QED BY <1>1, <2>1, <2>2, <2>3, <2>4 DEF IInv, TypeOK
<1>8. m_pos < Size
  BY <1>1, <1>2 DEF is_at_end, CursorTypes, Size
<1>9. ~Skipping' /\ pc' # "idle"
  BY <1>1, <1>3 DEF Skipping
<1>10. ScannerEntry'
  <2>1. AtStart' \/ pc' = "word"
    BY <1>1, <1>3 DEF AtStart
  <2>2. Behind(start', current_location')
    BY <1>1, <1>2, BehindRefl
  <2>3. AtStart' => m_pos' < Size' /\ start' = current_location'
    BY <1>1, <1>6, <1>8
  <2>4. /\ pc' = "number" => AtNumber'
        /\ pc' = "word" => WordContinues'
    BY <1>1, <1>4, <1>5, <1>6
  <2> QED BY <1>9, <2>1, <2>2, <2>3, <2>4 DEF ScannerEntry
<1>11. RollbackSafe'
  BY <1>1, <1>3 DEF RollbackSafe
<1>12. Floor' = Floor /\ TokenLocations' = TokenLocations
  BY <1>1, <1>9 DEF Floor, Skipping, TokenLocations
<1> QED BY <1>1, <1>7, <1>10, <1>11, <1>12 DEF IInv, TokenChain

-----------------------------------------------------------------------------
(* Every action is a step of one of the five kinds.  First the actions     *)
(* between tokens. *)
LEMMA GotoSkips ==
  ASSUME IInv, Skipping, Moved, NEW label \in {"skip", "line_comment", "block_comment"},
         GotoWith(label)
  PROVE  Skips
BY DEF GotoWith, Goto, call, Skips, IInv, TypeOK

LEMMA TokenizeSkips ==
  ASSUME IInv, tokenize
  PROVE  Skips
<1>1. CursorTypes /\ Skipping
  BY CursorTyped DEF IInv, tokenize, StartTokenize, Skipping
<1>2. CASE HasBom
  <2>1. m_pos + 3 <= Size
    <3>1. m_pos = 0
      BY DEF tokenize, StartTokenize, IInv, ScannerEntry
    <3>2. Size >= 3
      BY <1>2 DEF HasBom, Size
    <3> QED BY <1>1, <3>1, <3>2 DEF CursorTypes
  <2>2. Advance(3)
    BY <1>2 DEF tokenize, StartTokenize
  <2>3. Moved
    BY <1>1, <2>1, <2>2, AdvanceMoves
  <2> QED BY <1>1, <2>3 DEF Skips, tokenize, StartTokenize, IInv, TypeOK
<1>3. CASE ~HasBom
  <2>1. Moved
    BY <1>1, <1>3, StayMoves DEF tokenize, StartTokenize
  <2> QED BY <1>1, <2>1 DEF Skips, tokenize, StartTokenize, IInv, TypeOK
<1> QED BY <1>2, <1>3

LEMMA NextTokenSkips ==
  ASSUME IInv, next_token
  PROVE  Skips
<1>1. Moved /\ Skipping
  BY CursorTyped, StayMoves DEF IInv, next_token, Skipping
<1>2. calls' \in 0 .. MaxCalls
  BY MaxCallsAssumption DEF next_token, IInv, TypeOK
<1> QED BY <1>1, <1>2 DEF Skips, next_token

LEMMA WhitespaceSkips ==
  ASSUME IInv, skip_whitespace
  PROVE  Skips
<1>1. CursorTypes /\ Skipping
  BY CursorTyped DEF IInv, skip_whitespace, Skipping
<1>2. m_pos + 1 <= Size
  BY <1>1, PeekedIsThere DEF skip_whitespace, is_at_end, CursorTypes, Size
<1>3. Moved
  BY <1>1, <1>2, AdvanceMoves, NewLineMoves DEF skip_whitespace
<1> QED BY <1>1, <1>3, GotoSkips DEF skip_whitespace

LEMMA UnicodeWhitespaceSkips ==
  ASSUME IInv, skip_unicode_whitespace
  PROVE  Skips
<1> DEFINE n == Here.byte_length
<1>1. CursorTypes /\ Skipping
  BY CursorTyped DEF IInv, skip_unicode_whitespace, Skipping
<1>2. n \in 1 .. 4 /\ m_pos + n <= Size
  BY HereFits DEF skip_unicode_whitespace, IInv
<1>3. NewLine(n) \/ Advance(n)
  BY DEF skip_unicode_whitespace
<1>4. Moved
  <2> HIDE DEF n
  <2> QED BY <1>1, <1>2, <1>3, AdvanceMoves, NewLineMoves
<1> QED BY <1>1, <1>4, GotoSkips DEF skip_unicode_whitespace

LEMMA OpenCommentSkips ==
  ASSUME IInv, open_comment
  PROVE  Skips
<1>1. CursorTypes /\ Skipping
  BY CursorTyped DEF IInv, open_comment, Skipping
<1>2. peek_byte(1) # 0
  BY DEF open_comment, SLASH, STAR
<1>3. m_pos + 2 <= Size
  BY <1>1, <1>2, PeekedIsThere DEF CursorTypes
<1>4. Moved
  BY <1>1, <1>3, AdvanceMoves DEF open_comment
<1> QED BY <1>1, <1>4, GotoSkips DEF open_comment

LEMMA LineCommentSkips ==
  ASSUME IInv, skip_line_comment
  PROVE  Skips
<1>1. CursorTypes /\ Skipping
  BY CursorTyped DEF IInv, skip_line_comment, Skipping
<1>2. ~is_at_end => m_pos + 1 <= Size
  BY <1>1 DEF is_at_end, CursorTypes, Size
<1>3. Moved
  BY <1>1, <1>2, StayMoves, AdvanceMoves DEF skip_line_comment
<1> QED BY <1>1, <1>3, GotoSkips DEF skip_line_comment

LEMMA BlockCommentSkips ==
  ASSUME IInv, skip_block_comment
  PROVE  Skips
<1>1. CursorTypes /\ Skipping
  BY CursorTyped DEF IInv, skip_block_comment, Skipping
<1>2. ASSUME is_at_end, UNCHANGED cursor PROVE Moved
  BY <1>1, <1>2, StayMoves
<1>3. ASSUME AtCommentEnd, Advance(2) PROVE Moved
  <2>1. peek_byte(1) # 0
    BY <1>3 DEF AtCommentEnd, SLASH
  <2>2. m_pos + 2 <= Size
    BY <1>1, <2>1, PeekedIsThere DEF CursorTypes
  <2> QED BY <1>1, <1>3, <2>2, AdvanceMoves
<1>4. ASSUME ~is_at_end, advance_codepoint PROVE Moved
  BY <1>4, AdvanceCodepointMoves DEF IInv
<1>5. Moved
  BY <1>2, <1>3, <1>4 DEF skip_block_comment
<1> QED BY <1>1, <1>5, GotoSkips DEF skip_block_comment

-----------------------------------------------------------------------------
(* The actions inside tokens. *)
LEMMA GotoScans ==
  ASSUME IInv, ~Skipping, Past, NEW label \in BodyLabel \ {"exponent_digits"},
         GotoWith(label)
  PROVE  Scans
<1>1. RollbackSafe'
  BY DEF GotoWith, Goto, RollbackSafe
<1>2. TypeOK
  BY DEF IInv
<1> QED BY <1>1, <1>2 DEF GotoWith, Goto, locals, Scans, TypeOK

LEMMA EmitEmits ==
  ASSUME ~Skipping, Past, NEW kind \in TokenKind \ {"Eof"}, Emit(kind, start)
  PROVE  Emits
BY DEF Emits

LEMMA AtStartPast ==
  ASSUME IInv, AtStart, NEW n \in Nat \ {0}, m_pos + n <= Size, Advance(n)
  PROVE  Past /\ ~Skipping
<1>1. CursorTypes /\ ~Skipping
  BY CursorTyped DEF IInv, AtStart, Skipping
<1>2. Moved /\ m_pos' = m_pos + n
  BY <1>1, AdvanceMoves
<1>3. m_pos < m_pos'
  BY <1>1, <1>2 DEF CursorTypes
<1> QED BY <1>1, <1>2, <1>3, MovedPast

LEMMA AtStartReadable ==
  ASSUME IInv, AtStart
  PROVE  CursorTypes /\ ~is_at_end /\ m_pos + 1 <= Size
<1>1. CursorTypes /\ m_pos < Size
  BY CursorTyped DEF IInv, ScannerEntry
<1> QED BY <1>1 DEF CursorTypes, is_at_end, Size

LEMMA BodyPast ==
  ASSUME IInv, pc \in BodyLabel \ {"word"}, Moved
  PROVE  Past /\ ~Skipping
<1>1. ~Skipping /\ ~AtStart /\ pc # "word"
  BY DEF Skipping, AtStart, BodyLabel
<1>2. start.offset < m_pos
  BY <1>1 DEF IInv, ScannerEntry
<1> QED BY <1>1, <1>2, MovedPast

LEMMA ScanWordScans ==
  ASSUME IInv, scan_word
  PROVE  Scans
<1>1. CursorTypes /\ ~Skipping /\ ~is_at_end
  BY CursorTyped DEF IInv, scan_word, Skipping, WordContinues
<1>2. Moved /\ m_pos < m_pos'
  <2>1. ASSUME Advance(1) PROVE Moved /\ m_pos < m_pos'
    <3>1. m_pos + 1 <= Size
      BY <1>1 DEF is_at_end, CursorTypes, Size
    <3>2. Moved /\ m_pos' = m_pos + 1
      BY <1>1, <2>1, <3>1, AdvanceMoves
    <3> QED BY <1>1, <3>2 DEF CursorTypes
  <2>2. ASSUME advance_codepoint PROVE Moved /\ m_pos < m_pos'
    BY <1>1, <2>2, AdvanceCodepointMoves DEF IInv
  <2> QED BY <2>1, <2>2 DEF scan_word
<1>3. Past
  BY <1>1, <1>2, MovedPast
<1>4. seen_unicode' \in BOOLEAN
  <2>1. (peek_byte(0) > 127) \in BOOLEAN
    OBVIOUS
  <2>2. seen_unicode' = (seen_unicode \/ peek_byte(0) > 127)
    BY DEF scan_word
  <2> QED BY Zenon, <2>1, <2>2
<1>5. pc' = "word" /\ pc' \in BodyLabel
  BY DEF scan_word, Goto, BodyLabel
<1>6. RollbackSafe'
  BY <1>5 DEF RollbackSafe
<1> QED BY <1>1, <1>3, <1>4, <1>5, <1>6 DEF Scans, scan_word, Goto, IInv, TypeOK

LEMMA FinishWordEmits ==
  ASSUME IInv, finish_word
  PROVE  Emits
<1>1. CursorTypes /\ ~Skipping
  BY CursorTyped DEF IInv, finish_word, Skipping
<1>2. Moved
  BY <1>1, StayMoves DEF finish_word
<1>3. start.offset < m_pos
  <2>1. start.offset # m_pos
    BY DEF finish_word, IInv, ScannerEntry
  <2>2. start.offset <= m_pos
    BY <1>1 DEF IInv, ScannerEntry, Behind, current_location
  <2>3. start.offset \in Nat /\ m_pos \in Nat
    BY <1>1 DEF IInv, TypeOK, Location, CursorTypes
  <2> QED BY <2>1, <2>2, <2>3
<1>4. WordKind \in TokenKind \ {"Eof"}
  BY DEF WordKind, TokenKind
<1> QED BY <1>1, <1>2, <1>3, <1>4, MovedPast, EmitEmits DEF finish_word

(* The digits a run takes stand in the source. *)
LEMMA RunFits ==
  ASSUME NEW S, NEW o, NEW n, Run(S, o, n)
  PROVE  o + n <= Size
BY DEF Run, Size

LEMMA IntegerPartScans ==
  ASSUME IInv, scan_integer_part
  PROVE  Scans
<1>1. pc = "number" /\ AtStart /\ GotoWith("exponent")
  BY DEF scan_integer_part, AtStart
<1>2. CursorTypes /\ m_pos + 1 <= Size
  BY <1>1, AtStartReadable
<1>3. PICK i \in Remaining, f \in Remaining :
        /\ Run(Digit, m_pos, i)
        /\ IF peek_byte(i) = DOT
           THEN Run(Digit, m_pos + i + 1, f) /\ Advance(i + 1 + f)
           ELSE f = 0 /\ Advance(i)
  BY DEF scan_integer_part
<1>4. i \in Nat /\ f \in Nat
  BY <1>2 DEF Remaining, CursorTypes, Size
<1>5. CASE peek_byte(i) = DOT
  <2>1. m_pos + i + 1 + f <= Size
    BY <1>3, <1>5, RunFits
  <2>2. i + 1 + f \in Nat \ {0} /\ m_pos + (i + 1 + f) <= Size
    BY <1>2, <1>4, <2>1 DEF CursorTypes
  <2>3. Advance(i + 1 + f)
    BY <1>3, <1>5
  <2> QED BY <1>1, <2>2, <2>3, AtStartPast, GotoScans DEF BodyLabel
<1>6. CASE peek_byte(i) # DOT
  <2>1. Advance(i) /\ m_pos + i <= Size
    BY <1>3, <1>6, RunFits
  <2>2. i # 0
    <3> SUFFICES ASSUME i = 0 PROVE FALSE
      OBVIOUS
    <3>1. AtNumber
      BY <1>1 DEF IInv, ScannerEntry
    <3>2. peek_byte(0) \in Digit
      BY <1>6, <3>1 DEF AtNumber
    <3>3. m_pos + 0 < Len(m_source) /\ peek_byte(0) = ByteAt(m_source, m_pos + 0)
      BY <1>2 DEF peek_byte, Available, CursorTypes, Size
    <3>4. m_pos + 0 < Len(m_source) => ByteAt(m_source, m_pos + 0) \notin Digit
      BY <1>3 DEF Run
    <3> QED BY <3>2, <3>3, <3>4
  <2>3. i \in Nat \ {0}
    BY <1>4, <2>2
  <2> QED BY <1>1, <2>1, <2>3, AtStartPast, GotoScans DEF BodyLabel
<1> QED BY <1>5, <1>6

LEMMA ExponentScans ==
  ASSUME IInv, try_scan_exponent
  PROVE  Scans
<1>1. CursorTypes /\ pc = "exponent" /\ pc \in BodyLabel \ {"word"}
  BY CursorTyped DEF IInv, try_scan_exponent, BodyLabel
<1>2. /\ saved' = [pos |-> m_pos, column |-> m_column]
      /\ m_source' = m_source /\ tokens' = tokens /\ start' = start
      /\ tokenizing' = tokenizing /\ calls' = calls
      /\ seen_unicode' = seen_unicode /\ has_malformed' = has_malformed
      /\ base' = base
      /\ pc' \in {"exponent_digits", "type_suffix"}
  BY DEF try_scan_exponent, Goto, call
<1>3. Moved /\ m_line' = m_line
  <2>1. CASE peek_byte(0) \in LetterE /\ peek_byte(1) \in SIGN
    <3>1. peek_byte(1) # 0
      BY <2>1 DEF SIGN
    <3>2. m_pos + 2 <= Size
      BY <1>1, <3>1, PeekedIsThere DEF CursorTypes
    <3>3. Advance(2)
      BY <2>1 DEF try_scan_exponent
    <3> QED BY <1>1, <3>2, <3>3, AdvanceMoves DEF Advance
  <2>2. CASE peek_byte(0) \in LetterE /\ peek_byte(1) \notin SIGN
    <3>1. peek_byte(0) # 0
      BY <2>2 DEF LetterE
    <3>2. m_pos + 1 <= Size
      BY <1>1, <3>1, PeekedIsThere DEF CursorTypes
    <3>3. Advance(1)
      BY <2>2 DEF try_scan_exponent
    <3> QED BY <1>1, <3>2, <3>3, AdvanceMoves DEF Advance
  <2>3. CASE peek_byte(0) \notin LetterE
    <3>1. UNCHANGED cursor
      BY <2>3 DEF try_scan_exponent
    <3> QED BY <1>1, <3>1, StayMoves DEF cursor
  <2> QED BY <2>1, <2>2, <2>3
<1>4. Past /\ ~Skipping
  BY <1>1, <1>3, BodyPast
<1>5. saved' \in [pos : 0 .. Size, column : Nat \ {0}]
  BY <1>1, <1>2 DEF CursorTypes
<1>6. RollbackSafe'
  <2>1. SavedLocation' = current_location
    BY <1>2, <1>3 DEF SavedLocation, current_location
  <2>2. start.offset < m_pos /\ Behind(start, current_location)
    BY <1>1 DEF IInv, ScannerEntry, Skipping, AtStart
  <2> QED BY <1>2, <2>1, <2>2 DEF RollbackSafe
<1>7. pc' \in BodyLabel /\ UNCHANGED <<call, tokens, start>>
  BY <1>2 DEF BodyLabel, call
<1> QED BY <1>2, <1>4, <1>5, <1>6, <1>7 DEF Scans, IInv, TypeOK

LEMMA ExponentDigitsScans ==
  ASSUME IInv, scan_exponent_digits
  PROVE  Scans
<1>1. /\ CursorTypes /\ pc = "exponent_digits" /\ pc \in BodyLabel \ {"word"}
      /\ GotoWith("type_suffix") /\ ~Skipping
  BY CursorTyped DEF IInv, scan_exponent_digits, BodyLabel, Skipping
<1>2. CASE peek_byte(0) \in Digit
  <2>1. PICK n \in Remaining : Run(Digit, m_pos, n) /\ Advance(n)
    BY <1>2 DEF scan_exponent_digits
  <2>2. n \in Nat /\ m_pos + n <= Size
    BY <1>1, <2>1, RunFits DEF Remaining, CursorTypes, Size
  <2>3. Moved
    BY <1>1, <2>1, <2>2, AdvanceMoves
  <2> QED BY <1>1, <2>3, BodyPast, GotoScans DEF BodyLabel
<1>3. CASE peek_byte(0) \notin Digit
  <2>1. m_pos' = saved.pos /\ m_column' = saved.column /\ m_line' = m_line
    BY <1>3 DEF scan_exponent_digits, Rollback
  <2>2. current_location' = SavedLocation
    BY <2>1 DEF current_location, SavedLocation
  <2>3. start.offset < saved.pos /\ Behind(start, SavedLocation)
    BY <1>1 DEF IInv, RollbackSafe
  <2>4. /\ m_pos' \in Nat /\ m_pos' <= Size
        /\ m_line' \in Nat \ {0} /\ m_column' \in Nat \ {0}
    <3>1. saved.pos \in 0 .. Size /\ saved.column \in Nat \ {0}
      BY DEF IInv, TypeOK
    <3> QED BY <1>1, <2>1, <3>1 DEF CursorTypes
  <2>5. Past
    BY <2>1, <2>2, <2>3, <2>4 DEF Past
  <2> QED BY <1>1, <2>5, GotoScans DEF BodyLabel
<1> QED BY <1>2, <1>3

LEMMA TypeSuffixEmits ==
  ASSUME IInv, try_scan_type_suffix
  PROVE  Emits
<1>1. /\ CursorTypes /\ pc \in BodyLabel \ {"word"} /\ Emit("Numeric", start)
  BY CursorTyped DEF IInv, try_scan_type_suffix, BodyLabel
<1>2. ASSUME peek_byte(0) \in LetterDF, Advance(1) PROVE Moved
  <2>1. peek_byte(0) # 0
    BY <1>2 DEF LetterDF
  <2>2. m_pos + 1 <= Size
    BY <1>1, <2>1, PeekedIsThere DEF CursorTypes
  <2> QED BY <1>1, <1>2, <2>2, AdvanceMoves
<1>3. ASSUME NEW w \in Widths, WidthAt(w), Advance(1 + Len(w)) PROVE Moved
  <2>1. /\ Len(w) \in {1, 2} /\ w[Len(w)] # 0
    BY DEF Widths
  <2>2. peek_byte(Len(w)) # 0
    BY <1>3, <2>1 DEF WidthAt
  <2>3. 1 + Len(w) \in Nat /\ m_pos + (1 + Len(w)) <= Size
    BY <1>1, <2>1, <2>2, PeekedIsThere DEF CursorTypes
  <2> QED BY <1>1, <1>3, <2>3, AdvanceMoves
<1>4. Moved
  BY <1>1, <1>2, <1>3, StayMoves DEF try_scan_type_suffix
<1>5. "Numeric" \in TokenKind \ {"Eof"}
  BY DEF TokenKind
<1> QED BY <1>1, <1>4, <1>5, BodyPast, EmitEmits

LEMMA HashTagScansOrEmits ==
  ASSUME IInv, scan_hash_tag
  PROVE  Scans \/ Emits
<1>1. /\ pc = "hash" /\ AtStart
      /\ CursorTypes /\ m_pos + 1 <= Size
  BY AtStartReadable DEF scan_hash_tag, AtStart
<1>2. "Error" \in TokenKind \ {"Eof"}
  BY DEF TokenKind
<1>3. CASE ~Available(1)
  <2>1. Advance(1) /\ Emit("Error", start)
    BY <1>3 DEF scan_hash_tag
  <2> QED BY <1>1, <1>2, <2>1, AtStartPast, EmitEmits
<1>4. CASE Available(1)
  <2>1. Advance(2) /\ m_pos + 2 <= Size
    BY <1>1, <1>4 DEF scan_hash_tag, Available, CursorTypes, Size
  <2>2. Past /\ ~Skipping
    BY <1>1, <2>1, AtStartPast
  <2>3. CASE peek_byte(1) \in {98, 111, 120}
    <3>1. /\ base' = peek_byte(1) /\ pc' = "based" /\ UNCHANGED <<call, tokens>>
          /\ UNCHANGED <<start, seen_unicode, has_malformed, saved>>
      BY <1>4, <2>3 DEF scan_hash_tag, Goto
    <3>2. base' \in Byte
      BY <2>3, <3>1 DEF Byte
    <3>3. RollbackSafe' /\ pc' \in BodyLabel
      BY <3>1 DEF RollbackSafe, BodyLabel
    <3> QED BY <2>2, <3>1, <3>2, <3>3 DEF Scans, IInv, TypeOK
  <2>4. CASE peek_byte(1) \notin {98, 111, 120}
    BY <1>2, <1>4, <2>2, <2>4, EmitEmits DEF scan_hash_tag
  <2> QED BY <2>3, <2>4
<1> QED BY <1>3, <1>4

LEMMA BasedEmits ==
  ASSUME IInv, scan_based_literal
  PROVE  Emits
<1>1. CursorTypes /\ pc \in BodyLabel \ {"word"}
  BY CursorTyped DEF IInv, scan_based_literal, BodyLabel
<1>2. /\ "Error" \in TokenKind \ {"Eof"}
      /\ BasedKind \in TokenKind \ {"Eof"}
  BY DEF TokenKind, BasedKind
<1>3. CASE UNCHANGED cursor /\ Emit("Error", start)
  BY <1>1, <1>2, <1>3, StayMoves, BodyPast, EmitEmits
<1>4. ASSUME NEW n \in Remaining, Emit(BasedKind, start),
             Run(BaseDigits(base) \cup {UNDERSCORE}, m_pos, n),
             \/ Advance(n)
             \/ peek_byte(n) \in LetterU /\ Advance(n + 1)
      PROVE  Emits
  <2>1. n \in Nat /\ m_pos + n <= Size
    BY <1>1, <1>4, RunFits DEF Remaining, CursorTypes, Size
  <2>2. ASSUME Advance(n) PROVE Moved
    BY <1>1, <2>1, <2>2, AdvanceMoves
  <2>3. ASSUME peek_byte(n) \in LetterU, Advance(n + 1) PROVE Moved
    <3>1. peek_byte(n) # 0
      BY <2>3 DEF LetterU
    <3>2. n + 1 \in Nat /\ m_pos + (n + 1) <= Size
      BY <1>1, <2>1, <3>1, PeekedIsThere DEF CursorTypes
    <3> QED BY <1>1, <2>3, <3>2, AdvanceMoves
  <2>4. Moved
    BY <1>4, <2>2, <2>3
  <2> QED BY <1>1, <1>2, <1>4, <2>4, BodyPast, EmitEmits
<1> QED BY <1>3, <1>4 DEF scan_based_literal

LEMMA OpenLiteralScans ==
  ASSUME IInv, open_literal
  PROVE  Scans
<1>1. AtStart /\ Advance(1)
  BY DEF open_literal, AtStart
<1>2. Past /\ ~Skipping
  BY <1>1, AtStartReadable, AtStartPast
<1> QED BY <1>2, GotoScans DEF open_literal, BodyLabel

(* One element of a literal's body, and where the scanner goes on. *)
LEMMA ElementScans ==
  ASSUME IInv, pc \in BodyLabel \ {"word"}, ~is_at_end, LiteralElement,
         NEW label \in BodyLabel \ {"exponent_digits"}, Goto(label)
  PROVE  Scans
<1>1. CursorTypes
  BY CursorTyped DEF IInv
<1>2. CASE LiteralElement /\ peek_byte(0) > 127
  <2> DEFINE n == Here.byte_length
  <2>1. n \in 1 .. 4 /\ m_pos + n <= Size
    BY HereFits DEF IInv
  <2>2. /\ Advance(n)
        /\ has_malformed' = (has_malformed \/ IsMalformed)
        /\ UNCHANGED <<start, seen_unicode, saved, base>>
    BY <1>2 DEF LiteralElement, advance_with_utf8_check
  <2> HIDE DEF n
  <2>3. Moved
    BY <1>1, <2>1, <2>2, AdvanceMoves
  <2>4. Past /\ ~Skipping
    BY <2>3, BodyPast
  <2>5. has_malformed' \in BOOLEAN
    BY Zenon, <2>2
  <2>6. RollbackSafe' /\ pc' = label
    BY DEF Goto, RollbackSafe
  <2> QED BY <2>2, <2>4, <2>5, <2>6 DEF Scans, Goto, IInv, TypeOK
<1>3. CASE LiteralElement /\ ~(peek_byte(0) > 127)
  <2>1. Advance(1) /\ UNCHANGED locals
    BY <1>3 DEF LiteralElement
  <2>2. m_pos + 1 <= Size
    BY <1>1 DEF is_at_end, CursorTypes, Size
  <2>3. Moved
    BY <1>1, <2>1, <2>2, AdvanceMoves
  <2> QED BY <2>1, <2>3, BodyPast, GotoScans DEF GotoWith
<1> QED BY <1>2, <1>3

LEMMA BackslashMoves ==
  ASSUME CursorTypes, peek_byte(0) = BACKSLASH, Advance(1)
  PROVE  Moved
<1>1. peek_byte(0) # 0
  BY DEF BACKSLASH
<1>2. m_pos + 1 <= Size
  BY <1>1, PeekedIsThere DEF CursorTypes
<1> QED BY <1>2, AdvanceMoves

LEMMA StringBodyScans ==
  ASSUME IInv, scan_string_body
  PROVE  Scans
<1>1. CursorTypes /\ pc \in BodyLabel \ {"word"} /\ ~is_at_end
  BY CursorTyped DEF IInv, scan_string_body, BodyLabel, StringStops
<1>2. CASE peek_byte(0) = BACKSLASH
  <2>1. Advance(1) /\ GotoWith("string_escape")
    BY <1>2 DEF scan_string_body
  <2>2. Moved
    BY <1>1, <1>2, <2>1, BackslashMoves
  <2> QED BY <1>1, <2>1, <2>2, BodyPast, GotoScans DEF BodyLabel
<1>3. CASE peek_byte(0) # BACKSLASH
  BY <1>1, <1>3, ElementScans DEF scan_string_body, BodyLabel
<1> QED BY <1>2, <1>3

LEMMA EscapeScans ==
  ASSUME IInv, skip_escape
  PROVE  Scans
<1>1. CursorTypes /\ pc \in BodyLabel \ {"word"}
  BY CursorTyped DEF IInv, skip_escape, BodyLabel
<1>2. ASSUME ~is_at_end, NEW n \in 0 .. EscapeLimit(peek_byte(0)), Advance(1 + n),
             \A i \in 1 .. n : Available(i)
      PROVE  Moved
  <2>1. EscapeLimit(peek_byte(0)) \in Nat
    BY DEF EscapeLimit
  <2>2. n \in Nat /\ (n = 0 \/ n \in 1 .. n)
    BY <2>1
  <2>3. m_pos + (1 + n) <= Size
    BY <1>1, <1>2, <2>2 DEF Available, is_at_end, CursorTypes, Size
  <2> QED BY <1>1, <1>2, <2>2, <2>3, AdvanceMoves
<1>3. Moved
  BY <1>1, <1>2, StayMoves DEF skip_escape
<1>4. \E label \in BodyLabel \ {"exponent_digits"} : GotoWith(label)
  BY DEF skip_escape, BodyLabel
<1> QED BY <1>1, <1>3, <1>4, BodyPast, GotoScans

LEMMA CharBodyScans ==
  ASSUME IInv, scan_char_body
  PROVE  Scans
<1>1. CursorTypes /\ pc \in BodyLabel \ {"word"}
  BY CursorTyped DEF IInv, scan_char_body, BodyLabel
<1>2. /\ "char_close" \in BodyLabel \ {"exponent_digits"}
      /\ "char_escape" \in BodyLabel \ {"exponent_digits"}
  BY DEF BodyLabel
<1>3. CASE UNCHANGED cursor /\ GotoWith("char_close")
  BY <1>1, <1>2, <1>3, StayMoves, BodyPast, GotoScans
<1>4. CASE peek_byte(0) = BACKSLASH /\ Advance(1) /\ GotoWith("char_escape")
  BY <1>1, <1>2, <1>4, BackslashMoves, BodyPast, GotoScans
<1>5. CASE ~is_at_end /\ LiteralElement /\ Goto("char_close")
  BY <1>1, <1>2, <1>5, ElementScans
<1> QED BY <1>3, <1>4, <1>5 DEF scan_char_body

(* A closing quote is consumed where there is one. *)
LEMMA FinishLiteralEmits ==
  ASSUME IInv, pc \in BodyLabel \ {"word"},
         NEW quote \in {QUOTE, APOSTROPHE},
         NEW kind \in {"StringLiteral", "CharLiteral"},
         IF peek_byte(0) = quote THEN Advance(1) ELSE UNCHANGED cursor,
         Emit(LiteralKind(kind), start)
  PROVE  Emits
<1>1. CursorTypes
  BY CursorTyped DEF IInv
<1>2. quote # 0
  BY DEF QUOTE, APOSTROPHE
<1>3. peek_byte(0) = quote => m_pos + 1 <= Size
  BY <1>1, <1>2, PeekedIsThere DEF CursorTypes
<1>4. Moved
  BY <1>1, <1>3, AdvanceMoves, StayMoves
<1>5. LiteralKind(kind) \in TokenKind \ {"Eof"}
  BY DEF LiteralKind, TokenKind
<1> QED BY <1>4, <1>5, BodyPast, EmitEmits

LEMMA FinishStringEmits ==
  ASSUME IInv, finish_string
  PROVE  Emits
BY FinishLiteralEmits DEF finish_string, BodyLabel

LEMMA FinishCharEmits ==
  ASSUME IInv, finish_char
  PROVE  Emits
BY FinishLiteralEmits DEF finish_char, BodyLabel

LEMMA OperatorEmits ==
  ASSUME IInv, scan_operator
  PROVE  Emits
<1>1. AtStart /\ ~is_at_end /\ CursorTypes /\ m_pos + 1 <= Size
  BY AtStartReadable DEF scan_operator, AtStart
<1>2. /\ "Operator" \in TokenKind \ {"Eof"}
      /\ "Error" \in TokenKind \ {"Eof"}
  BY DEF TokenKind
<1>3. CASE <<peek_byte(0), peek_byte(1)>> \in TwoByteOperators /\ Advance(2)
           /\ Emit("Operator", start)
  <2>1. peek_byte(1) # 0
    BY <1>3 DEF TwoByteOperators
  <2>2. m_pos + 2 <= Size
    BY <1>1, <2>1, PeekedIsThere DEF CursorTypes
  <2> QED BY <1>1, <1>2, <1>3, <2>2, AtStartPast, EmitEmits
<1>4. CASE Advance(1) /\ Emit("Operator", start)
  BY <1>1, <1>2, <1>4, AtStartPast, EmitEmits
<1>5. CASE Advance(UnknownLength) /\ Emit("Error", start)
  <2>1. Here.byte_length \in 1 .. 4 /\ m_pos + Here.byte_length <= Size
    BY <1>1, HereFits DEF IInv
  <2>2. UnknownLength \in Nat \ {0} /\ m_pos + UnknownLength <= Size
    BY <1>1, <2>1 DEF UnknownLength, Clipped, CursorTypes, Size
  <2> QED BY <1>1, <1>2, <1>5, <2>2, AtStartPast, EmitEmits
<1> QED BY <1>3, <1>4, <1>5 DEF scan_operator

-----------------------------------------------------------------------------
LEMMA StepKinds ==
  ASSUME IInv, Next
  PROVE  Skips \/ dispatch \/ Scans \/ Emits \/ end_of_input
<1>1. CASE tokenize \/ next_token
  BY <1>1, TokenizeSkips, NextTokenSkips
<1>2. CASE skip_whitespace \/ skip_unicode_whitespace \/ open_comment
           \/ skip_line_comment \/ skip_block_comment
  BY <1>2, WhitespaceSkips, UnicodeWhitespaceSkips, OpenCommentSkips,
     LineCommentSkips, BlockCommentSkips
<1>3. CASE scan_word \/ finish_word
  BY <1>3, ScanWordScans, FinishWordEmits
<1>4. CASE scan_integer_part \/ try_scan_exponent \/ scan_exponent_digits
           \/ try_scan_type_suffix
  BY <1>4, IntegerPartScans, ExponentScans, ExponentDigitsScans, TypeSuffixEmits
<1>5. CASE scan_hash_tag \/ scan_based_literal
  BY <1>5, HashTagScansOrEmits, BasedEmits
<1>6. CASE open_literal \/ scan_string_body \/ finish_string \/ skip_escape
           \/ scan_char_body \/ finish_char
  BY <1>6, OpenLiteralScans, StringBodyScans, FinishStringEmits, EscapeScans,
     CharBodyScans, FinishCharEmits
<1>7. CASE scan_operator
  BY <1>7, OperatorEmits
<1> QED BY <1>1, <1>2, <1>3, <1>4, <1>5, <1>6, <1>7 DEF Next, Scan

LEMMA InitIInv == Init => IInv
<1> SUFFICES ASSUME Init PROVE IInv
  OBVIOUS
<1>1. /\ m_source \in Seq(Byte) /\ tokens = <<>> /\ pc = "idle"
      /\ m_pos = 0 /\ m_line = 1 /\ m_column = 1 /\ calls = 0 /\ base = 0
      /\ start = [line |-> 1, column |-> 1, offset |-> 0]
      /\ saved = [pos |-> 0, column |-> 1]
      /\ tokenizing = FALSE /\ seen_unicode = FALSE /\ has_malformed = FALSE
  BY SourcesAssumption DEF Init
<1>2. TypeOK
  <2>1. m_pos \in 0 .. Size /\ saved \in [pos : 0 .. Size, column : Nat \ {0}]
    BY <1>1 DEF Size
  <2>2. tokens \in Seq(Token) /\ start \in Location /\ pc \in Label
    BY <1>1 DEF Location, Label
  <2>3. base \in Byte /\ calls \in 0 .. MaxCalls
    BY <1>1, MaxCallsAssumption DEF Byte
  <2> QED BY <1>1, <2>1, <2>2, <2>3 DEF TypeOK
<1>3. ScannerEntry /\ RollbackSafe
  BY <1>1 DEF ScannerEntry, RollbackSafe, Skipping, AtStart
<1>4. TokenChain
  <2>1. DOMAIN tokens = {}
    BY <1>1
  <2> QED BY <2>1 DEF TokenChain, TokenLocations
<1> QED BY <1>2, <1>3, <1>4 DEF IInv

LEMMA NextIInv == IInv /\ [Next]_vars => IInv'
<1>1. ASSUME IInv, Next PROVE IInv'
  BY <1>1, StepKinds, SkipsKeep, DispatchKeeps, ScansKeep, EmitsKeep, EndKeeps
<1>2. ASSUME IInv, UNCHANGED vars PROVE IInv'
  BY <1>2 DEF vars, cursor, call, locals, IInv, TypeOK, ScannerEntry, RollbackSafe,
     TokenChain, TokenLocations, Floor, Skipping, AtStart, AtNumber, WordContinues,
     peek_byte, Available, Here, is_at_end, Size, current_location, SavedLocation
<1> QED BY <1>1, <1>2

LEMMA IInvHolds == Spec => []IInv
BY InitIInv, NextIInv, PTL DEF Spec

(* The cursor never leaves the source, in any scanner, whatever the bytes. *)
THEOREM TypeCorrect == Spec => []TypeOK
<1>1. IInv => TypeOK
  BY DEF IInv
<1> QED BY <1>1, IInvHolds, PTL

(* All locations of one lexer are consistent: column with offset, order of *)
(* lines with order of offsets, across every token and the rollback.       *)
THEOREM LocationsConsistent == Spec => []LocationsAgree
<1>1. IInv => LocationsAgree
  <2> SUFFICES ASSUME IInv, NEW a \in Locations, NEW b \in Locations
               PROVE  Agree(a, b)
    BY DEF LocationsAgree
  <2>1. /\ TokenLocations \subseteq Location
        /\ Floor \in Location /\ current_location \in Location
    BY TokenLocationsTyped, FloorTyped, CursorTyped DEF IInv
  <2>2. Behind(Floor, current_location)
    BY <2>1, BehindRefl DEF Floor, IInv, ScannerEntry
  <2>3. \A c \in TokenLocations : Behind(c, current_location)
    BY <2>1, <2>2, BehindTrans DEF IInv, TokenChain
  <2>4. Behind(current_location, current_location)
    BY <2>1, BehindRefl
  <2>5. /\ a \in TokenLocations \/ a = current_location
        /\ b \in TokenLocations \/ b = current_location
    BY DEF Locations, TokenLocations
  <2>6. Behind(a, b) \/ Behind(b, a)
    BY <2>3, <2>4, <2>5 DEF IInv, TokenChain
  <2> QED BY <2>1, <2>5, <2>6, BehindAgrees
<1> QED BY <1>1, IInvHolds, PTL

-----------------------------------------------------------------------------
(* The lexer implements TokenStream, seen through the spans of its tokens. *)
SpanOf(t) == [from |-> t.start.offset, to |-> t.end.offset]
SpansOf(s) == [i \in DOMAIN s |-> SpanOf(s[i])]
SpanSet == [from : Nat, to : Nat]
Spans == SpansOf(tokens)

LEMMA SpansTyped ==
  ASSUME NEW s \in Seq(Token)
  PROVE  /\ SpansOf(s) \in Seq(SpanSet) /\ Len(SpansOf(s)) = Len(s)
         /\ \A i \in 1 .. Len(s) : SpansOf(s)[i] = SpanOf(s[i])
<1>1. \A t \in Token : SpanOf(t) \in SpanSet
  BY DEF SpanOf, SpanSet, Token, Location
<1>2. /\ Len(s) \in Nat /\ DOMAIN s = 1 .. Len(s)
      /\ \A i \in 1 .. Len(s) : s[i] \in Token
  OBVIOUS
<1>3. \A i \in 1 .. Len(s) : SpanOf(s[i]) \in SpanSet
  BY <1>1, <1>2
<1>4. SpansOf(s) = [i \in 1 .. Len(s) |-> SpanOf(s[i])]
  BY Zenon, <1>2 DEF SpansOf
<1> DEFINE n == Len(s)
           f == [i \in 1 .. n |-> SpanOf(s[i])]
<1> HIDE DEF n
<1>5. n \in Nat /\ \A i \in 1 .. n : SpanOf(s[i]) \in SpanSet
  BY <1>2, <1>3 DEF n
<1>6. f \in Seq(SpanSet) /\ Len(f) = n /\ \A i \in 1 .. n : f[i] = SpanOf(s[i])
  BY <1>5
<1> HIDE DEF f
<1>7. SpansOf(s) = f
  BY <1>4 DEF f, n
<1> QED BY <1>6, <1>7 DEF n

LEMMA SpansAppend ==
  ASSUME NEW s \in Seq(Token), NEW t \in Token
  PROVE  SpansOf(Append(s, t)) = Append(SpansOf(s), SpanOf(t))
<1> DEFINE n == Len(s)
           longer == Append(s, t)
           spans == SpansOf(s)
           right == Append(spans, SpanOf(t))
           left == SpansOf(longer)
<1>1. /\ n \in Nat /\ longer \in Seq(Token) /\ Len(longer) = n + 1
      /\ \A i \in 1 .. n : longer[i] = s[i]
      /\ longer[n + 1] = t
  OBVIOUS
<1>2. SpanOf(t) \in SpanSet
  BY DEF SpanOf, SpanSet, Token, Location
<1>3. /\ spans \in Seq(SpanSet) /\ Len(spans) = n
      /\ \A i \in 1 .. n : spans[i] = SpanOf(s[i])
  BY SpansTyped
<1>4. /\ right \in Seq(SpanSet) /\ Len(right) = n + 1
      /\ \A i \in 1 .. n : right[i] = spans[i]
      /\ right[n + 1] = SpanOf(t)
  BY <1>2, <1>3, AppendProperties
<1> HIDE DEF n, longer, right, spans
<1>5. /\ left \in Seq(SpanSet) /\ Len(left) = n + 1
      /\ \A i \in 1 .. n + 1 : left[i] = SpanOf(longer[i])
  BY <1>1, SpansTyped
<1> HIDE DEF left
<1>6. \A i \in 1 .. n + 1 : left[i] = right[i]
  BY <1>1, <1>3, <1>4, <1>5
<1>7. left = right
  BY <1>4, <1>5, <1>6, SeqEqual
<1> QED BY <1>7 DEF left, right, longer, spans

(* What was consumed so far lies in front of the floor. *)
LEMMA ConsumedBelowFloor ==
  ASSUME IInv
  PROVE  /\ Promise!Consumed \in Nat /\ Promise!Consumed <= Floor.offset
         /\ Promise!AtEnd => Floor.offset >= Size
<1>1. Promise!Consumed = IF Spans = <<>> THEN 0 ELSE Spans[Len(Spans)].to
  BY DEF Promise!Consumed, Spans, SpansOf, SpanOf
<1>2. Promise!AtEnd <=> Spans # <<>> /\ Spans[Len(Spans)].from = Size
  BY DEF Promise!AtEnd, Spans, SpansOf, SpanOf, Size
<1>3. Floor \in Location /\ TokenLocations \subseteq Location
  BY FloorTyped, TokenLocationsTyped DEF IInv
<1>4. CASE Spans = <<>>
  BY <1>1, <1>2, <1>3, <1>4 DEF Location
<1>5. CASE Spans # <<>>
  <2> DEFINE t == tokens[Len(tokens)]
  <2>1. /\ Len(tokens) \in 1 .. Len(tokens) /\ DOMAIN tokens = 1 .. Len(tokens)
        /\ Spans[Len(Spans)] = SpanOf(t)
    BY <1>5, SpansTyped DEF IInv, TypeOK, Spans
  <2>2. t.start \in TokenLocations /\ t.end \in TokenLocations
    BY <2>1 DEF TokenLocations
  <2>3. /\ t.start \in Location /\ Behind(t.start, Floor)
        /\ t.end \in Location /\ Behind(t.end, Floor)
    BY <1>3, <2>2 DEF IInv, TokenChain
  <2>4. /\ t.end.offset \in Nat /\ t.end.offset <= Floor.offset
        /\ t.start.offset <= Floor.offset
    BY <2>3 DEF Behind, Location
  <2>5. Spans[Len(Spans)].to = t.end.offset /\ Spans[Len(Spans)].from = t.start.offset
    BY <2>1 DEF SpanOf
  <2> QED BY <1>1, <1>2, <1>5, <2>4, <2>5
<1> QED BY <1>4, <1>5

LEMMA EmitsLexeme ==
  ASSUME IInv, Emits
  PROVE  Promise!Next
<1>1. PICK kind \in TokenKind \ {"Eof"} : Emit(kind, start)
  BY DEF Emits
<1> DEFINE t == [kind |-> kind, start |-> start, end |-> current_location']
<1>2. /\ tokens' = Append(tokens, t) /\ m_source' = m_source
  BY <1>1 DEF Emit, call, current_location
<1>3. /\ Floor = start /\ start.offset < m_pos' /\ m_pos' \in Nat /\ m_pos' <= Size
      /\ start \in Location /\ start.offset \in Nat /\ Size \in Nat
      /\ current_location' \in Location /\ current_location'.offset = m_pos'
  BY CursorTyped DEF IInv, TypeOK, Location, CursorTypes, Emits, Past, Floor,
     current_location
<1>4. t \in Token /\ SpanOf(t) = [from |-> start.offset, to |-> m_pos']
  BY <1>3 DEF Token, SpanOf
<1> HIDE DEF t
<1>5. Spans' = Append(Spans, [from |-> start.offset, to |-> m_pos'])
  BY <1>2, <1>4, SpansAppend DEF IInv, TypeOK, Spans
<1>6. /\ start.offset \in Promise!Consumed .. Size
      /\ m_pos' \in Promise!Consumed .. Size
      /\ ~Promise!AtEnd
  BY <1>3, ConsumedBelowFloor
<1>7. Promise!Lexeme
  BY <1>2, <1>3, <1>5, <1>6 DEF Promise!Lexeme, Spans, SpansOf, SpanOf, Size
<1> QED BY <1>6, <1>7 DEF Promise!Next

LEMMA EndIsEndOfInput ==
  ASSUME IInv, end_of_input
  PROVE  Promise!Next
<1> DEFINE t == [kind |-> "Eof", start |-> current_location, end |-> current_location']
<1>1. /\ tokens' = Append(tokens, t) /\ m_source' = m_source
      /\ m_pos' = m_pos /\ current_location' = current_location
  BY DEF end_of_input, Emit, call, cursor, current_location
<1>2. m_pos = Size /\ current_location \in Location
  BY CursorTyped DEF IInv, end_of_input, is_at_end, CursorTypes, Size
<1>3. t \in Token /\ SpanOf(t) = [from |-> Size, to |-> Size]
  BY <1>1, <1>2 DEF Token, TokenKind, SpanOf, current_location
<1> HIDE DEF t
<1>4. Spans' = Append(Spans, [from |-> Size, to |-> Size])
  BY <1>1, <1>3, SpansAppend DEF IInv, TypeOK, Spans
<1>5. Promise!EndOfInput
  BY <1>1, <1>4 DEF Promise!EndOfInput, Spans, SpansOf, SpanOf, Size
<1> QED BY <1>5 DEF Promise!Next

(* The tokens come out in the order of the source, none overlaps another,  *)
(* each is at least one byte, none is changed later, and the empty token   *)
(* appears only at the end: for every source and every Unicode table.      *)
THEOREM ImplementsTokenStream == Spec => TokenStreamSpec
<1>1. Init => Promise!Init
  <2> SUFFICES ASSUME Init PROVE Promise!Init
    OBVIOUS
  <2>1. Len(m_source) \in Nat /\ tokens = <<>>
    BY SourcesAssumption DEF Init
  <2> QED BY <2>1 DEF Promise!Init
<1>2. IInv /\ [Next]_vars => [Promise!Next]_<<Len(m_source), Spans>>
  <2>1. ASSUME IInv, Next, Skips \/ dispatch \/ Scans
        PROVE  UNCHANGED <<Len(m_source), Spans>>
    BY <2>1 DEF Skips, dispatch, Goto, Scans, call, Spans, SpansOf
  <2>2. ASSUME UNCHANGED vars
        PROVE  UNCHANGED <<Len(m_source), Spans>>
    BY <2>2 DEF vars, call, Spans, SpansOf
  <2> QED BY <2>1, <2>2, StepKinds, EmitsLexeme, EndIsEndOfInput
<1>3. IInv /\ [Next]_vars =>
        [Promise!Next]_<<Len(m_source),
          [i \in DOMAIN tokens |-> [from |-> tokens[i].start.offset,
                                    to |-> tokens[i].end.offset]]>>
  BY <1>2 DEF Spans, SpansOf, SpanOf
<1> QED BY <1>1, <1>3, IInvHolds, PTL DEF Spec, TokenStreamSpec, Promise!Spec
-----------------------------------------------------------------------------
(* Columns count from line breaks.  What the property says of one location,*)
(* and where a rollback would take the cursor.                             *)
ColumnInv ==
  /\ ColumnOK(m_source, current_location) /\ ColumnOK(m_source, start)
  /\ \A a \in TokenLocations : ColumnOK(m_source, a)
  /\ pc = "exponent_digits" => ColumnOK(m_source, SavedLocation)

LEMMA SourceStays ==
  ASSUME [Next]_vars
  PROVE  m_source' = m_source
BY DEF Next, Scan, vars, call, tokenize, StartTokenize, next_token,
   skip_whitespace, skip_unicode_whitespace, open_comment, skip_line_comment,
   skip_block_comment, dispatch, end_of_input, scan_word, finish_word,
   scan_integer_part, try_scan_exponent, scan_exponent_digits, try_scan_type_suffix,
   scan_hash_tag, scan_based_literal, open_literal, scan_string_body, finish_string,
   skip_escape, scan_char_body, finish_char, scan_operator, Emit, Goto, GotoWith

(* The bytes a decoded line break consists of. *)
LEMMA BreakBytes ==
  ASSUME TypeOK, ~is_at_end,
         \/ Here.codepoint = LF
         \/ IsWhitespace(Here) /\ Here.codepoint \in LineTerminator
  PROVE  /\ Here.byte_length \in Nat \ {0} /\ m_pos + Here.byte_length <= Size
         /\ LineStartsAt(m_source, m_pos + Here.byte_length)
<1> DEFINE c == Here.codepoint  n == Here.byte_length
<1>1. Within(m_source, m_pos) /\ m_pos \in Nat /\ Size \in Nat
  BY DEF TypeOK, is_at_end, Within, Size
<1>2. n \in 1 .. 4 /\ m_pos + n <= Size
  BY HereFits
<1>3. Here.status = "Ok"
  <2>1. CASE IsWhitespace(Here)
    BY <2>1 DEF IsWhitespace
  <2>2. CASE c = LF
    <3>1. c # REPLACEMENT_CHAR
      BY <2>2 DEF LF, REPLACEMENT_CHAR
    <3> QED BY <1>1, <3>1, OkOrReplaced DEF Here
  <2> QED BY <2>1, <2>2
<1> DEFINE sub == SubSeq(m_source, m_pos + 1, m_pos + n)
<1>4. sub = Encode(c)
  BY <1>1, <1>3, DecodeUtf8Exact DEF DecodesTo, Here
<1>5. c = 10 \/ c = 133 \/ c = 8232 \/ c = 8233
  BY DEF LF, LineTerminator
<1>6. /\ Encode(10) = <<10>> /\ Encode(133) = <<194, 133>>
      /\ Encode(8232) = <<226, 128, 168>> /\ Encode(8233) = <<226, 128, 169>>
  BY SMT DEF Encode, Tail6
<1>7. Len(sub) = n /\ sub[1] = ByteAt(m_source, m_pos)
  <2>1. m_source \in Seq(Byte) /\ m_pos + 1 \in 1 .. Len(m_source) + 1
        /\ m_pos + n \in 0 .. Len(m_source)
    BY <1>1, <1>2 DEF TypeOK, Size
  <2> HIDE DEF n
  <2> QED BY <1>1, <1>2, <2>1 DEF ByteAt
<1> HIDE DEF c, n
<1>8. CASE c = 10
  <2>1. n = 1 /\ ByteAt(m_source, m_pos) = 10
    <3> HIDE DEF sub
    <3>1. sub = <<10>>
      BY <1>4, <1>6, <1>8
    <3>2. Len(<<10>>) = 1 /\ <<10>>[1] = 10
      OBVIOUS
    <3> QED BY <1>7, <3>1, <3>2, Zenon
  <2>2. m_pos + 1 \in 1 .. Size /\ (m_pos + 1) - 1 = m_pos
    BY <1>1, <1>2, <2>1
  <2> QED BY <1>2, <2>1, <2>2 DEF LineStartsAt, LF, Size, n
<1>9. CASE c = 133
  <2>1. n = 2 /\ sub = <<194, 133>>
    <3> HIDE DEF sub
    <3>1. sub = <<194, 133>>
      BY <1>4, <1>6, <1>9
    <3>2. Len(<<194, 133>>) = 2
      OBVIOUS
    <3> QED BY <1>7, <3>1, <3>2, Zenon
  <2>2. m_pos + 2 \in 2 .. Size /\ (m_pos + 2) - 2 = m_pos
    BY <1>1, <1>2, <2>1
  <2>3. Slice(m_source, (m_pos + 2) - 2, m_pos + 2) = <<194, 133>>
    BY <2>1, <2>2 DEF Slice
  <2> QED BY <1>2, <2>1, <2>2, <2>3 DEF LineStartsAt, Size, n
<1>10. CASE c = 8232 \/ c = 8233
  <2>1. n = 3 /\ sub \in {<<226, 128, 168>>, <<226, 128, 169>>}
    <3> HIDE DEF sub
    <3>1. sub = <<226, 128, 168>> \/ sub = <<226, 128, 169>>
      BY <1>4, <1>6, <1>10
    <3>2. Len(<<226, 128, 168>>) = 3 /\ Len(<<226, 128, 169>>) = 3
      OBVIOUS
    <3> QED BY <1>7, <3>1, <3>2, Zenon
  <2>2. m_pos + 3 \in 3 .. Size /\ (m_pos + 3) - 3 = m_pos
    BY <1>1, <1>2, <2>1
  <2>3. Slice(m_source, (m_pos + 3) - 3, m_pos + 3) \in {<<226, 128, 168>>, <<226, 128, 169>>}
    BY <2>1, <2>2 DEF Slice
  <2> QED BY <1>2, <2>1, <2>2, <2>3 DEF LineStartsAt, Size, n
<1> QED BY <1>5, <1>8, <1>9, <1>10 DEF c

(* How a step moves the cursor. *)
LEMMA CursorStep ==
  ASSUME IInv, Next
  PROVE  \/ UNCHANGED cursor
         \/ \E n \in Nat : Advance(n)
         \/ \E n \in Nat \ {0} :
              NewLine(n) /\ m_pos + n <= Size /\ LineStartsAt(m_source, m_pos + n)
         \/ pc = "exponent_digits" /\ Rollback
<1>1. CASE skip_whitespace
  <2>1. CASE Advance(1)
    BY <2>1
  <2>2. CASE peek_byte(0) = LF /\ NewLine(1)
    <3>1. m_pos \in Nat /\ Size \in Nat /\ m_pos < Size
      BY <1>1, CursorTyped DEF skip_whitespace, is_at_end, CursorTypes, IInv, Size
    <3>2. peek_byte(0) = ByteAt(m_source, m_pos)
      BY <3>1 DEF peek_byte, Available, ByteAt, Size
    <3>3. LineStartsAt(m_source, m_pos + 1)
      BY <2>2, <3>1, <3>2 DEF LineStartsAt, Size
    <3> QED BY <2>2, <3>1, <3>3
  <2> QED BY <1>1, <2>1, <2>2 DEF skip_whitespace
<1>2. ASSUME ~is_at_end
      PROVE  Here.byte_length \in Nat
  BY <1>2, HereFits DEF IInv
<1>3. CursorTypes
  BY CursorTyped DEF IInv
<1>4. CASE skip_unicode_whitespace
  <2>1. TypeOK /\ ~is_at_end
    BY <1>4 DEF skip_unicode_whitespace, IInv
  <2> QED BY <1>2, <1>4, <2>1, BreakBytes DEF skip_unicode_whitespace
<1>5. ASSUME ~is_at_end, advance_codepoint
      PROVE  \/ \E n \in Nat : Advance(n)
             \/ \E n \in Nat \ {0} :
                  NewLine(n) /\ m_pos + n <= Size /\ LineStartsAt(m_source, m_pos + n)
  <2>1. TypeOK
    BY DEF IInv
  <2> QED BY <1>2, <1>5, <2>1, BreakBytes DEF advance_codepoint
<1>6. CASE skip_block_comment \/ scan_word
  BY <1>5, <1>6 DEF skip_block_comment, scan_word, WordContinues
<1>7. CASE scan_exponent_digits
  BY <1>7 DEF scan_exponent_digits, Remaining
<1>8. CASE tokenize \/ next_token \/ open_comment \/ skip_line_comment
  BY <1>8 DEF tokenize, StartTokenize, next_token, open_comment, skip_line_comment
<1>9. CASE dispatch \/ end_of_input \/ finish_word
  BY <1>9 DEF dispatch, end_of_input, finish_word
<1>10. CASE scan_integer_part
  <2>1. \A i, f \in Remaining : i \in Nat /\ i + 1 + f \in Nat
    BY DEF Remaining
  <2> QED BY <1>10, <2>1 DEF scan_integer_part
<1>11. CASE try_scan_exponent \/ try_scan_type_suffix
  <2>1. \A w \in Widths : 1 + Len(w) \in Nat
    BY DEF Widths
  <2> QED BY <1>11, <2>1 DEF try_scan_exponent, try_scan_type_suffix
<1>12. CASE scan_hash_tag \/ scan_based_literal \/ open_literal
  <2>1. \A n \in Remaining : n \in Nat /\ n + 1 \in Nat
    BY DEF Remaining
  <2> QED BY <1>12, <2>1 DEF scan_hash_tag, scan_based_literal, open_literal
<1>13. ASSUME LiteralElement
       PROVE  \E n \in Nat : Advance(n)
  <2>1. CASE peek_byte(0) > 127
    <3>1. ~is_at_end
      BY <2>1 DEF peek_byte, Available, is_at_end, IInv, TypeOK, Size
    <3> QED BY <1>2, <1>13, <2>1, <3>1 DEF LiteralElement, advance_with_utf8_check
  <2>2. CASE ~(peek_byte(0) > 127)
    BY <1>13, <2>2 DEF LiteralElement
  <2> QED BY <2>1, <2>2
<1>14. CASE scan_string_body \/ finish_string \/ scan_char_body \/ finish_char
  BY <1>13, <1>14 DEF scan_string_body, finish_string, scan_char_body, finish_char
<1>15. CASE skip_escape
  <2>1. \A n \in 0 .. EscapeLimit(peek_byte(0)) : 1 + n \in Nat
    BY DEF EscapeLimit
  <2> QED BY <1>15, <2>1 DEF skip_escape
<1>16. CASE scan_operator
  <2>1. UnknownLength \in Nat
    <3>1. CASE peek_byte(0) > 127
      <4>1. ~is_at_end
        BY <3>1 DEF peek_byte, Available, is_at_end, IInv, TypeOK, Size
      <4>2. Here.byte_length \in Nat
        BY <1>2, <4>1
      <4>3. Size - m_pos \in Nat
        BY <1>3 DEF CursorTypes
      <4> QED BY <3>1, <4>2, <4>3 DEF UnknownLength, Clipped, Size
    <3>2. CASE ~(peek_byte(0) > 127)
      BY <3>2 DEF UnknownLength
    <3> QED BY <3>1, <3>2
  <2> QED BY <1>16, <2>1 DEF scan_operator
<1> QED BY <1>1, <1>4, <1>6, <1>7, <1>8, <1>9, <1>10, <1>11, <1>12, <1>14, <1>15, <1>16
     DEF Next, Scan

(* What a step does to the locations the lexer keeps. *)
LEMMA LocationStep ==
  ASSUME IInv, Next
  PROVE  /\ start' \in {start, current_location'}
         /\ TokenLocations' \subseteq TokenLocations \cup {start, current_location'}
         /\ pc' = "exponent_digits" => m_line' = m_line /\ SavedLocation' = current_location
<1>1. CASE Skips
  BY <1>1 DEF Skips, locals, TokenLocations
<1>2. CASE dispatch
  <2>1. Scanner # "exponent_digits"
    BY DEF Scanner
  <2> QED BY <1>2, <2>1 DEF dispatch, Goto, TokenLocations, current_location, cursor
<1>3. CASE Scans
  <2>1. start' = start /\ TokenLocations' = TokenLocations
    BY <1>3 DEF Scans, TokenLocations
  <2>2. pc' = "exponent_digits" => try_scan_exponent
    <3>1. CASE scan_word \/ scan_integer_part \/ scan_exponent_digits \/ scan_hash_tag
               \/ open_literal
      BY <1>3, <3>1 DEF scan_word, scan_integer_part, scan_exponent_digits, scan_hash_tag,
         open_literal, Goto, GotoWith, Emit
    <3>2. CASE scan_string_body \/ skip_escape \/ scan_char_body
      BY <3>2 DEF scan_string_body, skip_escape, scan_char_body, Goto, GotoWith
    <3>3. CASE tokenize \/ next_token \/ skip_whitespace \/ skip_unicode_whitespace
               \/ open_comment \/ skip_line_comment \/ skip_block_comment
               \/ dispatch \/ end_of_input
      BY <1>3, <3>3 DEF Scans, Skipping, tokenize, StartTokenize, next_token, skip_whitespace,
         skip_unicode_whitespace, open_comment, skip_line_comment, skip_block_comment,
         dispatch, end_of_input
    <3>4. CASE finish_word \/ try_scan_type_suffix \/ scan_based_literal \/ finish_string
               \/ finish_char \/ scan_operator
      BY <3>4 DEF finish_word, try_scan_type_suffix, scan_based_literal, finish_string,
         finish_char, scan_operator, Emit
    <3> QED BY <3>1, <3>2, <3>3, <3>4 DEF Next, Scan
  <2>3. ASSUME try_scan_exponent, pc' = "exponent_digits"
        PROVE  m_line' = m_line /\ SavedLocation' = current_location
    BY <2>3 DEF try_scan_exponent, Advance, cursor, SavedLocation, current_location
  <2> QED BY <2>1, <2>2, <2>3
<1>4. ASSUME NEW kind \in TokenKind, Emit(kind, Floor)
      PROVE  /\ start' = start /\ pc' \in {"skip", "idle"}
             /\ TokenLocations' \subseteq TokenLocations \cup {Floor, current_location'}
  <2> DEFINE t == [kind |-> kind, start |-> Floor, end |-> current_location']
  <2>1. /\ tokens' = Append(tokens, t) /\ start' = start /\ pc' \in {"skip", "idle"}
    BY <1>4 DEF Emit, locals, current_location
  <2>2. t.start = Floor /\ t.end = current_location' /\ tokens \in Seq(Token)
    BY DEF IInv, TypeOK
  <2> HIDE DEF t
  <2>3. \A i \in DOMAIN tokens' : tokens'[i] = t \/ (i \in DOMAIN tokens /\ tokens'[i] = tokens[i])
    BY <2>1, <2>2
  <2> QED BY <2>1, <2>2, <2>3 DEF TokenLocations
<1>5. CASE Emits
  <2>1. Floor = start
    BY <1>5 DEF Emits, Floor
  <2> QED BY <1>4, <1>5, <2>1 DEF Emits
<1>6. CASE end_of_input
  <2>1. Emit("Eof", Floor) /\ "Eof" \in TokenKind /\ Floor = current_location
        /\ current_location' = current_location
    BY <1>6 DEF end_of_input, Floor, Skipping, TokenKind, current_location, cursor
  <2> QED BY <1>4, <2>1
<1> QED BY <1>1, <1>2, <1>3, <1>5, <1>6, StepKinds

LEMMA CursorColumn ==
  ASSUME IInv, Next, ColumnInv
  PROVE  ColumnOK(m_source, current_location')
<1>1. CursorTypes
  BY CursorTyped DEF IInv
<1>2. CASE UNCHANGED cursor
  BY <1>2 DEF cursor, current_location, ColumnInv
<1>3. ASSUME NEW n \in Nat, Advance(n)
      PROVE  ColumnOK(m_source, current_location')
  <2>1. m_pos' = m_pos + n /\ m_column' = m_column + n /\ m_line' = m_line
    BY <1>3 DEF Advance
  <2>2. m_pos' + 1 - m_column' = m_pos + 1 - m_column /\ (m_column = m_pos + 1 => m_column' = m_pos' + 1)
    BY <1>1, <2>1 DEF CursorTypes
  <2>3. ColumnOK(m_source, current_location)
    BY DEF ColumnInv
  <2> QED BY <2>1, <2>2, <2>3 DEF ColumnOK, current_location
<1>4. ASSUME NEW n \in Nat \ {0}, NewLine(n), LineStartsAt(m_source, m_pos + n)
      PROVE  ColumnOK(m_source, current_location')
  <2>1. m_pos' = m_pos + n /\ m_column' = 1 /\ m_line' = m_line + 1
    BY <1>4 DEF NewLine
  <2>2. m_pos' + 1 - m_column' = m_pos + n /\ m_line' # 1
    BY <1>1, <2>1 DEF CursorTypes
  <2> QED BY <1>4, <2>2 DEF ColumnOK, current_location
<1>5. CASE pc = "exponent_digits" /\ Rollback
  BY <1>5 DEF Rollback, current_location, SavedLocation, ColumnInv
<1> QED BY <1>2, <1>3, <1>4, <1>5, CursorStep

LEMMA ColumnInvKept ==
  ASSUME IInv, Next, ColumnInv
  PROVE  ColumnInv'
<1>1. m_source' = m_source
  BY SourceStays
<1>2. ColumnOK(m_source, current_location')
  BY CursorColumn
<1>3. ColumnOK(m_source, start')
  BY <1>2, LocationStep DEF ColumnInv
<1>4. \A a \in TokenLocations' : ColumnOK(m_source, a)
  BY <1>2, LocationStep DEF ColumnInv
<1>5. pc' = "exponent_digits" => ColumnOK(m_source, SavedLocation')
  BY LocationStep DEF ColumnInv
<1> QED BY <1>1, <1>2, <1>3, <1>4, <1>5 DEF ColumnInv

LEMMA ColumnInvHolds == Spec => [](IInv /\ ColumnInv)
<1>1. Init => ColumnInv
  <2> SUFFICES ASSUME Init PROVE ColumnInv
    OBVIOUS
  <2>1. DOMAIN tokens = {}
    BY DEF Init
  <2> QED BY <2>1 DEF Init, ColumnInv, ColumnOK, current_location, TokenLocations
<1>2. IInv /\ ColumnInv /\ [Next]_vars => ColumnInv'
  <2>1. ASSUME ColumnInv, UNCHANGED vars PROVE ColumnInv'
    BY <2>1 DEF vars, cursor, call, locals, ColumnInv, current_location, TokenLocations,
       SavedLocation
  <2> QED BY <2>1, ColumnInvKept
<1> QED BY <1>1, <1>2, IInvHolds, NextIInv, PTL DEF Spec

(* A column counts the bytes since a line break of the source, for every   *)
(* source: whatever raises the line resets the column behind the bytes of  *)
(* that break, and nothing else does (advance_byte, advance_codepoint and  *)
(* the white space loop, Lexer.cpp).                                       *)
THEOREM ColumnsConsistent == Spec => []ColumnsCountFromLineBreaks
<1>1. ColumnInv => ColumnsCountFromLineBreaks
  BY DEF ColumnInv, ColumnsCountFromLineBreaks, Locations, TokenLocations
<1> QED BY <1>1, ColumnInvHolds, PTL
-----------------------------------------------------------------------------
(* Every token begins where or behind where the one before it ended. *)
InOrder ==
  \A i, j \in DOMAIN tokens : i < j => Behind(tokens[i].end, tokens[j].start)
-----------------------------------------------------------------------------
(* The order of locations that one lexer reaches. *)
LEMMA BehindIsNotLess ==
  ASSUME NEW a \in Location, NEW b \in Location, Behind(a, b)
  PROVE  ~Less(b, a) /\ (a = b \/ Less(a, b))
<1> DEFINE al == a.line  ac == a.column  ao == a.offset
           bl == b.line  bc == b.column  bo == b.offset
<1>1. /\ a = [line |-> al, column |-> ac, offset |-> ao]
      /\ b = [line |-> bl, column |-> bc, offset |-> bo]
  BY DEF Location
<1>2. /\ al \in Nat /\ ac \in Nat /\ ao \in Nat
      /\ bl \in Nat /\ bc \in Nat /\ bo \in Nat
  BY DEF Location
<1>3. /\ ao <= bo /\ al <= bl
      /\ al = bl => bc - ac = bo - ao
  BY DEF Behind
<1> HIDE DEF al, ac, ao, bl, bc, bo
<1>4. ~(bl < al \/ (bl = al /\ bc < ac) \/ (bl = al /\ bc = ac /\ bo < ao))
  BY <1>2, <1>3
<1>5. \/ al < bl \/ (al = bl /\ ac < bc) \/ (al = bl /\ ac = bc /\ ao < bo)
      \/ al = bl /\ ac = bc /\ ao = bo
  BY <1>2, <1>3
<1>6. ~Less(b, a)
  BY Zenon, <1>4 DEF Less, al, ac, ao, bl, bc, bo
<1>7. Less(a, b) \/ (al = bl /\ ac = bc /\ ao = bo)
  BY Zenon, <1>5 DEF Less, al, ac, ao, bl, bc, bo
<1> QED BY <1>1, <1>6, <1>7

(* Merging two spans, the later of which begins and ends no earlier, spans *)
(* from the start of the one to the end of the other.                      *)
LEMMA MergeInOrder ==
  ASSUME NEW a \in Token, NEW b \in Token,
         Behind(a.start, b.start), Behind(a.end, b.end)
  PROVE  LET both == [getSpan(a) EXCEPT !.end = b.end] IN
         /\ merge(getSpan(a), getSpan(b)) = both /\ merge(getSpan(b), getSpan(a)) = both
         /\ merged(getSpan(a), getSpan(b)) = <<both>>
         /\ merged(getSpan(b), getSpan(a)) = <<both>>
         /\ getSpan(a) = getSpan(b) \/ SpanLess(getSpan(a), getSpan(b))
<1>1. /\ a.start \in Location /\ a.end \in Location
      /\ b.start \in Location /\ b.end \in Location
  BY DEF Token
<1>2. /\ ~Less(b.start, a.start) /\ (a.start = b.start \/ Less(a.start, b.start))
      /\ ~Less(b.end, a.end) /\ (a.end = b.end \/ Less(a.end, b.end))
  BY <1>1, BehindIsNotLess
<1> DEFINE p == getSpan(a)
           q == getSpan(b)
<1>3. /\ p = [file_path |-> 0, start |-> a.start, end |-> a.end]
      /\ q = [file_path |-> 0, start |-> b.start, end |-> b.end]
      /\ [p EXCEPT !.end = b.end] = [file_path |-> 0, start |-> a.start, end |-> b.end]
  BY DEF getSpan
<1>4. /\ Earlier(a.start, b.start) = a.start /\ Earlier(b.start, a.start) = a.start
      /\ Later(a.end, b.end) = b.end /\ Later(b.end, a.end) = b.end
  BY <1>2 DEF Earlier, Later
<1> HIDE DEF p, q
<1>5. /\ merge(p, q) = [p EXCEPT !.end = b.end]
      /\ merge(q, p) = [p EXCEPT !.end = b.end]
  BY <1>3, <1>4 DEF merge
<1>6. /\ merged(p, q) = <<[p EXCEPT !.end = b.end]>>
      /\ merged(q, p) = <<[p EXCEPT !.end = b.end]>>
  BY <1>2, <1>3 DEF merged
<1>7. p = q \/ SpanLess(p, q)
  BY <1>2, <1>3 DEF SpanLess
<1> QED BY <1>5, <1>6, <1>7 DEF p, q
-----------------------------------------------------------------------------
(* A new token begins at the floor, behind everything returned before. *)
LEMMA AppendInOrder ==
  ASSUME IInv, InOrder, NEW t, t.start = Floor, tokens' = Append(tokens, t)
  PROVE  InOrder'
<1>1. tokens \in Seq(Token)
  BY DEF IInv, TypeOK
<1>2. \A i \in DOMAIN tokens : tokens[i].end \in TokenLocations
  BY DEF TokenLocations
<1>3. \A i \in DOMAIN tokens : Behind(tokens[i].end, Floor)
  BY <1>2 DEF IInv, TokenChain
<1>4. /\ Len(tokens) \in Nat /\ DOMAIN tokens = 1 .. Len(tokens)
      /\ DOMAIN tokens' = 1 .. Len(tokens) + 1
      /\ \A i \in 1 .. Len(tokens) : tokens'[i] = tokens[i]
      /\ tokens'[Len(tokens) + 1] = t
  BY <1>1
<1> SUFFICES ASSUME NEW i \in DOMAIN tokens', NEW j \in DOMAIN tokens', i < j
             PROVE  Behind(tokens'[i].end, tokens'[j].start)
  BY DEF InOrder
<1>5. i \in DOMAIN tokens /\ tokens'[i] = tokens[i]
  BY <1>4
<1>6. CASE j \in DOMAIN tokens
  BY <1>4, <1>5, <1>6 DEF InOrder
<1>7. CASE j = Len(tokens) + 1
  BY <1>3, <1>4, <1>5, <1>7
<1> QED BY <1>4, <1>6, <1>7

(* No step of the lexer takes a token back or puts one in front. *)
LEMMA StepsInOrder ==
  ASSUME IInv, InOrder, [Next]_vars
  PROVE  InOrder'
<1>1. CASE tokens' = tokens
  BY <1>1 DEF InOrder
<1>2. ASSUME NEW kind \in TokenKind, Emit(kind, Floor)
      PROVE  InOrder'
  <2>1. tokens' = Append(tokens, [kind |-> kind, start |-> Floor,
          end |-> [line |-> m_line', column |-> m_column', offset |-> m_pos']])
    BY <1>2 DEF Emit
  <2> QED BY <2>1, AppendInOrder
<1>3. CASE Skips \/ dispatch \/ Scans \/ UNCHANGED vars
  BY <1>1, <1>3 DEF Skips, dispatch, Goto, Scans, vars
<1>4. CASE Emits
  <2>1. Floor = start
    BY <1>4 DEF Emits, Floor
  <2> QED BY <1>2, <1>4, <2>1 DEF Emits
<1>5. CASE end_of_input
  <2>1. Emit("Eof", Floor) /\ "Eof" \in TokenKind
    BY <1>5 DEF end_of_input, Floor, Skipping, TokenKind
  <2> QED BY <1>2, <2>1
<1> QED BY <1>3, <1>4, <1>5, StepKinds

(* Merged spans are the text between tokens, and spans sort like tokens:   *)
(* for every source, every choice of Unicode classes and every sequence of *)
(* calls.                                                                  *)
THEOREM SpansFollow == Spec => []SpansFollowTokens
<1>1. Init => InOrder
  BY DEF Init, InOrder
<1>2. IInv /\ InOrder /\ [Next]_vars => InOrder'
  BY StepsInOrder
<1>3. IInv /\ InOrder => SpansFollowTokens
  <2> SUFFICES ASSUME IInv, InOrder,
                      NEW i \in DOMAIN tokens, NEW j \in DOMAIN tokens, i <= j
               PROVE  LET a == getSpan(tokens[i])
                          b == getSpan(tokens[j])
                          both == [a EXCEPT !.end = b.end]
                      IN /\ merge(a, b) = both /\ merge(b, a) = both
                         /\ merged(a, b) = <<both>> /\ merged(b, a) = <<both>>
                         /\ a = b \/ SpanLess(a, b)
    BY DEF SpansFollowTokens
  <2>1. tokens \in Seq(Token) /\ tokens[i] \in Token /\ tokens[j] \in Token
    BY DEF IInv, TypeOK
  <2>2. /\ tokens[i].start \in Location /\ tokens[i].end \in Location
        /\ tokens[j].start \in Location /\ tokens[j].end \in Location
    BY <2>1 DEF Token
  <2>3. /\ Behind(tokens[i].start, tokens[i].end)
        /\ Behind(tokens[j].start, tokens[j].end)
    BY DEF IInv, TokenChain
  <2>4. Behind(tokens[i].start, tokens[j].start) /\ Behind(tokens[i].end, tokens[j].end)
    <3>1. CASE i = j
      BY <2>2, <3>1, BehindRefl
    <3>2. CASE i < j
      <4>1. Behind(tokens[i].end, tokens[j].start)
        BY <3>2 DEF InOrder
      <4> QED BY <2>2, <2>3, <4>1, BehindTrans
    <3> QED BY <2>1, <3>1, <3>2
  <2>5. getSpan(tokens[j]).end = tokens[j].end
    BY DEF getSpan
  <2> QED BY <2>1, <2>4, <2>5, MergeInOrder
<1> QED BY <1>1, <1>2, <1>3, IInvHolds, PTL DEF Spec
=============================================================================
