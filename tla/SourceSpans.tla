----------------------------- MODULE SourceSpans -----------------------------
(***************************************************************************)
(* SourceSpan and the order of SourceLocation: what a caller of the lexer  *)
(* does with the locations in the tokens, src/jsav_Lib/lexer/              *)
(* SourceSpan.cpp.  File paths stand as numbers, in the order of the       *)
(* strings; a location's absolute_pos is called offset here.               *)
(***************************************************************************)
EXTENDS Integers

(* The default operator<=> of SourceLocation: line, column, offset. *)
Less(a, b) ==
  \/ a.line < b.line
  \/ a.line = b.line /\ a.column < b.column
  \/ a.line = b.line /\ a.column = b.column /\ a.offset < b.offset

Earlier(a, b) == IF Less(b, a) THEN b ELSE a
Later(a, b)   == IF Less(a, b) THEN b ELSE a

(* this->merge(other), the span it leaves. *)
merge(this, other) ==
  IF this.file_path # other.file_path THEN this
  ELSE [file_path |-> this.file_path,
        start |-> Earlier(this.start, other.start),
        end |-> Later(this.end, other.end)]

(* Mutant: the other span is taken to lie behind this one. *)
MergedBehind(this, other) ==
  IF this.file_path # other.file_path THEN <<>>
  ELSE <<[file_path |-> this.file_path, start |-> this.start, end |-> other.end]>>

(* this.merged(other), <<>> for nullopt. *)
merged(this, other) ==
  IF this.file_path # other.file_path THEN <<>>
  ELSE <<[file_path |-> this.file_path,
          start |-> IF Less(this.start, other.start) THEN this.start ELSE other.start,
          end |-> IF Less(other.end, this.end) THEN this.end ELSE other.end]>>

(* The operator<=> of SourceSpan: file, start, end. *)
SpanLess(this, other) ==
  \/ this.file_path < other.file_path
  \/ /\ this.file_path = other.file_path
     /\ \/ Less(this.start, other.start)
        \/ this.start = other.start /\ Less(this.end, other.end)
=============================================================================
