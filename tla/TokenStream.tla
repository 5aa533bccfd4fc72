----------------------------- MODULE TokenStream -----------------------------
(***************************************************************************)
(* What a caller of the lexer is promised, whatever the scanners do: the   *)
(* tokens of a text of size bytes come out in the order of the text, none  *)
(* overlaps another, each holds at least one byte, none is ever changed or *)
(* taken back, and when the text is used up every further token is the     *)
(* empty one at its end.                                                   *)
(***************************************************************************)
EXTENDS Integers, Sequences

VARIABLES
  size,     \* bytes in the text
  spans     \* [from, to) of the tokens returned so far

Consumed == IF spans = <<>> THEN 0 ELSE spans[Len(spans)].to
AtEnd == spans # <<>> /\ spans[Len(spans)].from = size

Init == size \in Nat /\ spans = <<>>

(* A token of at least one byte, behind what was returned before. *)
Lexeme ==
  \E from, to \in Consumed .. size :
    /\ from < to
    /\ spans' = Append(spans, [from |-> from, to |-> to])
    /\ UNCHANGED size

(* The end-of-input token. *)
EndOfInput ==
  /\ spans' = Append(spans, [from |-> size, to |-> size])
  /\ UNCHANGED size

Next == (~AtEnd /\ Lexeme) \/ EndOfInput
Spec == Init /\ [][Next]_<<size, spans>>
=============================================================================
