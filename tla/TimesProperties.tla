--------------------------- MODULE TimesProperties ---------------------------
(***************************************************************************)
(* What is asked of a time that is shown: a record of the time in ticks,   *)
(* the label of its largest unit and the components behind it.             *)
(***************************************************************************)
EXTENDS Times

(* What the components amount to; they end with the nanoseconds. *)
Amount(parts) ==
  LET part(i) == IF i > 4 - Len(parts) THEN parts[i + Len(parts) - 4] ELSE 0
  IN  part(1) * Unit.s + part(2) * Unit.ms + part(3) * Unit.us + part(4) * Unit.ns

(* To half a nanosecond. *)
AddsUp(shown) ==
  LET error == 2 * (shown.time - Amount(shown.parts))
  IN  error <= TICK /\ -error <= TICK

IsDocumented(shown) ==
  \A i \in 2 .. Len(shown.parts) : shown.parts[i] \in 0 .. FACTOR - 1
=============================================================================
