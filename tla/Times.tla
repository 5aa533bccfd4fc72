-------------------------------- MODULE Times --------------------------------
(***************************************************************************)
(* include/jsavCore/timer/Times.hpp and timeFactors.hpp: how a duration is *)
(* shown.  A duration is a whole number of ticks, TICK of them to the      *)
(* nanosecond, so that the fractions of a nanosecond which averages leave  *)
(* are there to be rounded; what an average leaves below a tick is         *)
(* dropped.  The last digits of the code's long double are left out.       *)
(* std::chrono's truncating duration_cast and its half-to-even round are   *)
(* modelled by what they do.                                               *)
(***************************************************************************)
EXTENDS Integers, Sequences

CONSTANTS
  TICK,      \* ticks of a nanosecond
  FACTOR     \* from each unit to the next; 1000 in the code

ASSUME TimesAssumption ==
  TICK \in Nat \ {0} /\ FACTOR \in Nat \ {0}

MICROSECONDSFACTOR == FACTOR
MILLISECONDSFACTOR == FACTOR * FACTOR
SECONDSFACTOR == FACTOR * FACTOR * FACTOR

(* The ticks of a unit, by its label. *)
Unit == [s  |-> SECONDSFACTOR * TICK, ms |-> MILLISECONDSFACTOR * TICK,
         us |-> MICROSECONDSFACTOR * TICK, ns |-> TICK]
-----------------------------------------------------------------------------
(* duration_cast to a whole number of units: towards zero. *)
Truncated(t, unit) == IF t < 0 THEN -((-t) \div unit) ELSE t \div unit

(* std::chrono::round: the nearer whole number of units, a tie to the even. *)
Rounded(t, unit) ==
  LET below == t \div unit
      over  == t - below * unit
  IN  IF 2 * over < unit \/ (2 * over = unit /\ below % 2 = 0)
      THEN below ELSE below + 1

(* The components each transformation shows, largest unit first. *)
transformTimeMicro(t) ==
  LET us == Truncated(t, Unit.us)
  IN  <<us, Rounded(t - us * Unit.us, Unit.ns)>>

transformTimeMilli(t) ==
  LET ms == Truncated(t, Unit.ms)
      remainder == t - ms * Unit.ms
      us == Rounded(remainder, Unit.us)
  IN  <<ms, us, Rounded(remainder - us * Unit.us, Unit.ns)>>

(* Mutant: the remainder is not reduced by the microseconds. *)
SecondsKeepingRemainder(t) ==
  LET sec == Truncated(t, Unit.s)
      afterSec == t - sec * Unit.s
      ms == Rounded(afterSec, Unit.ms)
      afterMs == afterSec - ms * Unit.ms
      us == Rounded(afterMs, Unit.us)
  IN  <<sec, ms, us, Rounded(afterMs, Unit.ns)>>

transformTimeSeconds(t) ==
  LET sec == Truncated(t, Unit.s)
      afterSec == t - sec * Unit.s
      ms == Rounded(afterSec, Unit.ms)
      afterMs == afterSec - ms * Unit.ms
      us == Rounded(afterMs, Unit.us)
  IN  <<sec, ms, us, Rounded(afterMs - us * Unit.us, Unit.ns)>>
-----------------------------------------------------------------------------
(* Times::getRelevantTimeframe: the largest unit of which there is more    *)
(* than one.                                                               *)
getRelevantTimeframe(t) ==
  [time  |-> t,
   label |-> IF t > Unit.s THEN "s" ELSE IF t > Unit.ms THEN "ms"
             ELSE IF t > Unit.us THEN "us" ELSE "ns"]

(* ValueLabel::toString.  Nanoseconds are printed as they are, with their  *)
(* fraction, so the one component is kept in ticks.                        *)
toString(value) ==
  CASE value.label = "s"  -> transformTimeSeconds(value.time)
    [] value.label = "ms" -> transformTimeMilli(value.time)
    [] value.label = "us" -> transformTimeMicro(value.time)
    [] OTHER              -> <<value.time>>
=============================================================================
