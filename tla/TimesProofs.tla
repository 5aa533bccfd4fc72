----------------------------- MODULE TimesProofs -----------------------------
(***************************************************************************)
(* What the decompositions of Times show, for every duration and every     *)
(* TICK and FACTOR.                                                        *)
(***************************************************************************)
EXTENDS TimesProperties, TLAPS

(* Division by a positive number leaves a remainder below it. *)
LEMMA Division ==
  ASSUME NEW t \in Int, NEW unit \in Nat \ {0}
  PROVE  /\ t \div unit \in Int
         /\ 0 <= t - (t \div unit) * unit
         /\ t - (t \div unit) * unit < unit
  BY SMT

(* The next multiple is one unit further. *)
LEMMA NextMultiple ==
  ASSUME NEW a \in Int, NEW unit \in Nat \ {0}
  PROVE  (a + 1) * unit = a * unit + unit
  BY SMT

(* Rounding is off by half a unit at most. *)
LEMMA RoundedIsNear ==
  ASSUME NEW t \in Int, NEW unit \in Nat \ {0}
  PROVE  /\ Rounded(t, unit) \in Int
         /\ 2 * (t - Rounded(t, unit) * unit) <= unit
         /\ -unit <= 2 * (t - Rounded(t, unit) * unit)
<1> DEFINE below == t \div unit
           over == t - below * unit
<1>1. below \in Int /\ 0 <= over /\ over < unit
  BY Division
<1>2. (below + 1) * unit = below * unit + unit
  BY <1>1, NextMultiple
<1>3. CASE 2 * over < unit \/ (2 * over = unit /\ below % 2 = 0)
  <2>1. Rounded(t, unit) = below
    BY <1>3 DEF Rounded
  <2> QED
    BY <2>1, <1>1, <1>3
<1>4. CASE ~(2 * over < unit \/ (2 * over = unit /\ below % 2 = 0))
  <2>1. Rounded(t, unit) = below + 1
    BY <1>4 DEF Rounded
  <2>2. 2 * over >= unit
    BY <1>4, <1>1
  <2> QED
    BY <2>1, <2>2, <1>1, <1>2
<1> QED
  BY <1>3, <1>4
-----------------------------------------------------------------------------
(* Each unit is FACTOR of the next. *)
LEMMA Units ==
  /\ Unit.ns \in Nat \ {0} /\ Unit.us \in Nat \ {0}
  /\ Unit.ms \in Nat \ {0} /\ Unit.s \in Nat \ {0}
  /\ Unit.us = FACTOR * Unit.ns /\ Unit.ms = FACTOR * Unit.us
  /\ Unit.s = FACTOR * Unit.ms /\ Unit.ns = TICK
<1> USE TimesAssumption
<1>1. /\ Unit.ns = TICK /\ Unit.us = FACTOR * TICK
      /\ Unit.ms = (FACTOR * FACTOR) * TICK
      /\ Unit.s = (FACTOR * FACTOR * FACTOR) * TICK
  BY DEF Unit, SECONDSFACTOR, MILLISECONDSFACTOR, MICROSECONDSFACTOR
<1>2. FACTOR * TICK \in Nat \ {0}
  OBVIOUS
<1>3. (FACTOR * FACTOR) * TICK = FACTOR * (FACTOR * TICK)
  OBVIOUS
<1>4. FACTOR * (FACTOR * TICK) \in Nat \ {0}
  BY <1>2
<1>5. (FACTOR * FACTOR * FACTOR) * TICK = FACTOR * (FACTOR * (FACTOR * TICK))
  OBVIOUS
<1>6. FACTOR * (FACTOR * (FACTOR * TICK)) \in Nat \ {0}
  BY <1>4
<1> QED
  BY <1>1, <1>2, <1>3, <1>4, <1>5, <1>6

LEMMA TruncatedIsInt ==
  ASSUME NEW t \in Int, NEW unit \in Nat \ {0}
  PROVE  Truncated(t, unit) \in Int
BY Division DEF Truncated
-----------------------------------------------------------------------------
LEMMA MicroAddsUp ==
  ASSUME NEW t \in Int, NEW shown,
         shown.time = t, shown.parts = transformTimeMicro(t)
  PROVE  AddsUp(shown) /\ shown.parts \in Seq(Int)
<1> DEFINE us == Truncated(t, Unit.us)
           rest == t - us * Unit.us
           ns == Rounded(rest, Unit.ns)
<1>1. shown.parts = <<us, ns>>
  BY DEF transformTimeMicro
<1>2. us \in Int
  BY Units, TruncatedIsInt
<1>3. rest \in Int
  BY <1>2, Units
<1> HIDE DEF rest
<1>4. /\ ns \in Int /\ 2 * (rest - ns * Unit.ns) <= Unit.ns
      /\ -Unit.ns <= 2 * (rest - ns * Unit.ns)
  BY <1>3, Units, RoundedIsNear
<1> HIDE DEF us, ns
<1>5. Amount(shown.parts) = 0 * Unit.s + 0 * Unit.ms + us * Unit.us + ns * Unit.ns
  BY <1>1 DEF Amount
<1>6. AddsUp(shown)
  <2>1. Amount(shown.parts) = us * Unit.us + ns * Unit.ns
    BY <1>2, <1>4, <1>5, Units
  <2>2. us * Unit.us \in Int /\ ns * Unit.ns \in Int
    BY <1>2, <1>4, Units
  <2>3. t - Amount(shown.parts) = rest - ns * Unit.ns
    BY <2>1, <2>2 DEF rest
  <2> DEFINE off == t - Amount(shown.parts)
  <2>4. off \in Int
    BY <2>3, <2>2, <1>3, Units
  <2>5. 2 * off <= TICK /\ -TICK <= 2 * off
    BY <2>3, <1>4, Units
  <2> HIDE DEF off
  <2> QED
    BY <2>4, <2>5, TimesAssumption DEF AddsUp, off
<1> QED
  BY <1>1, <1>2, <1>4, <1>6

LEMMA MilliAddsUp ==
  ASSUME NEW t \in Int, NEW shown,
         shown.time = t, shown.parts = transformTimeMilli(t)
  PROVE  AddsUp(shown) /\ shown.parts \in Seq(Int)
<1> DEFINE ms == Truncated(t, Unit.ms)
           afterMs == t - ms * Unit.ms
           us == Rounded(afterMs, Unit.us)
           afterUs == afterMs - us * Unit.us
           ns == Rounded(afterUs, Unit.ns)
<1>1. shown.parts = <<ms, us, ns>>
  BY DEF transformTimeMilli
<1>2. ms \in Int
  BY Units, TruncatedIsInt
<1>3. afterMs \in Int
  BY <1>2, Units
<1> HIDE DEF afterMs
<1>4. us \in Int /\ 2 * afterUs <= Unit.us /\ -Unit.us <= 2 * afterUs
  BY <1>3, Units, RoundedIsNear
<1>5. afterUs \in Int
  BY <1>3, <1>4, Units
<1> HIDE DEF afterUs
<1>6. /\ ns \in Int /\ 2 * (afterUs - ns * Unit.ns) <= Unit.ns
      /\ -Unit.ns <= 2 * (afterUs - ns * Unit.ns)
  BY <1>5, Units, RoundedIsNear
<1> HIDE DEF ms, us, ns
<1>7. AddsUp(shown)
  <2>1. Amount(shown.parts) = 0 * Unit.s + ms * Unit.ms + us * Unit.us + ns * Unit.ns
    BY <1>1 DEF Amount
  <2>2. /\ ms * Unit.ms \in Int /\ us * Unit.us \in Int /\ ns * Unit.ns \in Int
    BY <1>2, <1>4, <1>6, Units
  <2>3. Amount(shown.parts) = ms * Unit.ms + us * Unit.us + ns * Unit.ns
    BY <2>1, <2>2, Units
  <2>4. t - Amount(shown.parts) = afterUs - ns * Unit.ns
    BY <2>2, <2>3 DEF afterUs, afterMs
  <2> DEFINE off == t - Amount(shown.parts)
  <2>5. off \in Int
    BY <2>4, <2>2, <1>5, Units
  <2>6. 2 * off <= TICK /\ -TICK <= 2 * off
    BY <2>4, <1>6, Units
  <2> HIDE DEF off
  <2> QED
    BY <2>5, <2>6, TimesAssumption DEF AddsUp, off
<1> QED
  BY <1>1, <1>2, <1>4, <1>6, <1>7

LEMMA SecondsAddUp ==
  ASSUME NEW t \in Int, NEW shown,
         shown.time = t, shown.parts = transformTimeSeconds(t)
  PROVE  AddsUp(shown) /\ shown.parts \in Seq(Int)
<1> DEFINE sec == Truncated(t, Unit.s)
           afterSec == t - sec * Unit.s
           ms == Rounded(afterSec, Unit.ms)
           afterMs == afterSec - ms * Unit.ms
           us == Rounded(afterMs, Unit.us)
           afterUs == afterMs - us * Unit.us
           ns == Rounded(afterUs, Unit.ns)
<1>1. shown.parts = <<sec, ms, us, ns>>
  BY DEF transformTimeSeconds
<1>2. sec \in Int
  BY Units, TruncatedIsInt
<1>3. afterSec \in Int
  BY <1>2, Units
<1> HIDE DEF afterSec
<1>4. ms \in Int /\ 2 * afterMs <= Unit.ms /\ -Unit.ms <= 2 * afterMs
  BY <1>3, Units, RoundedIsNear
<1>5. afterMs \in Int
  BY <1>3, <1>4, Units
<1> HIDE DEF afterMs
<1>6. us \in Int /\ 2 * afterUs <= Unit.us /\ -Unit.us <= 2 * afterUs
  BY <1>5, Units, RoundedIsNear
<1>7. afterUs \in Int
  BY <1>5, <1>6, Units
<1> HIDE DEF afterUs
<1>8. /\ ns \in Int /\ 2 * (afterUs - ns * Unit.ns) <= Unit.ns
      /\ -Unit.ns <= 2 * (afterUs - ns * Unit.ns)
  BY <1>7, Units, RoundedIsNear
<1> HIDE DEF sec, ms, us, ns
<1>9. AddsUp(shown)
  <2>1. Amount(shown.parts) = sec * Unit.s + ms * Unit.ms + us * Unit.us + ns * Unit.ns
    BY <1>1 DEF Amount
  <2>2. /\ sec * Unit.s \in Int /\ ms * Unit.ms \in Int
        /\ us * Unit.us \in Int /\ ns * Unit.ns \in Int
    BY <1>2, <1>4, <1>6, <1>8, Units
  <2>3. t - Amount(shown.parts) = afterUs - ns * Unit.ns
    BY <2>1, <2>2 DEF afterUs, afterMs, afterSec
  <2> DEFINE off == t - Amount(shown.parts)
  <2>4. off \in Int
    BY <2>3, <2>2, <1>7, Units
  <2>5. 2 * off <= TICK /\ -TICK <= 2 * off
    BY <2>3, <1>8, Units
  <2> HIDE DEF off
  <2> QED
    BY <2>4, <2>5, TimesAssumption DEF AddsUp, off
<1> QED
  BY <1>1, <1>2, <1>4, <1>6, <1>8, <1>9

(* Whatever duration is shown: its components add up to it to half a       *)
(* nanosecond, whichever transformation getRelevantTimeframe chooses       *)
(* (Times.hpp).                                                            *)
THEOREM ShownAddsUp ==
  ASSUME NEW t \in Int, NEW shown,
         shown.time = t, shown.label = getRelevantTimeframe(t).label,
         shown.parts = toString(getRelevantTimeframe(t))
  PROVE  /\ shown.label \in DOMAIN Unit /\ shown.parts \in Seq(Int)
         /\ shown.label # "ns" => AddsUp(shown)
<1> DEFINE value == getRelevantTimeframe(t)
<1>1. value.time = t /\ value.label = shown.label
  BY DEF getRelevantTimeframe
<1>2. shown.label \in {"s", "ms", "us", "ns"}
  BY DEF getRelevantTimeframe
<1>3. shown.parts = toString(value)
  OBVIOUS
<1> HIDE DEF value
<1>4. CASE shown.label = "s"
  BY <1>1, <1>3, <1>4, SecondsAddUp DEF toString, Unit
<1>5. CASE shown.label = "ms"
  BY <1>1, <1>3, <1>5, MilliAddsUp DEF toString, Unit
<1>6. CASE shown.label = "us"
  BY <1>1, <1>3, <1>6, MicroAddsUp DEF toString, Unit
<1>7. CASE shown.label = "ns"
  BY <1>1, <1>3, <1>7 DEF toString, Unit
<1> QED
  BY <1>2, <1>4, <1>5, <1>6, <1>7
=============================================================================
