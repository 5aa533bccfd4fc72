-------------------------------- MODULE Timer --------------------------------
(***************************************************************************)
(* include/jsavCore/timer/Timer.hpp: timers over one clock, and time_it,   *)
(* which borrows a timer's start_ to measure a callable.  The clock is the *)
(* high_resolution_clock, which is not steady: it can be set back.         *)
(***************************************************************************)
EXTENDS Times, Log

CONSTANTS
  Timers,      \* the Timer objects of the program
  Steps,       \* ticks the clock may move by between two readings
  ClockMax,    \* bound: readings of the clock lie between -ClockMax and it
  MFACTOR,     \* 100 in the code
  Targets      \* what callers pass as target_time

ASSUME TimerAssumption ==
  /\ Steps \subseteq Int /\ 0 \in Steps /\ Targets \subseteq Nat
  /\ ClockMax \in Nat /\ MFACTOR \in Nat

VARIABLES
  now,         \* the clock
  start_,      \* of each timer
  cycles,      \* of each timer
  saved, n, total_time, target_time,   \* locals of time_it
  born,        \* history: the clock when each timer was constructed
  cut,         \* history: the timers a time_it of which was left by a throw
  called       \* history: calls of f in the running time_it

object == <<start_, cycles>>
locals == <<saved, n, total_time, target_time>>
timing == <<now, object, locals, born, cut, called>>
-----------------------------------------------------------------------------
Readings == -ClockMax .. ClockMax
Elapse(d) == now + d \in Readings /\ now' = now + d

(* The constructor: the timer runs from here. *)
Timer(t) ==
  /\ start_' = [start_ EXCEPT ![t] = now]
  /\ cycles' = [cycles EXCEPT ![t] = 1]
  /\ born' = [born EXCEPT ![t] = now]
  /\ cut' = cut \ {t}

make_time(t) == now - start_[t]

(* make_time_str, of a number: what is shown of a duration. *)
Shown(time) ==
  LET value == getRelevantTimeframe(time)
  IN  [time |-> time, label |-> value.label, parts |-> toString(value)]

(* make_time_str and to_string: the average over the timer's cycles. *)
to_string(t) ==
  [kind |-> "time", of |-> t, shown |-> Shown(make_time(t) \div cycles[t])]

(* operator/.  A caller that passes 0 divides by zero later: documented as *)
(* undefined, so callers here pass positive numbers.                       *)
Slash(t, val) == cycles' = [cycles EXCEPT ![t] = val]
-----------------------------------------------------------------------------
(* Mutant: the start is saved after it was replaced. *)
TimeItSavingLate(t, target) ==
  /\ saved' = now
  /\ start_' = [start_ EXCEPT ![t] = now]
  /\ n' = 0 /\ total_time' = 0 /\ target_time' = target /\ called' = 0
  /\ UNCHANGED <<now, cycles, born, cut>>

(* time_it, up to its loop.  target is in seconds for the caller. *)
time_it(t, target) ==
  /\ saved' = start_[t]
  /\ start_' = [start_ EXCEPT ![t] = now]
  /\ n' = 0 /\ total_time' = 0 /\ target_time' = target /\ called' = 0
  /\ UNCHANGED <<now, cycles, born, cut>>

(* Mutant: ++n in the test of the loop. *)
CallPreincremented(t, again) ==
  /\ \E d \in Steps : Elapse(d)
  /\ total_time' = now' - start_[t]
  /\ n' = n + 1
  /\ called' = IF called > MFACTOR THEN called ELSE called + 1
  /\ again = (n + 1 < MFACTOR /\ total_time' < target_time * TICK)
  /\ UNCHANGED <<object, saved, target_time, born, cut>>

(* Mutant: n lives inside the loop. *)
CallResettingN(t, again) ==
  /\ \E d \in Steps : Elapse(d)
  /\ total_time' = now' - start_[t]
  /\ n' = 1
  /\ called' = IF called > MFACTOR THEN called ELSE called + 1
  /\ again = (0 < MFACTOR /\ total_time' < target_time * TICK)
  /\ UNCHANGED <<object, saved, target_time, born, cut>>

(* Mutant: the count is taken for the bound it is compared with. *)
CallCountingOn(t, again) ==
  /\ \E d \in Steps : Elapse(d)
  /\ total_time' = now' - start_[t]
  /\ n' = n + 1
  /\ called' = IF called > MFACTOR THEN called ELSE called + 1
  /\ again = (n <= MFACTOR /\ total_time' < target_time * TICK)
  /\ UNCHANGED <<object, saved, target_time, born, cut>>

(* One round of the do-while loop: f runs and returns, n is counted up     *)
(* whatever the test says, and the total in nanoseconds is compared with   *)
(* the target's number.  called stops counting at MFACTOR + 1.             *)
call(t, again) ==
  /\ \E d \in Steps : Elapse(d)
  /\ total_time' = now' - start_[t]
  /\ n' = n + 1
  /\ called' = IF called > MFACTOR THEN called ELSE called + 1
  /\ again = (n < MFACTOR /\ total_time' < target_time * TICK)
  /\ UNCHANGED <<object, saved, target_time, born, cut>>

(* An exception of f, or of formatting the result, leaves at once. *)
throw_out(t) ==
  /\ cut' = cut \cup {t}
  /\ UNCHANGED <<now, object, locals, born, called>>

Average == total_time \div n

(* Behind the loop: the result is formatted and the start put back. *)
finish(t) ==
  /\ start_' = [start_ EXCEPT ![t] = saved]
  /\ UNCHANGED <<now, cycles, locals, born, cut, called>>

TimerInit ==
  /\ now = 0
  /\ start_ = [t \in Timers |-> 0] /\ cycles = [t \in Timers |-> 1]
  /\ saved = 0 /\ n = 0 /\ total_time = 0 /\ target_time = 0
  /\ born = [t \in Timers |-> 0] /\ cut = {} /\ called = 0
=============================================================================
