-------------------------- MODULE ProgramProperties --------------------------
(***************************************************************************)
(* What is checked of Program and the modules under it.                    *)
(***************************************************************************)
EXTENDS Program, TimesProperties

Local == Timers \cup {"str", "lexer", "tokens"}
Label ==
  {"INIT_LOG", "parse", "readFromFile", "processing_time", "log_size", "lexer",
   "tokenize", "tokenization_time", "log_count", "log_tokens", "unwind",
   "ready", "calling", "averaging", "printing", "exited"} \cup Timers

ShownTime == [time : Int, label : DOMAIN Unit, parts : Seq(Int)]
Line ==
  [kind : {"version", "error"}] \cup [kind : {"count", "token"}, of : Nat] \cup
  [kind : {"size"}, shown : [bytes : Nat, unit : Nat]] \cup
  [kind : {"time"}, of : Timers, shown : ShownTime] \cup
  [kind : {"average"}, shown : ShownTime, tries : Nat]

LogTypeOK ==
  /\ logger \in DOMAIN Threshold /\ out \in Seq(Line)
  /\ complaints \in Nat /\ lost \in 0 .. MaxLost

(* A loop of time_it has counted at most MFACTOR + 1 calls, and never none *)
(* when the total is divided by the count (Timer.hpp, time_it).            *)
TimerTypeOK ==
  /\ now \in Readings
  /\ start_ \in [Timers -> Readings] /\ born \in [Timers -> Readings]
  /\ cycles \in [Timers -> Nat \ {0}]
  /\ saved \in Readings /\ total_time \in Int /\ target_time \in Nat
  /\ n \in 0 .. MFACTOR + 1 /\ called \in 0 .. MFACTOR + 1
  /\ pc = "averaging" => n > 0
  /\ cut \subseteq Timers

MainTypeOK ==
  /\ pc \in Label /\ scope \in Seq(Local) /\ raised \in BOOLEAN
  /\ size \in Nat /\ tokens \in Nat /\ printed \in 0 .. tokens
  /\ uses \in 0 .. MaxUses
  /\ status \in {"none", "cli", "EXIT_SUCCESS", "terminated"}

(* The types of the log, of the timers with their clock, and of main.      *)
TypeOK == LogTypeOK /\ TimerTypeOK /\ MainTypeOK
-----------------------------------------------------------------------------
Lines(kind) == {i \in DOMAIN out : out[i].kind = kind}
TimesShown == {out[i].shown : i \in Lines("time") \cup Lines("average")}

Composite == {shown \in TimesShown : shown.label # "ns"}

(* The components of every time that is logged add up to the time, to half *)
(* a nanosecond: however the remainders are rounded on the way, nothing is *)
(* lost or counted twice (Times.hpp, the three transformations).           *)
ShownTimesAddUp == \A shown \in Composite : AddsUp(shown)

(* Times.hpp:250 and 276 give "1.234567 -> 1ms,234us,567ns" and the same   *)
(* for seconds: each component behind the first counts what the one before *)
(* leaves, from 0 up to a whole unit of it.                                *)
ComponentsAreDocumented == \A shown \in Composite : IsDocumented(shown)
-----------------------------------------------------------------------------
(* Outside time_it a timer still runs from its construction, through any   *)
(* number of measurements, unless one of them was left by a throw: only    *)
(* then is its start lost (Timer.hpp, time_it's saved start).              *)
StartSurvivesTimeIt ==
  pc = "ready" => start_["benchmark"] = born["benchmark"] \/ "benchmark" \in cut

(* What time_it reports: the tries are all the calls that were made, no    *)
(* fewer than the target or MFACTOR asks for, and the average times their  *)
(* number is the time they took (Timer.hpp, the loop of time_it).          *)
AverageIsOverAllCalls ==
  [][\A line \in {out'[i] : i \in DOMAIN out' \ DOMAIN out} :
       line.kind = "average" =>
         /\ line.tries = called
         /\ called <= MFACTOR => total_time >= target_time * TICK
         /\ total_time - line.shown.time * called \in 0 .. called - 1]_vars
-----------------------------------------------------------------------------
(* Whatever is a view looks into something that is alive: the lexer into   *)
(* the text, the tokens into the text and into the lexer's file name, in   *)
(* every order in which main can leave its block (SourceSpan.hpp:23,       *)
(* Lexer.hpp:57, main.cpp).                                                *)
Viewed == [x \in Local |-> IF x = "lexer" THEN {"str"}
                           ELSE IF x = "tokens" THEN {"str", "lexer"} ELSE {}]
ViewsStayAlive == \A x \in Local : Alive(x) => \A y \in Viewed[x] : Alive(y)

Ended == status = "EXIT_SUCCESS" /\ lost = 0
LastLine(kind) == out # <<>> /\ out[Len(out)].kind = kind

(* The exit status says nothing of a failure, so the log must: a run that  *)
(* ends with EXIT_SUCCESS and whose lines were all written ends with an    *)
(* error line exactly when an exception was caught (main.cpp, handlers).   *)
FailureIsSaid == Ended => (raised = LastLine("error")) /\ (raised = (Lines("error") # {}))

(* The total time is logged once whenever a file was opened for reading,   *)
(* however main is left, and nothing but the error comes behind it         *)
(* (Timer.hpp, ~AutoTimer; main.cpp).                                      *)
TotalIsSaidLast ==
  LET total == {i \in Lines("time") : out[i].of = "compilationTime"}
      others == {i \in Lines("time") : out[i].of \in {"timer", "tokenizationTimer"}}
                  \cup Lines("size") \cup Lines("count") \cup Lines("token")
  IN  Ended /\ others # {} =>
        \E i \in total : total = {i} /\ \A j \in DOMAIN out :
          j > i => out[j].kind = "error"

(* A run that did not fail has logged every token of the file, the end     *)
(* token included, once and in their order, behind their number            *)
(* (main.cpp, the loop over the tokens).                                   *)
EveryTokenIsLogged ==
  Ended /\ ~raised => \A c \in Lines("count") :
    \A i \in 1 .. out[c].of : c + i \in Lines("token") /\ out[c + i].of = i

(* The size is shown in the largest unit of which there is one or more,    *)
(* up to the last of the table (main.cpp, format_size).                    *)
SizeIsShownInItsUnit ==
  \A i \in Lines("size") :
    LET bytes == out[i].shown.bytes
        unit == out[i].shown.unit
    IN  /\ unit + 1 \in DOMAIN UNITS
        /\ unit > 0 => bytes >= UNIT_DIVIDER ^ unit
        /\ unit + 1 < Len(UNITS) => bytes < UNIT_DIVIDER ^ (unit + 1)

(* The program ends, however the clock is set while time_it measures.      *)
ProgramEnds == <>(status # "none")
=============================================================================
