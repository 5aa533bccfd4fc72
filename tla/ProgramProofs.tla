---------------------------- MODULE ProgramProofs ----------------------------
(***************************************************************************)
(* Safety of Program for every clock, every log that loses lines and every *)
(* file: what is logged is complete, in order and right, and no view of a  *)
(* local outlives it.                                                      *)
(***************************************************************************)
EXTENDS ProgramProperties, TimesProofs, SequenceTheorems

(* What the log may hold: times that were composed from some duration, and *)
(* sizes that format_size made of some size.                               *)
Said ==
  {line \in Line :
     /\ line.kind \in {"time", "average"} => \E t \in Int : line.shown = Shown(t)
     /\ line.kind = "size" => \E bytes \in Nat : line.shown = format_size(bytes)}

Early == pc \notin {"log_tokens", "unwind", "exited"}

(* What the loops count: time_it its calls, and main the tokens.           *)
Counts ==
  /\ pc \in {"calling", "averaging"} => n = called
  /\ pc = "calling" => n <= MFACTOR
  /\ pc = "averaging" /\ called <= MFACTOR => total_time >= target_time * TICK
  /\ Early => printed = 0
  /\ status = "none" <=> pc # "exited"

Types == TypeOK /\ Counts /\ out \in Seq(Said)

(* A line is written or lost. *)
Says(line) ==
  \/ out' = Append(out, line) /\ lost' = lost
  \/ out' = out /\ lost' = lost + 1
-----------------------------------------------------------------------------
(* What every call of the logger does: both loggers write both levels.     *)
LEMMA Logged ==
  ASSUME LogTypeOK, NEW line, LINFO(line) \/ LERROR(line)
  PROVE  /\ Says(line)
         /\ logger' \in DOMAIN Threshold /\ complaints' \in Nat /\ lost' \in 0 .. MaxLost
<1>1. Level.info >= Threshold[logger] /\ Level.error >= Threshold[logger]
  BY DEF LogTypeOK, Level, Threshold
<1>2. PICK level \in {Level.info, Level.error} : SPDLOG(level, line)
  BY DEF LINFO, LERROR
<1>3. level >= Threshold[logger]
  BY <1>1, <1>2
<1>4. logger' = logger
  BY <1>2 DEF SPDLOG
<1>5. CASE out' = Append(out, line) /\ UNCHANGED <<complaints, lost>>
  BY <1>4, <1>5 DEF LogTypeOK, Says
<1>6. CASE lost < MaxLost /\ lost' = lost + 1 /\ my_error_handler /\ UNCHANGED out
  BY <1>4, <1>6, MaxLostAssumption DEF LogTypeOK, Says, my_error_handler
<1> QED BY <1>2, <1>3, <1>5, <1>6 DEF SPDLOG

(* What is shown of any duration has its type.                             *)
LEMMA ShownIsTyped ==
  ASSUME NEW t \in Int
  PROVE  Shown(t) \in ShownTime /\ Shown(t).time = t
<1> DEFINE shown == Shown(t)
<1>1. /\ shown = [time |-> shown.time, label |-> shown.label, parts |-> shown.parts]
      /\ shown.time = t /\ shown.label = getRelevantTimeframe(t).label
      /\ shown.parts = toString(getRelevantTimeframe(t))
  BY DEF Shown
<1> HIDE DEF shown
<1>2. shown.label \in DOMAIN Unit /\ shown.parts \in Seq(Int)
  BY <1>1, ShownAddsUp
<1> QED BY <1>1, <1>2 DEF ShownTime, shown

(* format_size always finds a unit.                                        *)
LEMMA SizeIsTyped ==
  ASSUME NEW bytes \in Nat
  PROVE  /\ format_size(bytes) = [bytes |-> bytes, unit |-> format_size(bytes).unit]
         /\ format_size(bytes).unit \in 0 .. 4
         /\ format_size(bytes).unit = 4 \/ bytes < UNIT_DIVIDER ^ (format_size(bytes).unit + 1)
         /\ \A unit \in 0 .. 3 : bytes < UNIT_DIVIDER ^ (unit + 1) => format_size(bytes).unit <= unit
<1> DEFINE Stops(unit) == unit = 4 \/ bytes < UNIT_DIVIDER ^ (unit + 1)
           stops == {unit \in 0 .. 4 : Stops(unit)}
           least == CHOOSE unit \in stops : \A other \in stops : unit <= other
<1>1. Len(UNITS) - 1 = 4
  BY DEF UNITS
<1>2. format_size(bytes) = [bytes |-> bytes, unit |-> least]
  BY <1>1 DEF format_size
<1>3. 4 \in stops /\ stops \subseteq 0 .. 4
  OBVIOUS
<1>4. \A unit \in 0 .. 3 : bytes < UNIT_DIVIDER ^ (unit + 1) => unit \in stops
  OBVIOUS
<1>5. \A unit \in stops : unit = 4 \/ bytes < UNIT_DIVIDER ^ (unit + 1)
  OBVIOUS
<1> HIDE DEF stops
<1>6. \E unit \in stops : \A other \in stops : unit <= other
  <2>1. \A unit \in stops : unit \in {0, 1, 2, 3, 4}
    BY <1>3
  <2>2. CASE 0 \in stops
    BY <2>1, <2>2
  <2>3. CASE 0 \notin stops /\ 1 \in stops
    BY <2>1, <2>3
  <2>4. CASE 0 \notin stops /\ 1 \notin stops /\ 2 \in stops
    BY <2>1, <2>4
  <2>5. CASE 0 \notin stops /\ 1 \notin stops /\ 2 \notin stops /\ 3 \in stops
    BY <2>1, <2>5
  <2>6. CASE 0 \notin stops /\ 1 \notin stops /\ 2 \notin stops /\ 3 \notin stops
    BY <1>3, <2>1, <2>6
  <2> QED BY <2>2, <2>3, <2>4, <2>5, <2>6
<1>7. least \in stops /\ \A other \in stops : least <= other
  BY <1>6
<1> HIDE DEF least
<1>8. format_size(bytes).unit = least
  BY <1>2
<1> QED BY <1>2, <1>3, <1>4, <1>5, <1>7, <1>8

(* The lines that main logs, and the one of Benchmark.                     *)
LEMMA SaidLines ==
  ASSUME TimerTypeOK, NEW t \in Timers, NEW i \in Nat
  PROVE  /\ to_string(t) \in Said /\ to_string(t).kind = "time" /\ to_string(t).of = t
         /\ [kind |-> "version"] \in Said /\ [kind |-> "error"] \in Said
         /\ [kind |-> "count", of |-> i] \in Said /\ [kind |-> "token", of |-> i] \in Said
         /\ [kind |-> "size", shown |-> format_size(i)] \in Said
<1> DEFINE d == make_time(t) \div cycles[t]
<1>1. d \in Int
  <2>1. make_time(t) \in Int
    BY TimerAssumption DEF TimerTypeOK, make_time, Readings
  <2>2. cycles[t] \in Nat \ {0}
    BY DEF TimerTypeOK
  <2> QED BY <2>1, <2>2
<1>2. to_string(t) = [kind |-> "time", of |-> t, shown |-> Shown(d)]
  BY DEF to_string
<1> HIDE DEF d
<1>3. Shown(d) \in ShownTime
  BY <1>1, ShownIsTyped
<1>4. to_string(t) \in Line
  BY <1>2, <1>3 DEF Line
<1>5. to_string(t) \in Said
  BY <1>1, <1>2, <1>4 DEF Said
<1>6. format_size(i) \in [bytes : Nat, unit : Nat]
  BY SizeIsTyped
<1>7. [kind |-> "size", shown |-> format_size(i)] \in Line
  BY <1>6 DEF Line
<1>8. [kind |-> "size", shown |-> format_size(i)] \in Said
  BY <1>7 DEF Said
<1>9. /\ [kind |-> "version"] \in Line /\ [kind |-> "error"] \in Line
      /\ [kind |-> "count", of |-> i] \in Line /\ [kind |-> "token", of |-> i] \in Line
  BY DEF Line
<1>10. /\ [kind |-> "version"] \in Said /\ [kind |-> "error"] \in Said
       /\ [kind |-> "count", of |-> i] \in Said /\ [kind |-> "token", of |-> i] \in Said
  BY <1>9 DEF Said
<1> QED BY <1>2, <1>5, <1>8, <1>10
-----------------------------------------------------------------------------
(* Grouping of the actions by what they leave alone. *)
TimerWaits ==
  \/ init_log \/ parse \/ processing_time \/ log_size \/ construct_lexer
  \/ tokenization_time \/ log_count \/ log_token \/ end_of_try
  \/ destroy \/ return \/ print_time
TimerRuns == readFromFile \/ tokenize \/ print
Declares ==
  \/ Declare("compilationTime", "timer") \/ Declare("timer", "readFromFile")
  \/ Declare("tokenizationTimer", "tokenize") \/ Declare("benchmark", "ready")
Measures == begin_time_it \/ call_f \/ end_time_it \/ time_it_throws

LEMMA Actions ==
  ASSUME Next
  PROVE  TimerWaits \/ TimerRuns \/ Declares \/ Measures
BY Zenon DEF Next, Main, Benchmark, TimerWaits, TimerRuns, Declares, Measures

(* The timers keep their types, and time_it's counts agree.                *)
LEMMA TimerWaiting ==
  ASSUME Types, TimerWaits
  PROVE  UNCHANGED timing /\ pc' \notin {"calling", "averaging", "ready"}
<1>1. CASE init_log \/ parse \/ log_size \/ construct_lexer \/ log_count \/ end_of_try
  BY <1>1 DEF init_log, parse, log_size, construct_lexer, log_count, end_of_try,
     Goto, Exit, Throw
<1>2. CASE processing_time \/ tokenization_time \/ print_time
  BY <1>2 DEF processing_time, tokenization_time, print_time, LogTime, Goto, Exit, Terminate
<1>3. CASE log_token \/ destroy \/ return
  BY <1>3 DEF log_token, destroy, return, At, Exit
<1> QED BY <1>1, <1>2, <1>3 DEF TimerWaits

LEMMA TimerMeasuring ==
  ASSUME Types, Measures
  PROVE  TimerTypeOK' /\ Counts'
<1> USE DEF Types, TypeOK, TimerTypeOK, MainTypeOK, Counts, Early, locals, object, progress
<1>1. "benchmark" \in Timers /\ MFACTOR \in Nat /\ 0 \in Readings
  BY ProgramAssumption, TimerAssumption DEF Readings
<1>2. CASE begin_time_it
  BY <1>1, <1>2, TimerAssumption DEF begin_time_it, At, time_it, Goto
<1>3. CASE call_f
  <2>1. PICK again \in BOOLEAN :
          call("benchmark", again) /\ (again => UNCHANGED pc) /\ (~again => pc' = "averaging")
    BY <1>3 DEF call_f
  <2>2. pc = "calling" /\ UNCHANGED <<log, scope, raised, size, tokens, printed, uses, status>>
    BY <1>3 DEF call_f, At
  <2>3. now' \in Readings /\ total_time' \in Int
    BY <1>1, <2>1, TimerAssumption DEF call, Elapse, Readings
  <2>4. n = called /\ n \in 0 .. MFACTOR
    BY <1>1, <2>2
  <2>5. n' = n + 1 /\ called' = n' /\ n' \in 1 .. MFACTOR + 1
    BY <1>1, <2>1, <2>4 DEF call
  <2>6. /\ again => n < MFACTOR
        /\ ~again => ~(n < MFACTOR) \/ ~(total_time' < target_time * TICK)
    <3>1. again = (n < MFACTOR /\ total_time' < target_time * TICK)
      BY ONLY <2>1 DEF call
    <3> QED BY ONLY Zenon, <3>1
  <2>7. again => n' <= MFACTOR
    BY <1>1, <2>4, <2>5, <2>6
  <2>8. UNCHANGED <<object, saved, target_time, born, cut>>
    BY <2>1 DEF call
  <2>9. target_time * TICK \in Int
    BY TimesAssumption
  <2>10. ~again /\ called' <= MFACTOR => total_time' >= target_time' * TICK
    BY <1>1, <2>3, <2>4, <2>5, <2>6, <2>8, <2>9
  <2>11. TimerTypeOK'
    BY <1>1, <2>1, <2>2, <2>3, <2>5, <2>8
  <2>12. Counts'
    BY <1>1, <2>1, <2>2, <2>5, <2>7, <2>10
  <2> QED BY <2>11, <2>12
<1>4. CASE end_time_it
  <2>1. pc = "averaging" /\ UNCHANGED progress
    BY <1>4 DEF end_time_it, At, Terminate
  <2>2. CASE Terminate /\ UNCHANGED timing
    BY <2>1, <2>2 DEF Terminate, Exit, timing
  <2>3. CASE finish("benchmark") /\ Goto("ready")
    BY <1>1, <2>1, <2>3 DEF finish, Goto
  <2> QED BY <1>4, <2>2, <2>3 DEF end_time_it
<1>5. CASE time_it_throws
  BY <1>1, <1>5 DEF time_it_throws, throw_out, Goto, timing
<1> QED BY <1>2, <1>3, <1>4, <1>5 DEF Measures

LEMMA TimerSteps ==
  ASSUME Types, [Next]_vars
  PROVE  TimerTypeOK'
<1>1. CASE TimerWaits \/ UNCHANGED vars
  <2>1. UNCHANGED timing
    BY <1>1, TimerWaiting DEF vars
  <2>2. pc' = "averaging" => n > 0
    <3>1. CASE TimerWaits
      BY <3>1, TimerWaiting
    <3>2. CASE UNCHANGED vars
      BY <3>2 DEF vars, Types, TypeOK, TimerTypeOK
    <3> QED BY <1>1, <3>1, <3>2
  <2> QED BY <2>1, <2>2 DEF Types, TypeOK, TimerTypeOK, timing, locals, object
<1>2. CASE TimerRuns
  <2>1. /\ now' \in Readings /\ UNCHANGED <<start_, locals, born, cut, called>>
        /\ pc' # "averaging"
    BY <1>2 DEF TimerRuns, readFromFile, tokenize, print, Elapse, Throw, Goto, Slash, object
  <2>2. UNCHANGED cycles \/ \E val \in Cycles : cycles' = [cycles EXCEPT !["benchmark"] = val]
    BY <1>2 DEF TimerRuns, readFromFile, tokenize, print, Slash, object
  <2>3. cycles' \in [Timers -> Nat \ {0}]
    BY <2>2, ProgramAssumption DEF Types, TypeOK, TimerTypeOK
  <2> QED BY <2>1, <2>3 DEF Types, TypeOK, TimerTypeOK, locals
<1>3. CASE Declares
  <2>1. PICK t \in Timers, next \in {"timer", "readFromFile", "tokenize", "ready"} : Declare(t, next)
    BY <1>3, ProgramAssumption DEF Declares
  <2>2. CASE Throw /\ UNCHANGED timing
    BY <2>2 DEF Throw, Goto, Types, TypeOK, TimerTypeOK, timing, locals, object
  <2>3. CASE Timer(t) /\ UNCHANGED <<now, locals, called>> /\ Goto(next)
    BY <2>3 DEF Types, TypeOK, TimerTypeOK, Timer, locals, Goto
  <2> QED BY <2>1, <2>2, <2>3 DEF Declare
<1>4. CASE Measures
  BY <1>4, TimerMeasuring
<1> QED BY <1>1, <1>2, <1>3, <1>4, Actions
-----------------------------------------------------------------------------
(* Which statement says what. *)
Tells(line) ==
  \/ line.kind = "version" /\ pc = "parse"
  \/ /\ line.kind = "time"
     /\ \/ line.of = "timer" /\ pc = "processing_time"
        \/ line.of = "tokenizationTimer" /\ pc = "tokenization_time"
        \/ line.of = "benchmark" /\ pc = "printing"
        \/ line.of = "compilationTime" /\ destroy /\ scope[Len(scope)] = "compilationTime"
  \/ line.kind = "size" /\ pc = "log_size"
  \/ line.kind = "average" /\ line.tries = n /\ line.shown = Shown(Average) /\ pc = "averaging"
  \/ line.kind = "count" /\ line.of = tokens /\ log_count
  \/ line.kind = "token" /\ line.of = printed + 1 /\ log_token
  \/ line.kind = "error" /\ raised /\ return

LEMMA AverageIsSaid ==
  ASSUME Types, end_time_it
  PROVE  \/ UNCHANGED log
         \/ \E line \in Said :
              /\ LINFO(line) /\ line.kind = "average" /\ line.tries = n /\ line.shown = Shown(Average)
<1> DEFINE line == [kind |-> "average", shown |-> Shown(Average), tries |-> n]
<1>1. n \in Nat \ {0} /\ total_time \in Int
  BY DEF Types, TypeOK, TimerTypeOK, end_time_it, At
<1>2. Average \in Int
  BY <1>1 DEF Average
<1>3. Shown(Average) \in ShownTime
  BY <1>2, ShownIsTyped
<1>4. line \in Line
  BY <1>1, <1>3 DEF Line
<1>5. line \in Said
  BY <1>2, <1>4 DEF Said
<1> QED BY <1>5 DEF end_time_it, Terminate

LEMMA Speech ==
  ASSUME Types, [Next]_vars
  PROVE  \/ UNCHANGED <<out, lost>> /\ logger' \in DOMAIN Threshold /\ complaints' \in Nat
         \/ \E line \in Said : Tells(line) /\ (LINFO(line) \/ LERROR(line))
<1>1. logger \in DOMAIN Threshold /\ complaints \in Nat /\ TimerTypeOK
  BY DEF Types, TypeOK, LogTypeOK
<1>2. tokens \in Nat /\ printed \in Nat /\ size \in Nat
  BY DEF Types, TypeOK, MainTypeOK
<1>3. {"compilationTime", "timer", "tokenizationTimer", "benchmark"} \subseteq Timers
  BY ProgramAssumption
<1>4. CASE init_log
  BY <1>1, <1>4 DEF init_log, INIT_LOG, setup_logger, my_error_handler, Threshold
<1>5. CASE parse
  BY <1>1, <1>3, <1>5, SaidLines DEF parse, At, Throw, Goto, log, Tells
<1>6. CASE processing_time \/ tokenization_time \/ print_time
  <2>1. ASSUME NEW t \in Timers, NEW next, LogTime(t, next), to_string(t) \in Said => Tells(to_string(t))
        PROVE  \/ UNCHANGED log
               \/ \E line \in Said : Tells(line) /\ LINFO(line)
    BY <1>1, <2>1, SaidLines DEF LogTime, Terminate
  <2>2. CASE processing_time
    <3>1. Tells(to_string("timer"))
      BY <1>1, <1>3, <2>2, SaidLines DEF processing_time, At, Tells
    <3> QED BY <1>1, <1>3, <2>1, <2>2, <3>1 DEF processing_time, log
  <2>3. CASE tokenization_time
    <3>1. Tells(to_string("tokenizationTimer"))
      BY <1>1, <1>3, <2>3, SaidLines DEF tokenization_time, At, Tells
    <3> QED BY <1>1, <1>3, <2>1, <2>3, <3>1 DEF tokenization_time, log
  <2>4. CASE print_time
    <3>1. Tells(to_string("benchmark"))
      BY <1>1, <1>3, <2>4, SaidLines DEF print_time, At, Tells
    <3> QED BY <1>1, <1>3, <2>1, <2>4, <3>1 DEF print_time, log
  <2> QED BY <1>6, <2>2, <2>3, <2>4
<1>7. CASE log_size
  BY <1>1, <1>2, <1>3, <1>7, SaidLines DEF log_size, At, Tells
<1>8. CASE log_count
  BY <1>1, <1>2, <1>3, <1>8, SaidLines DEF log_count, Tells
<1>9. CASE log_token
  <2>1. printed' = printed + 1 /\ printed' \in Nat /\ LINFO([kind |-> "token", of |-> printed'])
    BY <1>2, <1>9 DEF log_token
  <2> QED BY <1>1, <1>3, <1>9, <2>1, SaidLines DEF Tells
<1>10. CASE destroy
  <2>1. CASE LatestFirst.next = "compilationTime" /\ LINFO(to_string("compilationTime"))
    BY <1>1, <1>3, <1>10, <2>1, SaidLines DEF Tells, LatestFirst
  <2>2. CASE UNCHANGED log
    BY <1>1, <2>2 DEF log
  <2> QED BY <1>10, <2>1, <2>2 DEF destroy
<1>11. CASE return
  BY <1>1, <1>3, <1>11, SaidLines DEF return, Handle, Tells, log
<1>12. CASE end_time_it
  <2>1. pc = "averaging"
    BY <1>12 DEF end_time_it, At
  <2> QED BY <1>1, <1>12, <2>1, AverageIsSaid DEF Tells, log
<1>13. CASE Declares \/ TimerRuns
  BY <1>1, <1>13 DEF Declares, Declare, TimerRuns, readFromFile, tokenize, print, Throw, log
<1>14. CASE construct_lexer \/ end_of_try \/ begin_time_it \/ call_f \/ time_it_throws
  BY <1>1, <1>14 DEF construct_lexer, end_of_try, begin_time_it, call_f, time_it_throws, Throw, log
<1>15. CASE UNCHANGED vars
  BY <1>1, <1>15 DEF vars, log
<1> QED
  BY <1>4, <1>5, <1>6, <1>7, <1>8, <1>9, <1>10, <1>11, <1>12, <1>13, <1>14, <1>15, Actions
     DEF TimerWaits, Measures

(* The log as a whole: nothing is said, or one line is written or lost.    *)
LEMMA LogSteps ==
  ASSUME Types, [Next]_vars
  PROVE  /\ LogTypeOK' /\ out' \in Seq(Said)
         /\ \/ UNCHANGED <<out, lost>>
            \/ \E line \in Said : Tells(line) /\ Says(line)
<1>1. LogTypeOK /\ out \in Seq(Said) /\ Said \subseteq Line
  BY DEF Types, TypeOK, Said
<1>2. CASE UNCHANGED <<out, lost>> /\ logger' \in DOMAIN Threshold /\ complaints' \in Nat
  BY <1>1, <1>2 DEF LogTypeOK
<1>3. CASE \E line \in Said : Tells(line) /\ (LINFO(line) \/ LERROR(line))
  <2>1. PICK line \in Said : Tells(line) /\ (LINFO(line) \/ LERROR(line))
    BY <1>3
  <2>2. /\ Says(line)
        /\ logger' \in DOMAIN Threshold /\ complaints' \in Nat /\ lost' \in 0 .. MaxLost
    BY <1>1, <2>1, Logged
  <2>3. out' \in Seq(Said) /\ out' \in Seq(Line)
    <3>1. CASE out' = out
      BY <1>1, <3>1 DEF LogTypeOK
    <3>2. CASE out' = Append(out, line)
      BY <1>1, <2>1, <3>2 DEF LogTypeOK
    <3> QED BY <2>2, <3>1, <3>2 DEF Says
  <2> QED BY <2>1, <2>2, <2>3 DEF LogTypeOK
<1> QED BY <1>2, <1>3, Speech
-----------------------------------------------------------------------------
(* Where the statements lead that leave the timers and the progress alone. *)
Straight ==
  \/ init_log \/ parse \/ processing_time \/ log_size \/ tokenization_time
  \/ log_count \/ print_time \/ end_of_try \/ return

LEMMA StraightOn ==
  ASSUME Straight
  PROVE  /\ UNCHANGED <<timing, scope, progress>> /\ raised' \in {raised, TRUE} /\ pc # "exited"
         /\ \/ /\ pc' \in {"parse", "compilationTime", "log_size", "lexer", "log_count",
                           "log_tokens", "unwind"}
               /\ status' = status
            \/ pc' = "exited" /\ status' \in {"cli", "EXIT_SUCCESS", "terminated"}
         /\ pc' \in {"parse", "compilationTime", "log_size", "lexer", "log_count"} => Early
<1>1. CASE init_log
  BY <1>1 DEF init_log, Goto, At, Early
<1>2. CASE parse
  BY <1>2 DEF parse, Throw, Goto, Exit, At, Early
<1>3. CASE processing_time
  BY <1>3 DEF processing_time, LogTime, Terminate, Goto, Exit, At, Early
<1>4. CASE tokenization_time
  BY <1>4 DEF tokenization_time, LogTime, Terminate, Goto, Exit, At, Early
<1>5. CASE print_time
  BY <1>5 DEF print_time, LogTime, Terminate, Goto, Exit, At, Early
<1>6. CASE log_size
  BY <1>6 DEF log_size, Goto, At, Early
<1>7. CASE log_count
  BY <1>7 DEF log_count, Goto, At, Early
<1>8. CASE end_of_try
  BY <1>8 DEF end_of_try, Goto, At
<1>9. CASE return
  BY <1>9 DEF return, Exit, At
<1> QED BY <1>1, <1>2, <1>3, <1>4, <1>5, <1>6, <1>7, <1>8, <1>9 DEF Straight

LEMMA MainSteps ==
  ASSUME Types, [Next]_vars
  PROVE  MainTypeOK' /\ Counts'
<1> USE DEF MainTypeOK, Counts, Early, progress
<1>1. MainTypeOK /\ Counts
  BY DEF Types, TypeOK
<1>2. /\ "compilationTime" \in Label /\ "timer" \in Label /\ "tokenizationTimer" \in Label
      /\ "compilationTime" \in Local /\ "timer" \in Local /\ "tokenizationTimer" \in Local
      /\ "benchmark" \in Local
  BY ProgramAssumption DEF Label, Local
<1>3. CASE Straight
  <2>1. pc' \in Label
    BY <1>2, <1>3, StraightOn DEF Label
  <2>2. MainTypeOK'
    BY <1>1, <1>3, <2>1, StraightOn
  <2>3. Counts'
    BY <1>1, <1>3, StraightOn DEF timing, locals
  <2> QED BY <2>2, <2>3
<1>4. CASE Declares
  <2>1. scope' = scope \/ \E t \in Timers \cap Local : scope' = Append(scope, t)
    BY <1>2, <1>4, ProgramAssumption DEF Declares, Declare, Throw
  <2>2. /\ pc' \in {"timer", "readFromFile", "tokenize", "ready", "unwind"} /\ Early
        /\ UNCHANGED <<n, called, size, tokens, printed, uses, status>>
        /\ raised' \in {raised, TRUE}
    BY <1>4 DEF Declares, Declare, Throw, Goto, At, locals, timing
  <2>3. pc' \in Label
    BY <1>2, <2>2 DEF Label
  <2>4. scope' \in Seq(Local)
    BY <1>1, <2>1
  <2> QED BY <1>1, <2>2, <2>3, <2>4
<1>5. CASE readFromFile \/ construct_lexer
  <2>1. /\ pc' \in {"processing_time", "tokenizationTimer", "unwind"} /\ Early
        /\ UNCHANGED <<tokens, printed, uses, status>> /\ raised' \in {raised, TRUE}
    BY <1>5 DEF readFromFile, construct_lexer, Throw, Goto, At
  <2>2. pc' \in Label
    BY <1>2, <2>1 DEF Label
  <2>3. size' \in Nat
    BY <1>1, <1>5, ProgramAssumption DEF readFromFile, construct_lexer, Throw
  <2>4. scope' \in Seq(Local)
    BY <1>1, <1>5 DEF readFromFile, construct_lexer, Throw, Local
  <2> QED BY <1>1, <2>1, <2>2, <2>3, <2>4
<1>6. CASE tokenize
  <2>1. /\ pc' \in {"tokenization_time", "unwind"} /\ Early
        /\ UNCHANGED <<size, printed, uses, status>> /\ raised' \in {raised, TRUE}
    BY <1>6 DEF tokenize, Throw, Goto, At
  <2>2. pc' \in Label
    BY <2>1 DEF Label
  <2>3. tokens' \in Nat
    BY <1>1, <1>6, ProgramAssumption DEF tokenize, Throw
  <2>4. scope' \in Seq(Local)
    BY <1>1, <1>6 DEF tokenize, Throw, Local
  <2>5. printed = 0 /\ pc # "exited"
    BY <1>1, <2>1
  <2>6. printed' \in 0 .. tokens'
    BY <2>1, <2>3, <2>5
  <2>7. MainTypeOK'
    BY <1>1, <2>1, <2>2, <2>3, <2>4, <2>6
  <2>8. Counts'
    BY <1>1, <2>1, <2>5
  <2> QED BY <2>7, <2>8
<1>7. CASE log_token
  BY <1>1, <1>7 DEF log_token, At, MoreToPrint
<1>8. CASE destroy
  <2>1. scope \in Seq(Local) /\ scope # <<>>
    BY <1>1, <1>8 DEF destroy
  <2>2. SubSeq(scope, 1, Len(scope) - 1) \in Seq(Local)
    BY <2>1
  <2> QED BY <1>1, <1>8, <2>2 DEF destroy, At, Exit, LatestFirst, Label
<1>9. CASE Measures
  <2>1. Counts'
    BY <1>9, TimerMeasuring
  <2>2. /\ pc' \in {pc, "calling", "averaging", "ready", "exited"}
        /\ UNCHANGED <<scope, raised, size, tokens, printed>> /\ status' \in {status, "terminated"}
        /\ uses' = uses \/ (uses < MaxUses /\ uses' = uses + 1)
    BY <1>9 DEF Measures, begin_time_it, call_f, end_time_it, time_it_throws, Goto, Terminate, Exit
  <2>3. uses' \in 0 .. MaxUses
    BY <1>1, <2>2, ProgramAssumption
  <2>4. pc' \in Label
    BY <1>1, <2>2 DEF Label
  <2> QED BY <1>1, <2>1, <2>2, <2>3, <2>4
<1>10. CASE print
  <2>1. pc' = "printing" /\ Early /\ UNCHANGED <<scope, raised, size, tokens, printed, uses, status>>
    BY <1>10 DEF print, Goto, At
  <2> QED BY <1>1, <2>1 DEF Label
<1>11. CASE UNCHANGED vars
  BY <1>1, <1>11 DEF vars, timing, locals
<1> QED
  BY <1>3, <1>4, <1>5, <1>6, <1>7, <1>8, <1>9, <1>10, <1>11, Actions
     DEF Straight, TimerWaits, TimerRuns

LEMMA InitTypes ==
  ASSUME Init
  PROVE  Types
<1>1. LogTypeOK /\ out \in Seq(Said)
  BY MaxLostAssumption DEF Init, LogInit, LogTypeOK, Threshold
<1>2. TimerTypeOK
  BY TimerAssumption DEF Init, TimerInit, TimerTypeOK, Readings
<1>3. MainTypeOK
  <2>1. "INIT_LOG" \in Label /\ "benchmark" \in Label
    BY ProgramAssumption DEF Label
  <2>2. scope = <<>> /\ raised = FALSE /\ status = "none" /\ pc \in {"INIT_LOG", "benchmark"}
    BY DEF Init
  <2>3. size = 0 /\ tokens = 0 /\ printed = 0 /\ uses = 0 /\ MaxUses \in Nat
    BY ProgramAssumption DEF Init
  <2>4. pc \in Label /\ raised \in BOOLEAN
        /\ status \in {"none", "cli", "EXIT_SUCCESS", "terminated"}
    BY <2>1, <2>2
  <2>5. scope \in Seq(Local)
    BY <2>2
  <2>6. size \in Nat /\ tokens \in Nat /\ printed \in 0 .. tokens /\ uses \in 0 .. MaxUses
    BY <2>3
  <2> QED BY Zenon, <2>4, <2>5, <2>6 DEF MainTypeOK
<1>4. Counts
  BY DEF Init, Counts, Early
<1> QED BY <1>1, <1>2, <1>3, <1>4 DEF Types, TypeOK

LEMMA NextTypes ==
  ASSUME Types, [Next]_vars
  PROVE  Types'
BY TimerSteps, LogSteps, MainSteps DEF Types, TypeOK
-----------------------------------------------------------------------------
(* The locals of main in the order of their construction, and how many of  *)
(* them each statement finds.                                              *)
Stack == <<"compilationTime", "timer", "str", "lexer", "tokenizationTimer", "tokens">>
Depth ==
  [INIT_LOG |-> 0, parse |-> 0, compilationTime |-> 0, timer |-> 1, readFromFile |-> 2,
   processing_time |-> 3, log_size |-> 3, lexer |-> 3, tokenizationTimer |-> 4,
   tokenize |-> 5, tokenization_time |-> 6, log_count |-> 6, log_tokens |-> 6,
   benchmark |-> 0, ready |-> 1, calling |-> 1, averaging |-> 1, printing |-> 1]

Measuring == pc \in {"benchmark", "ready", "calling", "averaging", "printing"}
Leaving == pc \in {"unwind", "exited"}

InMain == Len(scope) <= 6 /\ \A i \in 1 .. Len(scope) : scope[i] = Stack[i]
InBenchmark == Len(scope) <= 1 /\ \A i \in 1 .. Len(scope) : scope[i] = "benchmark"

ScopeOK ==
  /\ ~Leaving => pc \in DOMAIN Depth /\ Len(scope) = Depth[pc]
  /\ (InMain /\ ~Measuring) \/ (InBenchmark /\ (Measuring \/ Leaving))

LEMMA ScopeFollows ==
  ASSUME scope \in Seq(Local), ScopeOK, scope' = scope,
         ~Leaving' => /\ ~Leaving /\ (Measuring' <=> Measuring)
                      /\ pc' \in DOMAIN Depth /\ Depth[pc'] = Depth[pc]
  PROVE  ScopeOK'
<1>1. Leaving' => ~Measuring'
  BY DEF Leaving, Measuring
<1>2. InMain' = InMain /\ InBenchmark' = InBenchmark
  BY DEF InMain, InBenchmark
<1>3. ~Leaving' => pc' \in DOMAIN Depth /\ Len(scope') = Depth[pc']
  BY DEF ScopeOK
<1> QED BY <1>1, <1>2, <1>3 DEF ScopeOK

LEMMA ScopeGrows ==
  ASSUME scope \in Seq(Local), NEW x, scope' = Append(scope, x), pc' \in DOMAIN Depth,
         Depth[pc'] = Len(scope) + 1,
         \/ InMain /\ Len(scope) < 6 /\ x = Stack[Len(scope) + 1] /\ ~Measuring'
         \/ scope = <<>> /\ x = "benchmark" /\ Measuring'
  PROVE  ScopeOK'
<1>1. /\ Len(scope) \in Nat /\ Len(scope') = Len(scope) + 1
      /\ \A i \in 1 .. Len(scope) : scope'[i] = scope[i]
      /\ scope'[Len(scope) + 1] = x
  OBVIOUS
<1>2. CASE InMain /\ Len(scope) < 6 /\ x = Stack[Len(scope) + 1] /\ ~Measuring'
  <2>1. InMain'
    BY <1>1, <1>2 DEF InMain
  <2> QED BY <1>1, <1>2, <2>1 DEF ScopeOK
<1>3. CASE scope = <<>> /\ x = "benchmark" /\ Measuring'
  <2>1. InBenchmark'
    BY <1>1, <1>3 DEF InBenchmark
  <2> QED BY <1>1, <1>3, <2>1 DEF ScopeOK
<1> QED BY <1>2, <1>3

LEMMA ScopeShrinks ==
  ASSUME Types, ScopeOK, destroy
  PROVE  ScopeOK' /\ (InMain => InMain') /\ Len(scope') = Len(scope) - 1
<1>1. /\ scope \in Seq(Local) /\ scope # <<>> /\ scope' = SubSeq(scope, 1, Len(scope) - 1)
      /\ Leaving /\ Leaving'
  BY DEF Types, TypeOK, MainTypeOK, destroy, At, LatestFirst, Leaving, Exit
<1>2. /\ Len(scope) \in Nat \ {0} /\ Len(scope') = Len(scope) - 1
      /\ \A i \in 1 .. Len(scope) - 1 : scope'[i] = scope[i]
  <2>1. Len(scope) \in Nat \ {0}
    BY <1>1
  <2>2. PICK m \in Nat : m = Len(scope) - 1 /\ \A i \in 1 .. m : scope[i] \in Local
    BY <1>1, <2>1
  <2>3. m - 1 + 1 = m /\ (m >= 1 \/ m = 0) /\ \A i \in 1 .. m : 1 + i - 1 = i
    OBVIOUS
  <2>4. /\ Len(SubSeq(scope, 1, m)) = IF 1 <= m THEN m - 1 + 1 ELSE 0
        /\ \A i \in 1 .. m - 1 + 1 : SubSeq(scope, 1, m)[i] = scope[1 + i - 1]
    BY <2>2, SubSeqProperties
  <2>5. Len(SubSeq(scope, 1, m)) = m /\ \A i \in 1 .. m : SubSeq(scope, 1, m)[i] = scope[i]
    BY <2>2, <2>3, <2>4
  <2> QED BY <1>1, <2>1, <2>2, <2>5
<1>3. InMain => InMain'
  BY <1>2 DEF InMain
<1>4. InBenchmark => InBenchmark'
  BY <1>2 DEF InBenchmark
<1>5. ~Measuring /\ ~Measuring'
  BY <1>1 DEF Leaving, Measuring
<1>6. ScopeOK'
  BY <1>1, <1>3, <1>4, <1>5 DEF ScopeOK
<1> QED BY <1>2, <1>3, <1>6

LEMMA ScopeSteps ==
  ASSUME Types, ScopeOK, [Next]_vars
  PROVE  ScopeOK'
<1>1. scope \in Seq(Local)
  BY DEF Types, TypeOK, MainTypeOK
<1>2. CASE init_log
  BY <1>1, <1>2, ScopeFollows DEF init_log, At, Goto, Depth, Leaving, Measuring
<1>3. CASE parse
  BY <1>1, <1>3, ScopeFollows DEF parse, At, Goto, Exit, Throw, Depth, Leaving, Measuring
<1>4. CASE processing_time
  BY <1>1, <1>4, ScopeFollows DEF processing_time, LogTime, Terminate, At, Goto, Exit, Depth,
     Leaving, Measuring
<1>5. CASE tokenization_time
  BY <1>1, <1>5, ScopeFollows DEF tokenization_time, LogTime, Terminate, At, Goto, Exit, Depth,
     Leaving, Measuring
<1>6. CASE print_time
  BY <1>1, <1>6, ScopeFollows DEF print_time, LogTime, Terminate, At, Goto, Exit, Depth,
     Leaving, Measuring
<1>7. CASE log_size \/ log_count \/ end_of_try \/ return
  <2>1. CASE log_size \/ log_count
    BY <1>1, <2>1, ScopeFollows DEF log_size, log_count, At, Goto, Depth, Leaving, Measuring
  <2>2. CASE end_of_try \/ return
    BY <1>1, <2>2, ScopeFollows DEF end_of_try, return, Goto, Exit, Leaving
  <2> QED BY <1>7, <2>1, <2>2
<1>8. CASE log_token \/ UNCHANGED vars
  <2>1. UNCHANGED <<pc, scope>>
    BY <1>8 DEF log_token, vars
  <2> QED BY <2>1 DEF ScopeOK, InMain, InBenchmark, Measuring, Leaving
<1>9. CASE begin_time_it \/ call_f \/ end_time_it \/ time_it_throws \/ print
  <2>1. /\ pc \in {"ready", "calling", "averaging"} /\ scope' = scope
        /\ pc' \in {"ready", "calling", "averaging", "printing", "exited"}
    BY <1>9 DEF begin_time_it, call_f, end_time_it, time_it_throws, print, At, Goto, Terminate, Exit
  <2>2. CASE pc' = "exited"
    BY <1>1, <2>1, <2>2, ScopeFollows DEF Leaving
  <2>3. CASE pc' # "exited"
    <3>1. Depth[pc] = 1 /\ Depth[pc'] = 1 /\ pc' \in DOMAIN Depth
      BY <2>1, <2>3 DEF Depth
    <3>2. ~Leaving /\ Measuring /\ Measuring'
      BY <2>1, <2>3 DEF Leaving, Measuring
    <3> QED BY <1>1, <2>1, <3>1, <3>2, ScopeFollows
  <2> QED BY <2>2, <2>3
<1>10. CASE destroy
  BY <1>10, ScopeShrinks
<1>11. CASE readFromFile \/ construct_lexer \/ tokenize
  <2>1. CASE Throw
    BY <1>1, <2>1, ScopeFollows DEF Throw, Goto, Leaving
  <2>2. CASE readFromFile /\ ~Throw
    <3>1. pc = "readFromFile" /\ pc' = "processing_time" /\ scope' = Append(scope, "str")
      BY <2>2 DEF readFromFile, At, Goto
    <3>2. ~Leaving /\ ~Measuring /\ ~Measuring'
      BY <3>1 DEF Leaving, Measuring
    <3>3. /\ Depth["readFromFile"] = 2 /\ Depth["processing_time"] = 3
          /\ "processing_time" \in DOMAIN Depth /\ Stack[3] = "str"
      BY DEF Depth, Stack
    <3>4. InMain /\ Len(scope) = 2
      BY <3>1, <3>2, <3>3 DEF ScopeOK
    <3> QED BY <1>1, <3>1, <3>2, <3>3, <3>4, ScopeGrows
  <2>3. CASE construct_lexer /\ ~Throw
    <3>1. pc = "lexer" /\ pc' = "tokenizationTimer" /\ scope' = Append(scope, "lexer")
      BY <2>3 DEF construct_lexer, At, Goto
    <3>2. ~Leaving /\ ~Measuring /\ ~Measuring'
      BY <3>1 DEF Leaving, Measuring
    <3>3. /\ Depth["lexer"] = 3 /\ Depth["tokenizationTimer"] = 4
          /\ "tokenizationTimer" \in DOMAIN Depth /\ Stack[4] = "lexer"
      BY DEF Depth, Stack
    <3>4. InMain /\ Len(scope) = 3
      BY <3>1, <3>2, <3>3 DEF ScopeOK
    <3> QED BY <1>1, <3>1, <3>2, <3>3, <3>4, ScopeGrows
  <2>4. CASE tokenize /\ ~Throw
    <3>1. pc = "tokenize" /\ pc' = "tokenization_time" /\ scope' = Append(scope, "tokens")
      BY <2>4 DEF tokenize, At, Goto
    <3>2. ~Leaving /\ ~Measuring /\ ~Measuring'
      BY <3>1 DEF Leaving, Measuring
    <3>3. /\ Depth["tokenize"] = 5 /\ Depth["tokenization_time"] = 6
          /\ "tokenization_time" \in DOMAIN Depth /\ Stack[6] = "tokens"
      BY DEF Depth, Stack
    <3>4. InMain /\ Len(scope) = 5
      BY <3>1, <3>2, <3>3 DEF ScopeOK
    <3> QED BY <1>1, <3>1, <3>2, <3>3, <3>4, ScopeGrows
  <2> QED BY <1>11, <2>1, <2>2, <2>3, <2>4
<1>12. CASE Declares
  <2>1. CASE Throw
    BY <1>1, <2>1, ScopeFollows DEF Throw, Goto, Leaving
  <2>2. CASE Declare("compilationTime", "timer") /\ ~Throw
    <3>1. pc = "compilationTime" /\ pc' = "timer" /\ scope' = Append(scope, "compilationTime")
      BY <2>2 DEF Declare, At, Goto
    <3>2. ~Leaving /\ ~Measuring /\ ~Measuring'
      BY <3>1 DEF Leaving, Measuring
    <3>3. /\ Depth["compilationTime"] = 0 /\ Depth["timer"] = 1
          /\ "timer" \in DOMAIN Depth /\ Stack[1] = "compilationTime"
      BY DEF Depth, Stack
    <3>4. InMain /\ Len(scope) = 0
      BY <3>1, <3>2, <3>3 DEF ScopeOK
    <3> QED BY <1>1, <3>1, <3>2, <3>3, <3>4, ScopeGrows
  <2>3. CASE Declare("timer", "readFromFile") /\ ~Throw
    <3>1. pc = "timer" /\ pc' = "readFromFile" /\ scope' = Append(scope, "timer")
      BY <2>3 DEF Declare, At, Goto
    <3>2. ~Leaving /\ ~Measuring /\ ~Measuring'
      BY <3>1 DEF Leaving, Measuring
    <3>3. /\ Depth["timer"] = 1 /\ Depth["readFromFile"] = 2
          /\ "readFromFile" \in DOMAIN Depth /\ Stack[2] = "timer"
      BY DEF Depth, Stack
    <3>4. InMain /\ Len(scope) = 1
      BY <3>1, <3>2, <3>3 DEF ScopeOK
    <3> QED BY <1>1, <3>1, <3>2, <3>3, <3>4, ScopeGrows
  <2>4. CASE Declare("tokenizationTimer", "tokenize") /\ ~Throw
    <3>1. pc = "tokenizationTimer" /\ pc' = "tokenize" /\ scope' = Append(scope, "tokenizationTimer")
      BY <2>4 DEF Declare, At, Goto
    <3>2. ~Leaving /\ ~Measuring /\ ~Measuring'
      BY <3>1 DEF Leaving, Measuring
    <3>3. /\ Depth["tokenizationTimer"] = 4 /\ Depth["tokenize"] = 5
          /\ "tokenize" \in DOMAIN Depth /\ Stack[5] = "tokenizationTimer"
      BY DEF Depth, Stack
    <3>4. InMain /\ Len(scope) = 4
      BY <3>1, <3>2, <3>3 DEF ScopeOK
    <3> QED BY <1>1, <3>1, <3>2, <3>3, <3>4, ScopeGrows
  <2>5. CASE Declare("benchmark", "ready") /\ ~Throw
    <3>1. pc = "benchmark" /\ pc' = "ready" /\ scope' = Append(scope, "benchmark")
      BY <2>5 DEF Declare, At, Goto
    <3>2. ~Leaving /\ Measuring'
      BY <3>1 DEF Leaving, Measuring
    <3>3. Depth["benchmark"] = 0 /\ Depth["ready"] = 1 /\ "ready" \in DOMAIN Depth
      BY DEF Depth
    <3>4. Len(scope) = 0 /\ scope = <<>>
      BY <1>1, <3>1, <3>2, <3>3 DEF ScopeOK
    <3> QED BY <1>1, <3>1, <3>2, <3>3, <3>4, ScopeGrows
  <2> QED BY <1>12, <2>1, <2>2, <2>3, <2>4, <2>5 DEF Declares
<1> QED
  BY <1>2, <1>3, <1>4, <1>5, <1>6, <1>7, <1>8, <1>9, <1>10, <1>11, <1>12, Actions
     DEF TimerWaits, TimerRuns, Measures
-----------------------------------------------------------------------------
(* The program runs forward: to the loop over the tokens, out of the block *)
(* and to its end.                                                         *)
Forward ==
  /\ Early' => Early
  /\ ~Leaving' => ~Leaving
  /\ pc' = "log_tokens" => log_count \/ log_token \/ UNCHANGED vars
  /\ Leaving' /\ ~raised' => ~raised /\ (Early \/ Leaving \/ end_of_try)
  /\ pc = "exited" => UNCHANGED vars
  /\ status' = "EXIT_SUCCESS" => return \/ UNCHANGED vars

LEMMA Phases ==
  ASSUME Types, [Next]_vars
  PROVE  Forward
<1> USE DEF Forward, Early, Leaving
<1>0. status \in {"none", "cli", "EXIT_SUCCESS", "terminated"} /\ (status = "none" <=> pc # "exited")
  BY DEF Types, TypeOK, MainTypeOK, Counts
<1>1. CASE init_log
  BY <1>0, <1>1 DEF init_log, Goto, At
<1>2. CASE parse
  BY <1>0, <1>2 DEF parse, Throw, Goto, Exit, At
<1>3. CASE processing_time
  BY <1>0, <1>3 DEF processing_time, LogTime, Terminate, Goto, Exit, At
<1>4. CASE tokenization_time
  BY <1>0, <1>4 DEF tokenization_time, LogTime, Terminate, Goto, Exit, At
<1>5. CASE print_time
  BY <1>0, <1>5 DEF print_time, LogTime, Terminate, Goto, Exit, At
<1>6. CASE log_size
  BY <1>0, <1>6 DEF log_size, Goto, At
<1>7. CASE log_count
  <2>1. pc = "log_count" /\ pc' = "log_tokens" /\ status' = status
    BY <1>7 DEF log_count, Goto, At
  <2> QED BY <1>0, <1>7, <2>1
<1>8. CASE end_of_try
  <2>1. pc = "log_tokens" /\ pc' = "unwind" /\ UNCHANGED <<status, raised>>
    BY <1>8 DEF end_of_try, Goto, At
  <2> QED BY <1>0, <1>8, <2>1
<1>9. CASE return
  <2>1. pc = "unwind" /\ pc' = "exited" /\ raised' = raised
    BY <1>9 DEF return, Exit, At
  <2> QED BY <1>9, <2>1
<1>10. CASE log_token
  <2>1. pc = "log_tokens" /\ UNCHANGED <<pc, status>>
    BY <1>10 DEF log_token, At
  <2> QED BY <1>0, <1>10, <2>1
<1>11. CASE destroy
  BY <1>0, <1>11 DEF destroy, Exit, At
<1>12. CASE readFromFile \/ construct_lexer \/ tokenize
  BY <1>0, <1>12 DEF readFromFile, construct_lexer, tokenize, Throw, Goto, At
<1>13. CASE print \/ Measures
  <2>1. /\ pc \in {"ready", "calling", "averaging"} /\ raised' = raised
        /\ \/ pc' \in {"ready", "calling", "averaging", "printing"} /\ status' = status
           \/ pc' = "exited" /\ status' = "terminated"
    <3>1. CASE print \/ begin_time_it \/ call_f \/ time_it_throws
      BY <3>1 DEF print, begin_time_it, call_f, time_it_throws, Goto, At
    <3>2. CASE end_time_it
      BY <3>2 DEF end_time_it, Goto, At, Terminate, Exit
    <3> QED BY <1>13, <3>1, <3>2 DEF Measures
  <2> QED BY <1>0, <2>1
<1>14. CASE Declares
  BY <1>0, <1>14 DEF Declares, Declare, Throw, Goto, At
<1>15. CASE UNCHANGED vars
  BY <1>15 DEF vars
<1> QED
  BY <1>1, <1>2, <1>3, <1>4, <1>5, <1>6, <1>7, <1>8, <1>9, <1>10, <1>11, <1>12, <1>13, <1>14,
     <1>15, Actions DEF TimerWaits, TimerRuns

(* What a line adds to the lines of each kind.                             *)
LEMMA Grown ==
  ASSUME out \in Seq(Said), NEW line, out' = Append(out, line)
  PROVE  /\ Len(out) \in Nat /\ Len(out') = Len(out) + 1
         /\ DOMAIN out = 1 .. Len(out) /\ DOMAIN out' = 1 .. Len(out) + 1
         /\ \A i \in 1 .. Len(out) : out'[i] = out[i]
         /\ out'[Len(out) + 1] = line
         /\ \A kind : /\ line.kind = kind => Lines(kind)' = Lines(kind) \cup {Len(out) + 1}
                      /\ line.kind # kind => Lines(kind)' = Lines(kind)
         /\ \A kind : Lines(kind) \subseteq 1 .. Len(out)
<1>1. /\ Len(out) \in Nat /\ Len(out') = Len(out) + 1
      /\ DOMAIN out = 1 .. Len(out) /\ DOMAIN out' = 1 .. Len(out) + 1
      /\ \A i \in 1 .. Len(out) : out'[i] = out[i]
      /\ out'[Len(out) + 1] = line
  OBVIOUS
<1>2. ASSUME NEW kind
      PROVE  /\ line.kind = kind => Lines(kind)' = Lines(kind) \cup {Len(out) + 1}
             /\ line.kind # kind => Lines(kind)' = Lines(kind)
             /\ Lines(kind) \subseteq 1 .. Len(out)
  BY <1>1 DEF Lines
<1> QED BY <1>1, <1>2
-----------------------------------------------------------------------------
(* No error is logged before the end. *)
ErrorsOK == pc # "exited" => Lines("error") = {}

(* The tokens are logged one behind the other, behind their number.        *)
Follow(c, k) == \A i \in 1 .. k : c + i \in Lines("token") /\ out[c + i].of = i
CountOK ==
  /\ Early => Lines("count") = {}
  /\ pc = "log_tokens" /\ lost = 0 =>
       \A c \in Lines("count") : out[c].of = tokens /\ Len(out) = c + printed /\ Follow(c, printed)
  /\ Leaving /\ ~raised /\ lost = 0 => \A c \in Lines("count") : Follow(c, out[c].of)

LEMMA ErrorSteps ==
  ASSUME Types, ErrorsOK, [Next]_vars
  PROVE  ErrorsOK'
<1> SUFFICES ASSUME pc' # "exited" PROVE Lines("error")' = {}
  BY DEF ErrorsOK
<1>1. out \in Seq(Said)
  BY DEF Types
<1>2. Lines("error") = {} /\ ~return
  BY Phases DEF ErrorsOK, Forward, vars, return, Exit
<1>3. CASE out' = out
  BY <1>2, <1>3 DEF Lines
<1>4. CASE \E line \in Said : Tells(line) /\ out' = Append(out, line)
  <2>1. PICK line \in Said : Tells(line) /\ out' = Append(out, line)
    BY <1>4
  <2>2. line.kind # "error"
    BY <1>2, <2>1 DEF Tells
  <2> QED BY <1>1, <1>2, <2>1, <2>2, Grown
<1> QED BY <1>3, <1>4, LogSteps DEF Says

(* Lines that are written later change nothing of what follows a count.    *)
LEMMA FollowStays ==
  ASSUME out \in Seq(Said), NEW line, out' = Append(out, line),
         NEW c \in 1 .. Len(out), NEW k \in Nat, Follow(c, k)
  PROVE  Follow(c, k)' /\ out'[c].of = out[c].of
<1>1. Lines("token") \subseteq Lines("token")' /\ Lines("token") \subseteq 1 .. Len(out)
  BY Grown
<1>2. \A i \in 1 .. k : c + i \in Lines("token") /\ out[c + i].of = i
  BY DEF Follow
<1>3. \A i \in 1 .. Len(out) : out'[i] = out[i]
  BY Grown
<1>4. \A i \in 1 .. k : c + i \in Lines("token")' /\ out'[c + i].of = i
  BY <1>1, <1>2, <1>3
<1> QED BY <1>3, <1>4 DEF Follow

LEMMA CountIsNat ==
  ASSUME out \in Seq(Said), NEW c \in Lines("count")
  PROVE  c \in 1 .. Len(out) /\ out[c].of \in Nat
<1>1. c \in 1 .. Len(out) /\ out[c] \in Said /\ out[c].kind = "count"
  BY DEF Lines
<1>2. out[c] \in Line
  BY <1>1 DEF Said
<1> QED BY <1>1, <1>2 DEF Line

LEMMA CountSteps ==
  ASSUME Types, CountOK, [Next]_vars
  PROVE  CountOK'
<1>1. out \in Seq(Said) /\ lost \in Nat /\ tokens \in Nat /\ printed \in 0 .. tokens
  BY DEF Types, TypeOK, LogTypeOK, MainTypeOK
<1>2. Forward
  BY Phases
<1>3. CASE UNCHANGED vars
  <2>1. UNCHANGED <<out, lost, pc, tokens, printed, raised>>
    BY <1>3 DEF vars, log, progress
  <2> QED BY <2>1 DEF CountOK, Early, Leaving, Follow, Lines
<1>4. CASE log_count
  <2>1. /\ Early /\ pc' = "log_tokens" /\ UNCHANGED <<tokens, printed>> /\ printed = 0
        /\ LINFO([kind |-> "count", of |-> tokens])
    BY <1>4 DEF log_count, At, Goto, progress, Early, Types, Counts
  <2>2. Lines("count") = {}
    BY <2>1 DEF CountOK
  <2> DEFINE line == [kind |-> "count", of |-> tokens]
  <2>3. Says(line)
    BY <2>1, Logged DEF Types, TypeOK
  <2>4. CASE out' = Append(out, line)
    <3>1. line.kind = "count" /\ line.of = tokens
      OBVIOUS
    <3> HIDE DEF line
    <3>2. /\ Lines("count")' = {Len(out) + 1} /\ Len(out') = Len(out) + 1 /\ Len(out) \in Nat
          /\ out'[Len(out) + 1] = line
      BY <1>1, <2>2, <2>4, <3>1, Grown
    <3>3. \A c \in Lines("count")' :
            out'[c].of = tokens' /\ Len(out') = c + printed' /\ Follow(c, printed)'
      BY <2>1, <3>1, <3>2 DEF Follow
    <3> QED BY <2>1, <3>3 DEF CountOK, Early, Leaving
  <2>5. CASE out' = out /\ lost' = lost + 1
    BY <1>1, <2>1, <2>5 DEF CountOK, Early, Leaving
  <2> QED BY <2>3, <2>4, <2>5 DEF Says
<1>5. CASE log_token
  <2>1. /\ pc = "log_tokens" /\ pc' = pc /\ tokens' = tokens /\ printed' = printed + 1
        /\ LINFO([kind |-> "token", of |-> printed + 1])
    BY <1>5 DEF log_token, At
  <2> DEFINE line == [kind |-> "token", of |-> printed + 1]
  <2>2. Says(line)
    BY <2>1, Logged DEF Types, TypeOK
  <2>3. CASE out' = Append(out, line) /\ lost' = lost
    <3>1. line.kind = "token" /\ line.of = printed + 1
      OBVIOUS
    <3> HIDE DEF line
    <3>2. /\ Lines("count")' = Lines("count") /\ Len(out') = Len(out) + 1 /\ Len(out) \in Nat
          /\ Len(out) + 1 \in Lines("token")' /\ out'[Len(out) + 1].of = printed + 1
      BY <1>1, <2>3, <3>1, Grown
    <3>3. ASSUME NEW c \in Lines("count"), lost = 0
          PROVE  out'[c].of = tokens' /\ Len(out') = c + printed' /\ Follow(c, printed)'
      <4>1. c \in 1 .. Len(out) /\ printed \in Nat
        BY <1>1, CountIsNat
      <4>2. out[c].of = tokens /\ Len(out) = c + printed /\ Follow(c, printed)
        BY <2>1, <3>3 DEF CountOK
      <4>3. out'[c].of = tokens /\ \A i \in 1 .. printed : c + i \in Lines("token")' /\ out'[c + i].of = i
        <5>1. Lines("token") \subseteq Lines("token")' /\ Lines("token") \subseteq 1 .. Len(out)
              /\ \A i \in 1 .. Len(out) : out'[i] = out[i]
          BY <1>1, <2>3, Grown
        <5> QED BY <4>1, <4>2, <5>1 DEF Follow
      <4>4. \A i \in 1 .. printed + 1 : c + i \in Lines("token")' /\ out'[c + i].of = i
        <5>1. c + (printed + 1) = Len(out) + 1
          BY <4>1, <4>2
        <5> QED BY <3>2, <4>1, <4>3, <5>1
      <4>5. Follow(c, printed)'
        BY <2>1, <4>4 DEF Follow
      <4> QED BY <2>1, <3>2, <4>1, <4>2, <4>3, <4>5
    <3> QED BY <2>1, <2>3, <3>2, <3>3 DEF CountOK, Early, Leaving
  <2>4. CASE out' = out /\ lost' = lost + 1
    BY <1>1, <2>1, <2>4 DEF CountOK, Early, Leaving
  <2> QED BY <2>2, <2>3, <2>4 DEF Says
<1>6. CASE ~log_count /\ ~log_token /\ ~UNCHANGED vars
  <2>1. pc' # "log_tokens"
    BY <1>2, <1>6 DEF Forward
  <2>2. /\ Lines("count")' = Lines("count") /\ (lost' = 0 => lost = 0)
        /\ \A c \in Lines("count"), k \in Nat : Follow(c, k) => Follow(c, k)'
        /\ \A c \in Lines("count") : out'[c].of = out[c].of
    <3>1. CASE out' = out /\ (lost' = lost \/ lost' = lost + 1)
      BY <1>1, <3>1 DEF Lines, Follow
    <3>2. CASE \E line \in Said : Tells(line) /\ out' = Append(out, line) /\ lost' = lost
      <4>1. PICK line \in Said : Tells(line) /\ out' = Append(out, line)
        BY <3>2
      <4>2. line.kind # "count"
        BY <1>6, <4>1 DEF Tells
      <4>3. Lines("count")' = Lines("count") /\ \A i \in 1 .. Len(out) : out'[i] = out[i]
        BY <1>1, <4>1, <4>2, Grown
      <4>4. \A c \in Lines("count") : c \in 1 .. Len(out)
        BY <1>1, CountIsNat
      <4> QED BY <1>1, <3>2, <4>1, <4>3, <4>4, FollowStays
    <3> QED BY <3>1, <3>2, LogSteps DEF Says
  <2>3. Early' => Lines("count")' = {}
    BY <1>2, <2>2 DEF Forward, CountOK
  <2>4. ASSUME Leaving', ~raised', lost' = 0, NEW c \in Lines("count")
        PROVE  Follow(c, out[c].of)
    <3>1. ~raised /\ lost = 0 /\ (Early \/ Leaving \/ end_of_try)
      BY <1>2, <2>2, <2>4 DEF Forward
    <3>2. CASE Early
      BY <2>4, <3>2 DEF CountOK
    <3>3. CASE Leaving
      BY <2>4, <3>1, <3>3 DEF CountOK
    <3>4. CASE end_of_try
      <4>1. pc = "log_tokens" /\ printed = tokens
        BY <1>1, <3>4 DEF end_of_try, At, MoreToPrint
      <4> QED BY <2>4, <3>1, <4>1 DEF CountOK
    <3> QED BY <3>1, <3>2, <3>3, <3>4
  <2>5. \A c \in Lines("count") : out[c].of \in Nat
    BY <1>1, CountIsNat
  <2>6. Leaving' /\ ~raised' /\ lost' = 0 => \A c \in Lines("count") : Follow(c, out[c].of)'
    <3> SUFFICES ASSUME Leaving', ~raised', lost' = 0, NEW c \in Lines("count")
                 PROVE  Follow(c, out[c].of)'
      OBVIOUS
    <3>1. Follow(c, out[c].of) /\ out[c].of \in Nat /\ out'[c].of = out[c].of
      BY <2>2, <2>4, <2>5
    <3>2. \A k \in Nat : Follow(c, k) => Follow(c, k)'
      BY <2>2
    <3>3. PICK m \in Nat : m = out[c].of
      BY <3>1
    <3>4. Follow(c, m)' /\ m = out'[c].of
      BY <3>1, <3>2, <3>3
    <3> QED BY <3>4 DEF Follow
  <2> QED BY <2>1, <2>2, <2>3, <2>6 DEF CountOK
<1> QED BY <1>3, <1>4, <1>5, <1>6
-----------------------------------------------------------------------------
(* The lines of the total time, and those it has to come behind.           *)
Totals == {i \in Lines("time") : out[i].of = "compilationTime"}
Others ==
  {i \in Lines("time") : out[i].of \in {"timer", "tokenizationTimer"}}
    \cup Lines("size") \cup Lines("count") \cup Lines("token")

(* Nothing has been read, or never will be. *)
NotRead ==
  \/ pc \in {"INIT_LOG", "parse", "compilationTime"} \/ Measuring
  \/ scope # <<>> /\ scope[1] = "benchmark"

TotalOK ==
  /\ NotRead => Others = {}
  /\ ~Leaving \/ (pc = "unwind" /\ scope # <<>>) => Totals = {}
  /\ pc = "unwind" /\ scope = <<>> /\ lost = 0 => Others = {} \/ Totals = {Len(out)}

(* Where the stack is not empty, its first local tells main from Benchmark. *)
LEMMA ScopeFacts ==
  ASSUME Types, ScopeOK
  PROVE  /\ Len(scope) \in Nat /\ (scope = <<>> <=> Len(scope) = 0)
         /\ ~Leaving /\ scope = <<>> => NotRead
         /\ InMain /\ scope # <<>> => scope[1] = "compilationTime"
         /\ scope # <<>> /\ scope[Len(scope)] = "compilationTime" => Len(scope) = 1
         /\ Len(scope) > 1 => InMain
         /\ scope # <<>> /\ scope[1] # "benchmark" => InMain
<1>1. Len(scope) \in Nat /\ (scope = <<>> <=> Len(scope) = 0)
  BY DEF Types, TypeOK, MainTypeOK
<1>2. /\ Stack[1] = "compilationTime" /\ Stack[2] # "compilationTime" /\ Stack[3] # "compilationTime"
      /\ Stack[4] # "compilationTime" /\ Stack[5] # "compilationTime" /\ Stack[6] # "compilationTime"
  BY DEF Stack
<1>3. InMain => /\ Len(scope) <= 6 /\ \A i \in 1 .. Len(scope) : scope[i] = Stack[i]
                /\ Len(scope) > 0 => 1 \in 1 .. Len(scope) /\ Len(scope) \in 1 .. Len(scope)
  BY <1>1 DEF InMain
<1>4. ~Leaving /\ scope = <<>> => NotRead
  <2> SUFFICES ASSUME ~Leaving, scope = <<>> PROVE NotRead
    OBVIOUS
  <2>1. pc \in DOMAIN Depth /\ Depth[pc] = 0
    BY <1>1 DEF ScopeOK
  <2>2. pc \in {"INIT_LOG", "parse", "compilationTime", "benchmark"}
    BY <2>1 DEF Depth
  <2> QED BY <2>2 DEF NotRead, Measuring
<1>5. ASSUME InMain, Len(scope) > 0, scope[Len(scope)] = "compilationTime"
      PROVE  Len(scope) = 1
  <2>1. Len(scope) <= 6 /\ scope[Len(scope)] = Stack[Len(scope)]
    BY <1>3, <1>5
  <2>2. Len(scope) \in {1, 2, 3, 4, 5, 6}
    <3>1. \A k \in Nat : k > 0 /\ k <= 6 => k \in {1, 2, 3, 4, 5, 6}
      OBVIOUS
    <3> QED BY Zenon, <1>1, <1>5, <2>1, <3>1
  <2>3. Stack[Len(scope)] = "compilationTime"
    BY <1>5, <2>1
  <2> QED BY <1>2, <2>2, <2>3
<1>6. ASSUME InBenchmark, Len(scope) > 0
      PROVE  Len(scope) = 1 /\ scope[1] = "benchmark"
  <2>1. Len(scope) = 1
    BY <1>1, <1>6 DEF InBenchmark
  <2> QED BY <1>6, <2>1 DEF InBenchmark
<1>7. InMain \/ InBenchmark
  BY DEF ScopeOK
<1>8. InMain /\ scope # <<>> => scope[1] = "compilationTime"
  BY <1>1, <1>2, <1>3
<1>9. scope # <<>> /\ scope[Len(scope)] = "compilationTime" => Len(scope) = 1
  <2> SUFFICES ASSUME scope # <<>>, scope[Len(scope)] = "compilationTime"
               PROVE  Len(scope) = 1
    OBVIOUS
  <2>1. Len(scope) > 0
    BY <1>1
  <2> QED BY <1>5, <1>6, <1>7, <2>1
<1>10. Len(scope) > 1 => InMain
  BY <1>6, <1>7
<1>11. scope # <<>> /\ scope[1] # "benchmark" => InMain
  BY <1>1, <1>6, <1>7
<1> QED BY <1>1, <1>4, <1>8, <1>9, <1>10, <1>11

(* The statements that log for main run with its first local alive.        *)
LEMMA ReadingIsInMain ==
  ASSUME Types, ScopeOK,
         pc \in {"processing_time", "tokenization_time", "log_size", "log_count", "log_tokens"}
  PROVE  ~NotRead
<1>1. ~Leaving /\ ~Measuring /\ pc \notin {"INIT_LOG", "parse", "compilationTime"} /\ Depth[pc] > 0
  BY DEF Leaving, Measuring, Depth
<1>2. InMain /\ Len(scope) > 0
  BY <1>1 DEF ScopeOK
<1>3. scope # <<>> /\ scope[1] = "compilationTime"
  BY <1>2, ScopeFacts
<1> QED BY <1>1, <1>3 DEF NotRead

LEMMA NotReadWas ==
  ASSUME Types, ScopeOK, [Next]_vars, NotRead'
  PROVE  NotRead
<1>1. CASE UNCHANGED vars
  BY <1>1 DEF vars, NotRead, Measuring
<1>2. CASE init_log \/ Declare("benchmark", "ready") \/ Measures \/ print \/ print_time
  BY <1>2 DEF init_log, Declare, Measures, begin_time_it, call_f, end_time_it, time_it_throws,
     print, print_time, At, NotRead, Measuring
<1>3. CASE parse \/ Declare("compilationTime", "timer")
  BY <1>3 DEF parse, Declare, At, NotRead
<1>4. ASSUME Leaving' \/ pc' \notin {"INIT_LOG", "parse", "compilationTime", "benchmark", "ready", "calling", "averaging", "printing"},
             scope' = scope
      PROVE  NotRead
  BY <1>4 DEF NotRead, Measuring, Leaving
<1>5. ASSUME pc' \notin {"INIT_LOG", "parse", "compilationTime", "benchmark", "ready", "calling", "averaging", "printing"},
             NEW x, scope' = Append(scope, x), scope # <<>>
      PROVE  NotRead
  <2>1. scope \in Seq(Local) /\ Len(scope) > 0
    BY <1>5 DEF Types, TypeOK, MainTypeOK
  <2>2. scope'[1] = scope[1]
    BY <1>5, <2>1
  <2> QED BY <1>5, <2>2 DEF NotRead, Measuring
<1>6. CASE processing_time \/ log_size \/ tokenization_time \/ log_count \/ end_of_try \/ return
           \/ log_token
  <2>1. /\ scope' = scope
        /\ pc' \in {"log_size", "lexer", "log_count", "log_tokens", "unwind", "exited"}
    BY <1>6 DEF processing_time, log_size, tokenization_time, log_count, end_of_try, return,
       log_token, LogTime, Terminate, Goto, Exit, At
  <2> QED BY <1>4, <2>1
<1>7. ~Leaving /\ scope = <<>> => NotRead
  BY ScopeFacts
<1>8. CASE readFromFile \/ construct_lexer \/ tokenize \/ Declare("timer", "readFromFile")
           \/ Declare("tokenizationTimer", "tokenize")
  <2>1. /\ ~Leaving
        /\ \/ scope' = scope /\ pc' = "unwind"
           \/ /\ \E x : scope' = Append(scope, x)
              /\ pc' \in {"readFromFile", "processing_time", "tokenizationTimer", "tokenize",
                          "tokenization_time"}
    BY <1>8 DEF readFromFile, construct_lexer, tokenize, Declare, Throw, Goto, At, Leaving
  <2> QED BY <1>4, <1>5, <1>7, <2>1
<1>9. CASE destroy
  <2>1. /\ scope # <<>> /\ scope' = SubSeq(scope, 1, Len(scope) - 1)
        /\ pc' \in {"unwind", "exited"}
    BY <1>9 DEF destroy, At, LatestFirst, Exit
  <2>2. scope' # <<>> /\ scope'[1] = "benchmark"
    BY <2>1 DEF NotRead, Measuring
  <2>3. scope \in Seq(Local) /\ Len(scope) \in Nat
    BY DEF Types, TypeOK, MainTypeOK
  <2>4. CASE Len(scope) > 1
    <3>1. InMain' /\ ScopeOK' /\ Types'
      BY <1>9, <2>4, ScopeShrinks, ScopeFacts, NextTypes
    <3>2. Len(scope') > 0
      BY <1>9, <2>3, <2>4, ScopeShrinks
    <3>3. scope'[1] = Stack[1]
      BY <3>1, <3>2 DEF InMain, Types, TypeOK, MainTypeOK
    <3> QED BY <2>2, <3>3 DEF Stack
  <2>5. CASE Len(scope) <= 1
    <3>1. scope' = <<>>
      BY <2>1, <2>3, <2>5, SubSeqEmpty
    <3> QED BY <2>2, <3>1
  <2> QED BY <2>3, <2>4, <2>5
<1> QED
  BY <1>1, <1>2, <1>3, <1>6, <1>8, <1>9, Actions DEF TimerWaits, TimerRuns, Declares

(* What is said before a file is read, or by Benchmark, is of no concern.  *)
LEMMA OthersStay ==
  ASSUME Types, ScopeOK, [Next]_vars, NotRead
  PROVE  Others' = Others
<1>1. out \in Seq(Said)
  BY DEF Types
<1>2. CASE out' = out
  BY <1>2 DEF Others, Lines
<1>3. CASE \E line \in Said : Tells(line) /\ out' = Append(out, line)
  <2>1. PICK line \in Said : Tells(line) /\ out' = Append(out, line)
    BY <1>3
  <2>2. /\ line.kind \notin {"size", "count", "token"}
        /\ line.kind = "time" => line.of \notin {"timer", "tokenizationTimer"}
    BY <2>1, ReadingIsInMain DEF Tells, log_count, log_token, At
  <2>3. /\ Lines("size")' = Lines("size") /\ Lines("count")' = Lines("count")
        /\ Lines("token")' = Lines("token")
        /\ \A i \in 1 .. Len(out) : out'[i] = out[i]
        /\ Lines("time") \subseteq 1 .. Len(out)
        /\ line.kind # "time" => Lines("time")' = Lines("time")
        /\ line.kind = "time" => Lines("time")' = Lines("time") \cup {Len(out) + 1}
        /\ out'[Len(out) + 1] = line
    BY <1>1, <2>1, <2>2, Grown
  <2>4. {i \in Lines("time")' : out'[i].of \in {"timer", "tokenizationTimer"}}
        = {i \in Lines("time") : out[i].of \in {"timer", "tokenizationTimer"}}
    BY <2>2, <2>3
  <2> QED BY <2>3, <2>4 DEF Others
<1> QED BY <1>2, <1>3, LogSteps DEF Says

(* Only the end of compilationTime's life logs the total.                  *)
LEMMA TotalsStay ==
  ASSUME Types, [Next]_vars, ~(destroy /\ scope[Len(scope)] = "compilationTime")
  PROVE  Totals' = Totals
<1>1. out \in Seq(Said)
  BY DEF Types
<1>2. CASE out' = out
  BY <1>2 DEF Totals, Lines
<1>3. CASE \E line \in Said : Tells(line) /\ out' = Append(out, line)
  <2>1. PICK line \in Said : Tells(line) /\ out' = Append(out, line)
    BY <1>3
  <2>2. line.kind = "time" => line.of # "compilationTime"
    BY <2>1 DEF Tells
  <2>3. /\ \A i \in 1 .. Len(out) : out'[i] = out[i]
        /\ Lines("time") \subseteq 1 .. Len(out)
        /\ line.kind # "time" => Lines("time")' = Lines("time")
        /\ line.kind = "time" => Lines("time")' = Lines("time") \cup {Len(out) + 1}
        /\ out'[Len(out) + 1] = line
    BY <1>1, <2>1, <2>2, Grown
  <2> QED BY <2>2, <2>3 DEF Totals
<1> QED BY <1>2, <1>3, LogSteps DEF Says

(* How the block is left: by a statement that does not touch the stack,    *)
(* and then by nothing but the end of its locals.                          *)
LEMMA UnwindSteps ==
  ASSUME [Next]_vars, pc' = "unwind", ~Leaving
  PROVE  scope' = scope
<1>1. CASE Straight
  BY <1>1, StraightOn
<1>2. CASE readFromFile \/ construct_lexer \/ tokenize
  BY <1>2 DEF readFromFile, construct_lexer, tokenize, Throw, Goto
<1>3. CASE print \/ Measures \/ Declares
  BY <1>3 DEF print, Measures, begin_time_it, call_f, end_time_it, time_it_throws, Declares,
     Declare, Throw, Goto, At, Terminate, Exit
<1>4. CASE log_token \/ destroy \/ UNCHANGED vars
  BY <1>4 DEF log_token, destroy, At, Leaving, vars
<1> QED BY <1>1, <1>2, <1>3, <1>4, Actions DEF Straight, TimerWaits, TimerRuns

LEMMA LeavingSteps ==
  ASSUME [Next]_vars, pc' = "unwind", Leaving
  PROVE  pc = "unwind" /\ (UNCHANGED vars \/ destroy)
<1>1. CASE Straight
  BY <1>1 DEF Straight, init_log, parse, processing_time, log_size, tokenization_time, log_count,
     print_time, end_of_try, return, At, Exit, Leaving
<1>2. CASE readFromFile \/ construct_lexer \/ tokenize \/ print \/ Measures \/ Declares
  BY <1>2 DEF readFromFile, construct_lexer, tokenize, print, Measures, begin_time_it, call_f,
     end_time_it, time_it_throws, Declares, Declare, At, Leaving
<1>3. CASE log_token \/ destroy \/ UNCHANGED vars
  BY <1>3 DEF log_token, destroy, At, Leaving, vars
<1> QED BY <1>1, <1>2, <1>3, Actions DEF Straight, TimerWaits, TimerRuns

LEMMA TotalSteps ==
  ASSUME Types, ScopeOK, TotalOK, [Next]_vars
  PROVE  TotalOK'
<1>1. Forward /\ Types' /\ ScopeOK' /\ lost \in Nat
  BY Phases, NextTypes, ScopeSteps DEF Types, TypeOK, LogTypeOK
<1>2. NotRead' => Others' = {}
  BY NotReadWas, OthersStay DEF TotalOK
<1>3. CASE destroy /\ scope[Len(scope)] = "compilationTime"
  <2>1. /\ scope # <<>> /\ Len(scope) = 1 /\ pc = "unwind" /\ Leaving'
        /\ pc' = "unwind" => LINFO(to_string("compilationTime"))
    BY <1>3, ScopeFacts DEF destroy, At, Exit, LatestFirst, Leaving
  <2>2. scope' = <<>> /\ Totals = {}
    BY <1>1, <1>3, <2>1, ScopeShrinks DEF TotalOK, Types, TypeOK, MainTypeOK
  <2>3. ASSUME pc' = "unwind", lost' = 0
        PROVE  Totals' = {Len(out')}
    <3> DEFINE line == to_string("compilationTime")
    <3>1. LINFO(line)
      BY <2>1, <2>3
    <3>2. Says(line)
      BY <3>1, Logged DEF Types, TypeOK
    <3>3. out' = Append(out, line)
      BY <1>1, <2>3, <3>2 DEF Says
    <3>4. line.kind = "time" /\ line.of = "compilationTime"
      BY DEF to_string
    <3>5. out \in Seq(Said)
      BY DEF Types
    <3> HIDE DEF line
    <3>6. /\ Lines("time")' = Lines("time") \cup {Len(out) + 1} /\ Len(out') = Len(out) + 1
          /\ out'[Len(out) + 1] = line /\ Lines("time") \subseteq 1 .. Len(out)
          /\ \A i \in 1 .. Len(out) : out'[i] = out[i]
      BY <3>3, <3>4, <3>5, Grown
    <3> QED BY <2>2, <3>4, <3>6 DEF Totals
  <2> QED BY <1>2, <2>1, <2>2, <2>3 DEF TotalOK
<1>4. CASE ~(destroy /\ scope[Len(scope)] = "compilationTime")
  <2>1. Totals' = Totals
    BY <1>4, TotalsStay
  <2>2. ASSUME ~Leaving' \/ (pc' = "unwind" /\ scope' # <<>>)
        PROVE  Totals' = {}
    <3>1. CASE ~Leaving
      BY <2>1, <3>1 DEF TotalOK
    <3>2. CASE Leaving
      <4>1. pc' = "unwind" /\ scope' # <<>>
        BY <1>1, <2>2, <3>2 DEF Forward
      <4>2. pc = "unwind" /\ (UNCHANGED vars \/ destroy)
        BY <1>1, <3>2, <4>1, LeavingSteps
      <4>3. scope # <<>>
        BY <4>1, <4>2 DEF vars, destroy
      <4> QED BY <2>1, <4>2, <4>3 DEF TotalOK
    <3> QED BY <3>1, <3>2
  <2>3. ASSUME pc' = "unwind", scope' = <<>>, lost' = 0
        PROVE  Others' = {} \/ Totals' = {Len(out')}
    <3>1. CASE ~Leaving
      <4>1. scope = <<>>
        BY <2>3, <3>1, UnwindSteps
      <4>2. NotRead
        BY <3>1, <4>1, ScopeFacts
      <4> QED BY <4>2, OthersStay DEF TotalOK
    <3>2. CASE Leaving
      <4>1. pc = "unwind" /\ (UNCHANGED vars \/ destroy)
        BY <2>3, <3>2, LeavingSteps
      <4>2. CASE UNCHANGED vars
        <5>1. UNCHANGED <<out, lost, pc, scope>>
          BY <4>2 DEF vars, log
        <5> QED BY <2>3, <4>1, <5>1 DEF TotalOK, Others, Totals, Lines
      <4>3. CASE destroy
        <5>1. Len(scope) = 1 /\ scope # <<>>
          BY <1>1, <2>3, <4>3, ScopeShrinks, ScopeFacts DEF destroy
        <5>2. scope[1] # "compilationTime"
          BY <1>4, <4>3, <5>1
        <5>3. scope[1] = "benchmark"
          BY <5>1, <5>2, ScopeFacts
        <5>4. NotRead
          BY <5>1, <5>3 DEF NotRead
        <5> QED BY <5>4, OthersStay DEF TotalOK
      <4> QED BY <4>1, <4>2, <4>3
    <3> QED BY <3>1, <3>2
  <2> QED BY <1>2, <2>2, <2>3 DEF TotalOK
<1> QED BY <1>3, <1>4
-----------------------------------------------------------------------------
(* While time_it measures, the start it will put back is the right one.    *)
StartSaved ==
  pc \in {"calling", "averaging"} => saved = born["benchmark"] \/ "benchmark" \in cut

LEMMA StartSteps ==
  ASSUME Types, StartSaved, StartSurvivesTimeIt, [Next]_vars
  PROVE  StartSaved' /\ StartSurvivesTimeIt'
<1> USE DEF StartSaved, StartSurvivesTimeIt
<1>1. "benchmark" \in Timers /\ start_ \in [Timers -> Readings]
  BY ProgramAssumption DEF Types, TypeOK, TimerTypeOK
<1>2. CASE TimerWaits
  BY <1>2, TimerWaiting
<1>3. CASE TimerRuns
  BY <1>3 DEF TimerRuns, readFromFile, tokenize, print, Throw, Goto
<1>4. CASE Declares
  <2>1. CASE Throw
    BY <2>1 DEF Throw, Goto
  <2>2. CASE Declare("benchmark", "ready") /\ ~Throw
    BY <1>1, <2>2 DEF Declare, Timer, Goto, Types, TypeOK, TimerTypeOK
  <2>3. CASE pc' # "ready" /\ ~Throw
    BY <1>4, <2>3 DEF Declares, Declare, Goto
  <2> QED BY <1>4, <2>1, <2>2, <2>3 DEF Declares, Declare, Goto
<1>5. CASE begin_time_it
  BY <1>5 DEF begin_time_it, At, time_it, Goto
<1>6. CASE call_f
  BY <1>6 DEF call_f, At, call
<1>7. CASE end_time_it
  <2>1. CASE Terminate
    BY <2>1 DEF Terminate, Exit
  <2>2. CASE finish("benchmark") /\ Goto("ready")
    BY <1>1, <1>7, <2>2 DEF end_time_it, At, finish, Goto
  <2> QED BY <1>7, <2>1, <2>2 DEF end_time_it
<1>8. CASE time_it_throws
  BY <1>8 DEF time_it_throws, throw_out, Goto
<1>9. CASE UNCHANGED vars
  BY <1>9 DEF vars, timing, object, locals
<1> QED BY <1>2, <1>3, <1>4, <1>5, <1>6, <1>7, <1>8, <1>9, Actions DEF Measures

(* What holds of the log when the last statement has run.                  *)
LEMMA EndSteps ==
  ASSUME Types, ErrorsOK, TotalOK, FailureIsSaid, TotalIsSaidLast, [Next]_vars
  PROVE  FailureIsSaid' /\ TotalIsSaidLast'
<1>1. out \in Seq(Said) /\ lost \in Nat
  BY DEF Types, TypeOK, LogTypeOK
<1>2. CASE UNCHANGED vars
  <2>1. UNCHANGED <<out, lost, status, raised>>
    BY <1>2 DEF vars, log
  <2> QED BY <2>1 DEF FailureIsSaid, TotalIsSaidLast, Ended, LastLine, Lines
<1>3. CASE ~return /\ ~UNCHANGED vars
  <2>1. ~Ended'
    BY <1>3, Phases DEF Forward, Ended
  <2> QED BY <2>1 DEF FailureIsSaid, TotalIsSaidLast
<1>4. CASE return
  <2>1. pc = "unwind" /\ scope = <<>> /\ raised' = raised
    BY <1>4 DEF return, At
  <2>2. Lines("error") = {}
    BY <2>1 DEF ErrorsOK
  <2>3. lost = 0 => Others = {} \/ Totals = {Len(out)}
    BY <2>1 DEF TotalOK
  <2>4. CASE ~raised
    <3>1. UNCHANGED <<out, lost>>
      BY <1>4, <2>4 DEF return, log
    <3>2. ~LastLine("error")
      BY <1>1, <2>2 DEF LastLine, Lines
    <3>3. FailureIsSaid'
      <4>1. ~LastLine("error")' /\ Lines("error")' = {} /\ ~raised' /\ raised' \in BOOLEAN
        BY <2>1, <2>2, <2>4, <3>1, <3>2 DEF LastLine, Lines, Types, TypeOK, MainTypeOK
      <4>2. LastLine("error")' \in BOOLEAN
        BY DEF LastLine
      <4> QED BY <4>1, <4>2 DEF FailureIsSaid
    <3>4. TotalIsSaidLast'
      <4> SUFFICES ASSUME lost = 0, Others # {}
                   PROVE  \E i \in Totals : Totals = {i} /\ \A j \in DOMAIN out : j > i => out[j].kind = "error"
        BY <3>1 DEF TotalIsSaidLast, Ended, Others, Totals, Lines
      <4>1. Totals = {Len(out)}
        BY <2>3
      <4> QED BY <1>1, <4>1
    <3> QED BY <3>3, <3>4
  <2>5. CASE raised
    <3> DEFINE line == [kind |-> "error"]
    <3>1. LERROR(line)
      BY <1>4, <2>5 DEF return, Handle
    <3>2. Says(line)
      BY <3>1, Logged DEF Types, TypeOK
    <3>3. line.kind = "error"
      OBVIOUS
    <3> HIDE DEF line
    <3>4. CASE lost' = lost + 1
      BY <1>1, <3>4 DEF FailureIsSaid, TotalIsSaidLast, Ended
    <3>5. CASE out' = Append(out, line) /\ lost' = lost
      <4>1. /\ Len(out) \in Nat /\ Len(out') = Len(out) + 1
            /\ DOMAIN out = 1 .. Len(out) /\ DOMAIN out' = 1 .. Len(out) + 1
            /\ \A i \in 1 .. Len(out) : out'[i] = out[i]
            /\ out'[Len(out) + 1] = line
            /\ Lines("error")' = Lines("error") \cup {Len(out) + 1}
            /\ Lines("time")' = Lines("time") /\ Lines("size")' = Lines("size")
            /\ Lines("count")' = Lines("count") /\ Lines("token")' = Lines("token")
            /\ Lines("time") \subseteq 1 .. Len(out)
        BY <1>1, <3>3, <3>5, Grown
      <4>2. LastLine("error")'
        <5>1. out' # <<>>
          BY <4>1
        <5> QED BY <3>3, <4>1, <5>1 DEF LastLine
      <4>3. FailureIsSaid'
        BY <2>1, <2>5, <4>1, <4>2 DEF FailureIsSaid
      <4>4. Totals' = Totals /\ Others' = Others
        BY <4>1 DEF Totals, Others
      <4>5. TotalIsSaidLast'
        <5> SUFFICES ASSUME lost = 0, Others' # {}
                     PROVE  \E i \in Totals' :
                              Totals' = {i} /\ \A j \in DOMAIN out' : j > i => out'[j].kind = "error"
          BY <3>5 DEF TotalIsSaidLast, Ended, Others, Totals
        <5>1. Totals' = {Len(out)}
          BY <2>3, <4>4
        <5>2. \A j \in DOMAIN out' : j > Len(out) => j = Len(out) + 1
          BY <4>1
        <5> QED BY <3>3, <4>1, <5>1, <5>2
      <4> QED BY <4>3, <4>5
    <3> QED BY <3>2, <3>4, <3>5 DEF Says
  <2> QED BY <2>4, <2>5
<1> QED BY <1>2, <1>3, <1>4
-----------------------------------------------------------------------------
IInv ==
  /\ Types /\ ScopeOK /\ ErrorsOK /\ CountOK /\ TotalOK
  /\ StartSaved /\ StartSurvivesTimeIt /\ FailureIsSaid /\ TotalIsSaidLast

LEMMA InitIInv ==
  ASSUME Init
  PROVE  IInv
<1>1. /\ out = <<>> /\ scope = <<>> /\ status = "none" /\ pc \in {"INIT_LOG", "benchmark"}
  BY DEF Init, LogInit
<1>2. Types
  BY InitTypes
<1>3. ScopeOK
  <2>1. Len(scope) = 0 /\ InMain /\ InBenchmark
    BY <1>1 DEF InMain, InBenchmark
  <2>2. pc \in DOMAIN Depth /\ Depth[pc] = 0 /\ ~Leaving
    BY <1>1 DEF Depth, Leaving
  <2>3. pc = "INIT_LOG" => ~Measuring
    BY DEF Measuring
  <2>4. pc = "benchmark" => Measuring
    BY DEF Measuring
  <2> QED BY <1>1, <2>1, <2>2, <2>3, <2>4 DEF ScopeOK
<1>4. \A kind : Lines(kind) = {}
  BY <1>1 DEF Lines
<1>5. Totals = {} /\ Others = {}
  BY <1>4 DEF Totals, Others
<1>6. ErrorsOK /\ CountOK /\ TotalOK
  BY <1>1, <1>4, <1>5 DEF ErrorsOK, CountOK, TotalOK, Leaving
<1>7. StartSaved /\ StartSurvivesTimeIt /\ FailureIsSaid /\ TotalIsSaidLast
  BY <1>1 DEF StartSaved, StartSurvivesTimeIt, FailureIsSaid, TotalIsSaidLast, Ended
<1> QED BY <1>2, <1>3, <1>6, <1>7 DEF IInv

LEMMA NextIInv ==
  ASSUME IInv, [Next]_vars
  PROVE  IInv'
BY NextTypes, ScopeSteps, ErrorSteps, CountSteps, TotalSteps, StartSteps, EndSteps DEF IInv

LEMMA IInvHolds == Spec => []IInv
BY InitIInv, NextIInv, PTL DEF Spec
-----------------------------------------------------------------------------
(* Every variable keeps its type, and time_it never divides by 0 and never *)
(* counts past MFACTOR + 1 calls (Timer.hpp, time_it).                     *)
THEOREM TypesHold == Spec => []TypeOK
<1>1. IInv => TypeOK
  BY DEF IInv, Types
<1> QED BY <1>1, IInvHolds, PTL

(* What is logged was shown of some duration. *)
LEMMA TimesAreRight ==
  ASSUME Types
  PROVE  ShownTimesAddUp
<1> SUFFICES ASSUME NEW shown \in Composite PROVE AddsUp(shown)
  BY DEF ShownTimesAddUp
<1>1. PICK i \in DOMAIN out : out[i].kind \in {"time", "average"} /\ shown = out[i].shown
  BY DEF Composite, TimesShown, Lines
<1>2. out[i] \in Said
  BY DEF Types
<1>3. PICK t \in Int : shown = Shown(t)
  BY <1>1, <1>2 DEF Said
<1>4. /\ shown.time = t /\ shown.label = getRelevantTimeframe(t).label
      /\ shown.parts = toString(getRelevantTimeframe(t))
  BY <1>3 DEF Shown
<1>5. shown.label # "ns"
  BY DEF Composite
<1> QED BY <1>4, <1>5, ShownAddsUp

(* The components of every time in the log add up to it, for every clock   *)
(* (Times.hpp).                                                            *)
THEOREM TimesAddUp == Spec => []ShownTimesAddUp
<1>1. IInv => ShownTimesAddUp
  BY TimesAreRight DEF IInv
<1> QED BY <1>1, IInvHolds, PTL

(* What is logged was made by format_size. *)
LEMMA SizesAreRight ==
  ASSUME Types
  PROVE  SizeIsShownInItsUnit
<1> SUFFICES ASSUME NEW i \in Lines("size")
             PROVE  LET bytes == out[i].shown.bytes
                        unit == out[i].shown.unit
                    IN  /\ unit + 1 \in DOMAIN UNITS
                        /\ unit > 0 => bytes >= UNIT_DIVIDER ^ unit
                        /\ unit + 1 < Len(UNITS) => bytes < UNIT_DIVIDER ^ (unit + 1)
  BY DEF SizeIsShownInItsUnit
<1>1. i \in DOMAIN out /\ out[i] \in Said /\ out[i].kind = "size"
  BY DEF Types, Lines
<1>2. PICK bytes \in Nat : out[i].shown = format_size(bytes)
  BY <1>1 DEF Said
<1> DEFINE unit == format_size(bytes).unit
<1>3. /\ out[i].shown.bytes = bytes /\ out[i].shown.unit = unit /\ unit \in 0 .. 4
      /\ unit = 4 \/ bytes < UNIT_DIVIDER ^ (unit + 1)
      /\ \A u \in 0 .. 3 : bytes < UNIT_DIVIDER ^ (u + 1) => unit <= u
  BY <1>2, SizeIsTyped
<1> HIDE DEF unit
<1>4. DOMAIN UNITS = 1 .. 5 /\ Len(UNITS) = 5
  BY DEF UNITS
<1>5. ASSUME unit > 0 PROVE bytes >= UNIT_DIVIDER ^ unit
  <2>1. unit - 1 \in 0 .. 3 /\ unit - 1 + 1 = unit /\ ~(unit <= unit - 1)
    BY <1>3, <1>5
  <2>2. ~(bytes < UNIT_DIVIDER ^ (unit - 1 + 1))
    BY <1>3, <2>1
  <2>3. UNIT_DIVIDER ^ unit \in Int
    BY <1>3, ProgramAssumption
  <2> QED BY <2>1, <2>2, <2>3
<1> QED BY <1>3, <1>4, <1>5

(* Every size in the log is shown in the largest unit of which there is    *)
(* one (main.cpp, format_size).                                            *)
THEOREM SizesAreShown == Spec => []SizeIsShownInItsUnit
<1>1. IInv => SizeIsShownInItsUnit
  BY SizesAreRight DEF IInv
<1> QED BY <1>1, IInvHolds, PTL

(* A timer runs on through every measurement that was not left by a throw  *)
(* (Timer.hpp, time_it).                                                   *)
THEOREM StartSurvives == Spec => []StartSurvivesTimeIt
<1>1. IInv => StartSurvivesTimeIt
  BY DEF IInv
<1> QED BY <1>1, IInvHolds, PTL

(* No view of a local outlives it, whichever statement throws (main.cpp,   *)
(* Lexer.hpp, SourceSpan.hpp).                                             *)
THEOREM ViewsAreSafe == Spec => []ViewsStayAlive
<1>1. ASSUME IInv PROVE ViewsStayAlive
  <2>1. scope \in Seq(Local) /\ Len(scope) \in Nat /\ DOMAIN scope = 1 .. Len(scope)
        /\ (InMain \/ InBenchmark)
    BY <1>1 DEF IInv, Types, TypeOK, MainTypeOK, ScopeOK
  <2>2. /\ Stack[1] = "compilationTime" /\ Stack[2] = "timer" /\ Stack[3] = "str"
        /\ Stack[4] = "lexer" /\ Stack[5] = "tokenizationTimer" /\ Stack[6] = "tokens"
    BY DEF Stack
  <2>3. \A k \in Nat : k > 0 /\ k <= 6 => k \in {1, 2, 3, 4, 5, 6}
    OBVIOUS
  <2>4. ASSUME NEW i \in DOMAIN scope, scope[i] \in {"lexer", "tokens"}
        PROVE  /\ Len(scope) > 3 /\ scope[3] = "str" /\ scope[4] = "lexer"
    <3>1. InMain
      BY <2>1, <2>4 DEF InBenchmark
    <3>2. scope[i] = Stack[i] /\ i \in Nat /\ i > 0 /\ i <= 6 /\ i <= Len(scope)
      BY <2>1, <3>1 DEF InMain
    <3>3. i \in {4, 6}
      BY <2>2, <2>3, <2>4, <3>2
    <3>4. Len(scope) > 3
      BY <2>1, <3>2, <3>3
    <3> QED BY <2>1, <2>2, <3>1, <3>4 DEF InMain
  <2> SUFFICES ASSUME NEW x \in Local, Alive(x), NEW y \in Viewed[x] PROVE Alive(y)
    BY DEF ViewsStayAlive
  <2>5. x \in {"lexer", "tokens"} /\ y \in {"str", "lexer"}
    BY DEF Viewed
  <2>6. Len(scope) > 3 /\ scope[3] = "str" /\ scope[4] = "lexer"
    BY <2>4, <2>5 DEF Alive
  <2>7. 3 \in DOMAIN scope /\ 4 \in DOMAIN scope
    BY <2>1, <2>6
  <2> QED BY <2>5, <2>6, <2>7 DEF Alive
<1> QED BY <1>1, IInvHolds, PTL

(* A run that ends with EXIT_SUCCESS and lost no line ends with an error   *)
(* line exactly when an exception was caught (main.cpp, the handlers).     *)
THEOREM FailuresAreSaid == Spec => []FailureIsSaid
<1>1. IInv => FailureIsSaid
  BY DEF IInv
<1> QED BY <1>1, IInvHolds, PTL

(* The total time is logged once on every way out of main, behind every    *)
(* line but the error (Timer.hpp, ~AutoTimer; main.cpp).                   *)
THEOREM TotalsComeLast == Spec => []TotalIsSaidLast
<1>1. IInv => TotalIsSaidLast
  BY DEF IInv
<1> QED BY <1>1, IInvHolds, PTL

(* A run that did not fail has logged every token once, in order, behind   *)
(* their number (main.cpp, the loop over the tokens).                      *)
THEOREM TokensAreLogged == Spec => []EveryTokenIsLogged
<1>1. ASSUME IInv PROVE EveryTokenIsLogged
  <2> SUFFICES ASSUME Ended, ~raised, NEW c \in Lines("count")
               PROVE  \A i \in 1 .. out[c].of : c + i \in Lines("token") /\ out[c + i].of = i
    BY DEF EveryTokenIsLogged
  <2>1. pc = "exited" /\ lost = 0
    BY <1>1 DEF IInv, Types, Counts, Ended
  <2>2. Follow(c, out[c].of)
    BY <1>1, <2>1 DEF IInv, CountOK, Leaving
  <2> QED BY <2>2 DEF Follow
<1> QED BY <1>1, IInvHolds, PTL

(* Only end_time_it logs an average, of what call_f has counted.           *)
LEMMA AverageSteps ==
  ASSUME IInv, [Next]_vars
  PROVE  [\A line \in {out'[i] : i \in DOMAIN out' \ DOMAIN out} :
            line.kind = "average" =>
              /\ line.tries = called
              /\ called <= MFACTOR => total_time >= target_time * TICK
              /\ total_time - line.shown.time * called \in 0 .. called - 1]_vars
<1> SUFFICES ASSUME NEW i \in DOMAIN out' \ DOMAIN out, out'[i].kind = "average"
             PROVE  /\ out'[i].tries = called
                    /\ called <= MFACTOR => total_time >= target_time * TICK
                    /\ total_time - out'[i].shown.time * called \in 0 .. called - 1
  OBVIOUS
<1>1. Types /\ out \in Seq(Said)
  BY DEF IInv, Types
<1>2. PICK line \in Said : Tells(line) /\ Says(line)
  BY <1>1, LogSteps
<1>3. out' = Append(out, line)
  BY <1>2 DEF Says
<1>4. out'[i] = line
  BY <1>1, <1>3, Grown
<1>5. pc = "averaging" /\ line.tries = n /\ line.shown = Shown(Average)
  BY <1>2, <1>4 DEF Tells
<1>6. n = called /\ n \in Nat \ {0} /\ total_time \in Int
      /\ (called <= MFACTOR => total_time >= target_time * TICK)
  BY <1>1, <1>5 DEF Types, Counts, TypeOK, TimerTypeOK
<1>7. Average \in Int /\ total_time - Average * n \in 0 .. n - 1
  BY <1>6, Division DEF Average
<1>8. line.shown.time = Average
  BY <1>5, <1>7, ShownIsTyped
<1> QED BY <1>4, <1>5, <1>6, <1>7, <1>8

(* time_it's average is over all its calls, of which there are enough      *)
(* (Timer.hpp, time_it).                                                   *)
THEOREM AveragesAreRight == Spec => AverageIsOverAllCalls
<1>1. IInv /\ [Next]_vars => [\A line \in {out'[i] : i \in DOMAIN out' \ DOMAIN out} :
            line.kind = "average" =>
              /\ line.tries = called
              /\ called <= MFACTOR => total_time >= target_time * TICK
              /\ total_time - line.shown.time * called \in 0 .. called - 1]_vars
  BY AverageSteps
<1> QED BY <1>1, IInvHolds, PTL DEF Spec, AverageIsOverAllCalls
=============================================================================
