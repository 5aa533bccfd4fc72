------------------------------- MODULE Program -------------------------------
(***************************************************************************)
(* src/jsav/main.cpp: the command line program from INIT_LOG to its exit   *)
(* status, over the logger (Log), the timers (Timer), readFromFile and the *)
(* lexer, whose own steps FileReader and Lexer model: here a file has a    *)
(* size or reading it throws, and a text of that size has at most as many  *)
(* tokens before the one at its end.  The locals of main live on a stack,  *)
(* and leaving the try block, by return or by a throw, destroys them.      *)
(* A second program, Benchmark, is a caller of Timer::time_it.             *)
(***************************************************************************)
EXTENDS Timer

CONSTANTS
  Sizes,        \* sizes of files
  MaxTokens,    \* bound: tokens of a text, the end token not counted
  UNIT_DIVIDER, \* 1024 in the code
  Cycles,       \* what Benchmark passes to operator/
  MaxUses       \* bound: calls of time_it by Benchmark

ASSUME ProgramAssumption ==
  /\ Sizes \subseteq Nat /\ MaxTokens \in Nat /\ MaxUses \in Nat
  /\ UNIT_DIVIDER \in Nat \ {0, 1}
  /\ Cycles \subseteq Nat \ {0}
  /\ {"compilationTime", "timer", "tokenizationTimer", "benchmark"} \subseteq Timers

VARIABLES
  pc,           \* the next statement
  scope,        \* the locals that are alive, in the order of construction
  raised,       \* an exception is under way
  size,         \* of str
  tokens,       \* how many tokens the lexer returned
  printed,      \* how many of them were logged
  status,       \* exit status; "none" while the program runs
  uses          \* calls of time_it so far

progress == <<size, tokens, printed, uses>>
vars == <<log, timing, pc, scope, raised, progress, status>>

UNITS == <<"B", "KB", "MB", "GB", "TB">>
-----------------------------------------------------------------------------
(* Mutant: the bound of the loop is the number of units. *)
FormatSizePastTheTable(bytes) ==
  LET stops == {unit \in 0 .. Len(UNITS) :
                  unit = Len(UNITS) \/ bytes < UNIT_DIVIDER ^ (unit + 1)}
  IN  [bytes |-> bytes, unit |-> CHOOSE unit \in stops : \A other \in stops : unit <= other]

(* format_size: the loop stops at the first unit of which there is less    *)
(* than UNIT_DIVIDER, or at the last.  bytes stand for the value, divided  *)
(* by UNIT_DIVIDER once for each unit passed.  UNITS counts from 0 in the  *)
(* code.                                                                   *)
format_size(bytes) ==
  LET stops == {unit \in 0 .. Len(UNITS) - 1 :
                  unit = Len(UNITS) - 1 \/ bytes < UNIT_DIVIDER ^ (unit + 1)}
  IN  [bytes |-> bytes, unit |-> CHOOSE unit \in stops : \A other \in stops : unit <= other]
-----------------------------------------------------------------------------
At(label) == pc = label
Goto(label) == pc' = label /\ UNCHANGED status
Exit(code) == pc' = "exited" /\ status' = code
Alive(x) == \E i \in DOMAIN scope : scope[i] = x

(* An exception leaves the try block; what the statement would have made   *)
(* is not made.                                                            *)
Throw ==
  /\ raised' = TRUE /\ Goto("unwind")
  /\ UNCHANGED <<log, scope, progress>>

(* Timer::to_string and ValueLabel::toString are noexcept: when formatting *)
(* throws inside them, nothing is unwound and no handler runs.             *)
Terminate ==
  /\ Exit("terminated")
  /\ UNCHANGED <<log, scope, raised, progress>>

LogTime(t, next) ==
  \/ Terminate
  \/ LINFO(to_string(t)) /\ Goto(next) /\ UNCHANGED <<scope, raised, progress>>
-----------------------------------------------------------------------------
init_log ==
  /\ At("INIT_LOG") /\ INIT_LOG /\ Goto("parse")
  /\ UNCHANGED <<timing, scope, raised, progress>>

(* CLI11_PARSE returns what the parser makes of an error or of --help;     *)
(* --version is logged; otherwise the path is made canonical, which throws *)
(* for a file that is not there.                                           *)
parse ==
  /\ At("parse") /\ UNCHANGED timing
  /\ \/ /\ Exit("cli") /\ UNCHANGED <<log, scope, raised, progress>>
     \/ /\ LINFO([kind |-> "version"]) /\ Goto("unwind")
        /\ UNCHANGED <<scope, raised, progress>>
     \/ Throw
     \/ Goto("compilationTime") /\ UNCHANGED <<log, scope, raised, progress>>

(* A timer is constructed as a local of main, unless building its title or *)
(* its print function throws.                                              *)
Declare(t, next) ==
  /\ At(t)
  /\ \/ Throw /\ UNCHANGED timing
     \/ /\ Timer(t) /\ scope' = Append(scope, t) /\ Goto(next)
        /\ UNCHANGED <<log, now, locals, called, raised, progress>>

readFromFile ==
  /\ At("readFromFile")
  /\ \E d \in Steps : Elapse(d)
  /\ \/ Throw
     \/ /\ \E bytes \in Sizes : size' = bytes
        /\ scope' = Append(scope, "str") /\ Goto("processing_time")
        /\ UNCHANGED <<log, raised, tokens, printed, uses>>
  /\ UNCHANGED <<object, locals, born, cut, called>>

processing_time ==
  /\ At("processing_time") /\ LogTime("timer", "log_size") /\ UNCHANGED timing

log_size ==
  /\ At("log_size")
  /\ LINFO([kind |-> "size", shown |-> format_size(size)])
  /\ Goto("lexer")
  /\ UNCHANGED <<timing, scope, raised, progress>>

(* Mutant: tokenize is called on a temporary, gone with its statement. *)
LexerIsTemporary ==
  /\ At("lexer") /\ UNCHANGED timing
  /\ \/ Throw
     \/ Goto("tokenizationTimer") /\ UNCHANGED <<log, scope, raised, progress>>

construct_lexer ==
  /\ At("lexer") /\ UNCHANGED timing
  /\ \/ Throw
     \/ /\ scope' = Append(scope, "lexer") /\ Goto("tokenizationTimer")
        /\ UNCHANGED <<log, raised, progress>>

(* Every token before the last one holds a byte of the text or more. *)
tokenize ==
  /\ At("tokenize")
  /\ \E d \in Steps : Elapse(d)
  /\ \/ Throw
     \/ /\ \E count \in 1 .. MaxTokens + 1 : count <= size + 1 /\ tokens' = count
        /\ scope' = Append(scope, "tokens") /\ Goto("tokenization_time")
        /\ UNCHANGED <<log, raised, size, printed, uses>>
  /\ UNCHANGED <<object, locals, born, cut, called>>

tokenization_time ==
  /\ At("tokenization_time") /\ UNCHANGED timing
  /\ LogTime("tokenizationTimer", "log_count")

log_count ==
  /\ At("log_count")
  /\ LINFO([kind |-> "count", of |-> tokens]) /\ Goto("log_tokens")
  /\ UNCHANGED <<timing, scope, raised, progress>>

(* Mutant: the loop stops in front of the end token. *)
MoreButTheLast == printed + 1 < tokens

MoreToPrint == printed < tokens

log_token ==
  /\ At("log_tokens") /\ MoreToPrint
  /\ printed' = printed + 1
  /\ LINFO([kind |-> "token", of |-> printed'])
  /\ UNCHANGED <<timing, pc, scope, raised, size, tokens, uses, status>>

end_of_try ==
  /\ At("log_tokens") /\ ~MoreToPrint /\ Goto("unwind")
  /\ UNCHANGED <<log, timing, scope, raised, progress>>
-----------------------------------------------------------------------------
LatestFirst == [next |-> scope[Len(scope)], rest |-> SubSeq(scope, 1, Len(scope) - 1)]

(* Mutant: ~AutoTimer logs nothing while an exception is under way. *)
DestroyQuietly ==
  /\ At("unwind") /\ scope # <<>>
  /\ scope' = LatestFirst.rest
  /\ IF LatestFirst.next = "compilationTime" /\ ~raised
     THEN LINFO(to_string("compilationTime")) ELSE UNCHANGED log
  /\ UNCHANGED <<timing, raised, progress, pc, status>>

(* One local is destroyed, the latest first; ~AutoTimer logs its time. *)
destroy ==
  /\ At("unwind") /\ scope # <<>>
  /\ scope' = LatestFirst.rest
  /\ \/ /\ LatestFirst.next = "compilationTime"
        /\ \/ Exit("terminated") /\ UNCHANGED log
           \/ LINFO(to_string("compilationTime")) /\ UNCHANGED <<pc, status>>
     \/ /\ LatestFirst.next # "compilationTime"
        /\ UNCHANGED <<log, pc, status>>
  /\ UNCHANGED <<timing, raised, progress>>

(* Mutant: an empty handler. *)
HandleSilently == UNCHANGED log

Handle == LERROR([kind |-> "error"])

(* The handlers, and the return behind them: the status is EXIT_SUCCESS    *)
(* whether or not an exception was caught.                                 *)
return ==
  /\ At("unwind") /\ scope = <<>>
  /\ IF raised THEN Handle ELSE UNCHANGED log
  /\ Exit("EXIT_SUCCESS")
  /\ UNCHANGED <<timing, scope, raised, progress>>
-----------------------------------------------------------------------------
(* Benchmark: measures with time_it, prints its timer, and goes on when    *)
(* the callable throws.                                                    *)
begin_time_it ==
  /\ At("ready") /\ uses < MaxUses
  /\ \E target \in Targets : time_it("benchmark", target)
  /\ uses' = uses + 1 /\ Goto("calling")
  /\ UNCHANGED <<log, scope, raised, size, tokens, printed>>

call_f ==
  /\ At("calling")
  /\ \/ call("benchmark", TRUE) /\ UNCHANGED pc
     \/ call("benchmark", FALSE) /\ pc' = "averaging"
  /\ UNCHANGED <<log, scope, raised, progress, status>>

(* The average is formatted; the result, with the number of tries, is      *)
(* printed by the caller.                                                  *)
end_time_it ==
  /\ At("averaging")
  /\ \/ Terminate /\ UNCHANGED timing
     \/ /\ finish("benchmark") /\ Goto("ready")
        /\ LINFO([kind |-> "average", shown |-> Shown(Average), tries |-> n])
        /\ UNCHANGED <<scope, raised, progress>>

time_it_throws ==
  /\ pc \in {"calling", "averaging"} /\ throw_out("benchmark") /\ Goto("ready")
  /\ UNCHANGED <<log, scope, raised, progress>>

print ==
  /\ At("ready") /\ \E d \in Steps : Elapse(d)
  /\ \E val \in Cycles : Slash("benchmark", val)
  /\ Goto("printing")
  /\ UNCHANGED <<log, start_, locals, born, cut, called, scope, raised, progress>>

print_time ==
  /\ At("printing") /\ LogTime("benchmark", "unwind") /\ UNCHANGED timing
-----------------------------------------------------------------------------
Init ==
  /\ LogInit /\ TimerInit
  /\ pc \in {"INIT_LOG", "benchmark"}
  /\ scope = <<>> /\ raised = FALSE /\ status = "none"
  /\ size = 0 /\ tokens = 0 /\ printed = 0 /\ uses = 0

Main ==
  \/ init_log \/ parse
  \/ Declare("compilationTime", "timer") \/ Declare("timer", "readFromFile")
  \/ readFromFile \/ processing_time \/ log_size
  \/ construct_lexer \/ Declare("tokenizationTimer", "tokenize") \/ tokenize
  \/ tokenization_time \/ log_count \/ log_token \/ end_of_try
  \/ destroy \/ return

Benchmark ==
  \/ Declare("benchmark", "ready")
  \/ begin_time_it \/ call_f \/ end_time_it \/ time_it_throws
  \/ print \/ print_time

Next == Main \/ Benchmark

(* One thread that runs on.  What it calls returns. *)
Spec == Init /\ [][Next]_vars /\ WF_vars(Next)
=============================================================================
