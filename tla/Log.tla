--------------------------------- MODULE Log ---------------------------------
(***************************************************************************)
(* include/jsavCore/Log.hpp: the process's logger and what its macros do.  *)
(* spdlog is external: a call never throws, because the logger catches     *)
(* whatever formatting or a sink throws and hands it to an error handler,  *)
(* which writes to the standard error stream.  A line is a record; its     *)
(* layout is left out.                                                     *)
(***************************************************************************)
EXTENDS Integers, Sequences

CONSTANT MaxLost    \* bound: lines that the sink fails to write
ASSUME MaxLostAssumption == MaxLost \in Nat

VARIABLES
  logger,    \* "default" (spdlog's own) or "main" (setup_logger's)
  out,       \* the lines on the standard output
  complaints,    \* messages on the standard error stream
  lost       \* lines the sink could not write

log == <<logger, out, complaints, lost>>

Level == [trace |-> 0, debug |-> 1, info |-> 2, warn |-> 3, error |-> 4, critical |-> 5]

(* The least level a logger writes.  Both write to the standard output     *)
(* only: setup_logger makes a sink for the error stream and leaves it out. *)
Threshold == [default |-> Level.info, main |-> Level.trace]

(* my_error_handler, or spdlog's own where the logger has none. *)
my_error_handler == complaints' = complaints + 1

setup_logger == logger' = "main" /\ UNCHANGED <<out, complaints, lost>>

(* The macro catches whatever setup_logger throws, and the program goes on *)
(* with spdlog's default logger.                                           *)
INIT_LOG ==
  \/ setup_logger
  \/ my_error_handler /\ UNCHANGED <<logger, out, lost>>

SPDLOG(level, line) ==
  /\ UNCHANGED logger
  /\ \/ /\ out' = IF level >= Threshold[logger] THEN Append(out, line) ELSE out
        /\ UNCHANGED <<complaints, lost>>
     \/ /\ lost < MaxLost
        /\ lost' = lost + 1
        /\ my_error_handler
        /\ UNCHANGED out

LINFO(line)  == SPDLOG(Level.info, line)
LERROR(line) == SPDLOG(Level.error, line)

LogInit == logger = "default" /\ out = <<>> /\ complaints = 0 /\ lost = 0
=============================================================================
