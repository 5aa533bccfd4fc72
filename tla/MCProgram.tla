------------------------------ MODULE MCProgram ------------------------------
(***************************************************************************)
(* Values for Program's constants that a .cfg cannot write.                *)
(***************************************************************************)
EXTENDS ProgramProperties

MCTimers == {"compilationTime", "timer", "tokenizationTimer", "benchmark"}

(* With FACTOR 4 and TICK 6: a step back, none, 3 ns, 7 ns (1 us and       *)
(* 3/4), and 95 ns (1 s and almost 2 ms).                                  *)
MCSteps == {-6, 0, 18, 42, 570}
MCDocumentedSteps == {0, 1234567}
=============================================================================
