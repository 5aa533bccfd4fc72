----------------------------- MODULE MCFileReader -----------------------------
(***************************************************************************)
(* Model values for FileReader's constants.                                *)
(***************************************************************************)
EXTENDS FileReaderProperties, TLC

CONSTANTS t1, t2, i1, i2, a, b

MCThreads == {t1, t2}
MCInodes == {i1, i2}
MCBlocks == {a, b}
=============================================================================
