--------------------------- MODULE MCTaskBarrier ---------------------------
(* Values of the constants of TaskBarrier for TLC. *)
EXTENDS TaskBarrier
CONSTANTS a1
=============================================================================
