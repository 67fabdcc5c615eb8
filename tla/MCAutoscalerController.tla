---------------------- MODULE MCAutoscalerController -----------------------
(* Instances of AutoscalerController for TLC. *)
EXTENDS AutoscalerController, TLC

CONSTANTS n1, n2, n3, n4, r1, r2

\* The names that are not in use at the start are as good as each other, and so
\* are the goroutines.
Fresh == Permutations(Names \ AtStart) \cup Permutations(Routines)
============================================================================
