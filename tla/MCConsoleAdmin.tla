--------------------------- MODULE MCConsoleAdmin ---------------------------
(* ConsoleAdmin on a small instance: two users of two initial views each,  *)
(* three requests; two schedules and two rules; days of six minutes.       *)
EXTENDS ConsoleAdmin

\* Requests are interchangeable.
Symmetry == Permutations(Request)
=============================================================================
