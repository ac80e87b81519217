--------------------------- MODULE MCConsoleFeed ---------------------------
(* Two filters, {} and one that a cleared event leaves.                     *)
EXTENDS ConsoleFeed

MCMatches == [f \in Filter |-> IF f = AllFilter THEN Kind ELSE Kind \ {Cleared}]
=============================================================================
