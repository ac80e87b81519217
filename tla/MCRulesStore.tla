---------------------------- MODULE MCRulesStore ----------------------------
(* RulesStore with one timer for the console and two for the server.       *)
EXTENDS RulesStore

MCMaxTimers == [p \in {"console", "server"} |-> IF p = "console" THEN 1 ELSE 2]
=============================================================================
