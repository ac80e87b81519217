--------------------------- MODULE MCInputAgents ---------------------------
(* InputAgents on a small instance. *)
EXTENDS InputAgents

MCOptions == [bg_expire : BOOLEAN, limit_expire_only : BOOLEAN]
=============================================================================
