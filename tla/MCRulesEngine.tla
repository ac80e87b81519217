--------------------------- MODULE MCRulesEngine ---------------------------
(* RulesEngine on a small rule book: one agent rule, two global rules, and *)
(* two groups of two and one rules.                                        *)
EXTENDS RulesEngine

MCAgentRules == <<"a1">>
MCGlobalRules == <<"g1", "g2">>
MCGroupRules == [n \in {"p", "q"} |-> IF n = "p" THEN <<"p1", "p2">> ELSE <<"q1", "q2">>]
MCStoreOrder == <<"p", "q">>
MCUuid == {"a1", "g1", "g2", "p1", "p2", "q1", "q2"}

MCActionLists ==
  {<<"set">>, <<"discard">>, <<"stop">>, <<"stop_rule_set">>, <<"discard", "set">>}
=============================================================================
