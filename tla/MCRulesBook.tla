---------------------------- MODULE MCRulesBook ----------------------------
(* RulesBook on two files: one whose `_order` names a group that is gone,  *)
(* and one whose `_order` misses a group.                                  *)
EXTENDS RulesBook

MCGroup(n, u) == [name |-> n, uuid |-> u, select |-> "some"]

MCDocuments ==
  {[keys |-> <<"p", "q">>, _order |-> <<"q", "x", "p">>,
    groups |-> [n \in {"p", "q"} |-> MCGroup(n, IF n = "p" THEN 1 ELSE 2)],
    rules |-> [b \in {"server", "agent"} |-> IF b = "server" THEN <<"r1", "r2">> ELSE <<"r1">>]],
   [keys |-> <<"x", "p">>, _order |-> <<"p">>,
    groups |-> [n \in {"x", "p"} |-> MCGroup(n, IF n = "x" THEN 2 ELSE 1)],
    rules |-> [b \in {"server", "agent"} |-> IF b = "server" THEN <<"r2", "r3">> ELSE <<"r3", "r1">>]]}
=============================================================================
