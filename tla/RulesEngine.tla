---------------------------- MODULE RulesEngine ----------------------------
(***************************************************************************)
(* One event on its way through the rules (oa-event-rules): the agent's    *)
(* rule set, the agent's decision to discard, then on the server the       *)
(* global rule set and the groups in their order, and the server's         *)
(* decision to store.  Rules leave marks on the event (stop_id,            *)
(* stop_rule_set_id, discard_id, a negative severity, tracked matches)     *)
(* which decide what runs next and what becomes of the event.              *)
(*                                                                         *)
(* What is abstracted: whether a rule or a group selects the event, and    *)
(* what a rule's actions are, is chosen when it runs (a rule runs at most  *)
(* once per event); `set` stands for a write to the severity, `replace`    *)
(* and a `set` of another field leave no mark and are not distinguished    *)
(* from a rule without one; a severity is only negative or not.            *)
(***************************************************************************)
EXTENDS Integers, Sequences

CONSTANTS
  Uuid,         \* the rules
  GroupName,    \* the groups
  AgentRules, GlobalRules,  \* rule sets: sequences of rules
  GroupRules,   \* GroupRules[name]: the rule set of a group
  store_order,  \* the order of the groups
  ActionLists   \* the lists of actions a rule may have

Actions == {"set", "discard", "stop", "stop_rule_set"}

ASSUME RulesAssumption ==
  /\ AgentRules \in Seq(Uuid) /\ GlobalRules \in Seq(Uuid)
  /\ GroupRules \in [GroupName -> Seq(Uuid)]
  /\ store_order \in Seq(GroupName)
  /\ ActionLists \subseteq Seq(Actions)

VARIABLES
  phase,     \* what is running
  g,         \* the current group, an index into store_order
  at,        \* the next rule, an index into the current rule set
  ev,        \* the Event object
  outcome,   \* what became of the event
  log        \* history: the rules that were considered

vars == <<phase, g, at, ev, outcome, log>>

RulePhases == {"agent", "globals", "group"}

Phase == RulePhases \cup {"newalert", "select", "identify", "insert", "done"}

EventObject ==
  [severity : {-1, 0}, discard_id : BOOLEAN, stop_id : BOOLEAN,
   stop_rule_set_id : BOOLEAN, tracking : BOOLEAN, identified : BOOLEAN,
   current_matches : Seq(Uuid), global : Seq(Uuid),
   group : Seq([name : GroupName, matches : Seq(Uuid)])]

LogEntry ==
  [stage : RulePhases, group : Nat, rule : Uuid, matched : BOOLEAN,
   actions : ActionLists \cup {<<>>}, afterStop : BOOLEAN]

TypeOK ==
  /\ phase \in Phase
  /\ g \in 1..Len(store_order) + 1
  /\ at \in Nat \ {0}
  /\ ev \in EventObject
  /\ outcome \in {"none", "discarded", "dropped", "stored"}
  /\ log \in Seq(LogEntry)

\* A new Event object: no mark survives from another one.
generate(severity, tracking) ==
  [severity |-> severity, discard_id |-> FALSE, stop_id |-> FALSE,
   stop_rule_set_id |-> FALSE, tracking |-> tracking, identified |-> FALSE,
   current_matches |-> <<>>, global |-> <<>>, group |-> <<>>]

Init ==
  /\ phase = "agent"
  /\ g = 1
  /\ at = 1
  /\ ev = generate(0, FALSE)
  /\ outcome = "none"
  /\ log = <<>>

----------------------------------------------------------------------------
(* Rule, Action                                                            *)

Elems(s) == {s[k] : k \in 1..Len(s)}

\* The last action that writes the severity decides it.
SeverityAfter(severity, actions) ==
  LET writes == {k \in 1..Len(actions) : actions[k] \in {"set", "discard"}}
  IN IF writes = {} THEN severity
     ELSE IF \E k \in writes : actions[k] = "discard" /\ \A j \in writes : j <= k
     THEN -1 ELSE 0

\* Every action of a rule runs, whatever an earlier one of them marked.
Acted(e, actions) ==
  [e EXCEPT
     !.severity = SeverityAfter(@, actions),
     !.discard_id = @ \/ "discard" \in Elems(actions),
     !.stop_id = @ \/ "discard" \in Elems(actions) \/ "stop" \in Elems(actions),
     !.stop_rule_set_id = @ \/ "stop_rule_set" \in Elems(actions)]

add_matched(e, rule) ==
  IF e.tracking THEN [e EXCEPT !.current_matches = Append(@, rule)] ELSE e

\* Rule.run: a skipped rule or one whose select fails changes nothing.
RanRule(e, rule, matched, actions) ==
  IF matched THEN Acted(add_matched(e, rule), actions) ELSE e

----------------------------------------------------------------------------
(* RuleSet.run                                                             *)

\* The rule set of a stage, in a group the one of the k-th group.
RulesOf(stage, k) ==
  CASE stage = "agent" -> AgentRules
    [] stage = "globals" -> GlobalRules
    [] OTHER -> GroupRules[store_order[k]]

CurrentRules == RulesOf(phase, g)

\* Mutant: the mark of an earlier rule set is kept.
unstopNothing(e) == e

unstop_rule_set(e) == [e EXCEPT !.stop_rule_set_id = FALSE]

\* What is looked at after each rule of a set.
Breaks(e) == e.stop_id \/ e.stop_rule_set_id

\* The next rule of the set runs; then the set is left or goes on.
RunRule ==
  /\ phase \in RulePhases
  /\ at <= Len(CurrentRules)
  /\ \E matched \in BOOLEAN : \E actions \in (IF matched THEN ActionLists ELSE {<<>>}) :
       LET rule == CurrentRules[at]
           after == RanRule(ev, rule, matched, actions)
       IN /\ ev' = after
          /\ at' = IF Breaks(after) THEN Len(CurrentRules) + 1 ELSE at + 1
          /\ log' = Append(log, [stage |-> phase, group |-> g, rule |-> rule,
                                 matched |-> matched, actions |-> actions, afterStop |-> ev.stop_id])
  /\ UNCHANGED <<phase, g, outcome>>

SetIsOver == phase \in RulePhases /\ at > Len(CurrentRules)

----------------------------------------------------------------------------
(* The agent                                                               *)

EndAgentRules ==
  /\ phase = "agent" /\ SetIsOver
  /\ phase' = "newalert"
  /\ UNCHANGED <<g, at, ev, outcome, log>>

\* An event with a negative severity is discarded; any other is sent.
newalert ==
  /\ phase = "newalert"
  /\ IF ev.severity < 0
     THEN phase' = "done" /\ outcome' = "discarded" /\ UNCHANGED <<ev, at>>
     ELSE /\ phase' = "globals"
          /\ at' = 1
          /\ \E tracking \in BOOLEAN : ev' = unstop_rule_set(generate(ev.severity, tracking))
          /\ UNCHANGED outcome
  /\ UNCHANGED <<g, log>>

----------------------------------------------------------------------------
(* EventRules.run on the server                                            *)

\* Mutant: the matches are copied and not taken.
closeCopies(e) ==
  IF e.tracking THEN [e EXCEPT !.global = e.current_matches] ELSE e

close_matched_global(e) ==
  IF e.tracking /\ e.current_matches # <<>>
  THEN [e EXCEPT !.global = e.current_matches, !.current_matches = <<>>] ELSE e

close_matched_group(e, name) ==
  IF e.tracking
  THEN [e EXCEPT !.group = Append(@, [name |-> name, matches |-> e.current_matches]),
                 !.current_matches = <<>>]
  ELSE e

EndGlobals ==
  /\ phase = "globals" /\ SetIsOver
  /\ ev' = close_matched_global(ev)
  /\ phase' = "select"
  /\ UNCHANGED <<g, at, outcome, log>>

\* Mutant: the groups go on whatever a rule marked.
RunOn(e) ==
  /\ phase' = "select"
  /\ g' = g + 1

\* Groups.run looks at stop_id after each group, selected or not.
NextGroup(e) ==
  /\ phase' = IF e.stop_id THEN "identify" ELSE "select"
  /\ g' = IF e.stop_id THEN g ELSE g + 1

\* Group.run: the select decides whether the rules of the group run.
SelectGroup ==
  /\ phase = "select" /\ g <= Len(store_order)
  /\ \/ /\ phase' = "group"
        /\ at' = 1
        /\ ev' = unstop_rule_set(ev)
        /\ UNCHANGED g
     \/ NextGroup(ev) /\ UNCHANGED <<at, ev>>
  /\ UNCHANGED <<outcome, log>>

EndGroup ==
  /\ phase = "group" /\ SetIsOver
  /\ ev' = close_matched_group(ev, store_order[g])
  /\ NextGroup(ev)
  /\ UNCHANGED <<at, outcome, log>>

EndGroups ==
  /\ phase = "select" /\ g > Len(store_order)
  /\ phase' = "identify"
  /\ UNCHANGED <<g, at, ev, outcome, log>>

populate_identifier ==
  /\ phase = "identify"
  /\ ev' = [ev EXCEPT !.identified = TRUE]
  /\ phase' = "insert"
  /\ UNCHANGED <<g, at, outcome, log>>

\* Mutant: the server looks at the severity, as the agent does.
DiscardedBySeverity(e) == e.severity < 0

discarded(e) == e.discard_id

insertevent ==
  /\ phase = "insert"
  /\ outcome' = IF discarded(ev) THEN "dropped" ELSE "stored"
  /\ phase' = "done"
  /\ UNCHANGED <<g, at, ev, log>>

Next ==
  \/ RunRule
  \/ EndAgentRules \/ newalert
  \/ EndGlobals \/ SelectGroup \/ EndGroup \/ EndGroups
  \/ populate_identifier \/ insertevent

Spec == Init /\ [][Next]_vars

----------------------------------------------------------------------------
(* Properties                                                              *)

\* "Discards" mean what they say on the server: an event that any server rule
\* discarded is not stored, whatever rules ran after it and whatever they wrote.
DiscardedIsDropped ==
  \A k \in 1..Len(log) :
    log[k].stage # "agent" /\ "discard" \in Elems(log[k].actions) => outcome # "stored"

\* After a stop or a discard at most one more rule of the whole rule book runs.
AtMostOneAfterStop ==
  \A j, k \in 1..Len(log) : log[j].afterStop /\ log[k].afterStop => j = k

\* "This stops processing for the current ruleset, but will continue to the
\* next" (action.ts:547): a rule set is left before its last rule only if the rule
\* it was left after stopped it, or the event had been stopped before.
CutShortByOwnRule ==
  \A k \in 1..Len(log) :
    LET entry == log[k]
        rules == RulesOf(entry.stage, entry.group)
        setLeft == IF k < Len(log)
                   THEN log[k + 1].stage # entry.stage \/ log[k + 1].group # entry.group
                   ELSE SetIsOver
    IN setLeft =>
         \/ entry.rule = rules[Len(rules)]
         \/ entry.afterStop
         \/ {"stop", "discard", "stop_rule_set"} \cap Elems(entry.actions) # {}

\* With tracking on, a match is recorded under the rule set it belongs to:
\* none of a global rule's matches end up with a group, nor one group's with
\* another.
MatchesAttributed ==
  /\ Elems(ev.global) \subseteq Elems(GlobalRules)
  /\ \A k \in 1..Len(ev.group) :
       Elems(ev.group[k].matches) \subseteq Elems(GroupRules[ev.group[k].name])
=============================================================================
