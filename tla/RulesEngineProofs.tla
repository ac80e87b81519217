------------------------- MODULE RulesEngineProofs -------------------------
(***************************************************************************)
(* Proofs about RulesEngine, for every rule book: any rules, any groups in *)
(* any order, any lists of actions.                                        *)
(***************************************************************************)
EXTENDS RulesEngine, TLAPS

\* A group is only run inside the order.
GroupInOrder == phase = "group" => g <= Len(store_order)

\* Once a rule has run after a stop, no set is left to run: the current one has
\* been left and the event is on its way out.
StopEndsRules ==
  /\ ~(\E k \in 1..Len(log) : log[k].afterStop) \/
       /\ phase \in {"group", "identify", "insert", "done"}
       /\ ev.stop_id
       /\ phase = "group" => at > Len(GroupRules[store_order[g]])
  /\ phase \in {"agent", "globals"} /\ ev.stop_id => at > Len(CurrentRules)

\* What the server rules discarded is marked on the event until it is inserted.
DiscardIsMarked ==
  /\ \A k \in 1..Len(log) :
       log[k].stage # "agent" /\ "discard" \in Elems(log[k].actions) =>
         ev.discard_id /\ phase \notin {"agent", "newalert"}
  /\ outcome = "stored" => phase = "done" /\ ~ev.discard_id

\* The matches that are not yet recorded belong to the set that is running.
CurrentAttributed ==
  /\ phase = "globals" => Elems(ev.current_matches) \subseteq Elems(GlobalRules)
  /\ phase = "group" =>
       Elems(ev.current_matches) \subseteq Elems(GroupRules[store_order[g]])
  /\ phase \notin {"globals", "group"} => ev.current_matches = <<>>
  /\ ~ev.tracking => ev.current_matches = <<>>
  /\ phase \in {"agent", "newalert"} => ~ev.tracking

IInv ==
  /\ TypeOK /\ GroupInOrder
  /\ AtMostOneAfterStop /\ StopEndsRules
  /\ DiscardIsMarked
  /\ MatchesAttributed /\ CurrentAttributed

----------------------------------------------------------------------------
(* Facts about the operators                                               *)

\* Appending an element adds it to the elements of a sequence.
LEMMA ElemsAppend ==
  ASSUME NEW T, NEW s \in Seq(T), NEW e \in T
  PROVE  Elems(Append(s, e)) = Elems(s) \cup {e}
<1>1. Append(s, e) \in Seq(T) /\ Len(Append(s, e)) = Len(s) + 1
  OBVIOUS
<1>2. \A k \in 1..Len(s) : Append(s, e)[k] = s[k]
  OBVIOUS
<1>3. Append(s, e)[Len(s) + 1] = e
  OBVIOUS
<1>4. 1..(Len(s) + 1) = 1..Len(s) \cup {Len(s) + 1} /\ Len(s) \in Nat
  OBVIOUS
<1> QED
  BY <1>1, <1>2, <1>3, <1>4 DEF Elems

LEMMA ElemsEmpty == Elems(<<>>) = {}
BY DEF Elems

\* The rule set of a stage is a sequence of rules.
LEMMA RulesOfType ==
  ASSUME NEW stage \in RulePhases, NEW k \in Nat,
         stage = "group" => k \in 1..Len(store_order)
  PROVE  RulesOf(stage, k) \in Seq(Uuid)
<1>1. CASE stage = "group"
  <2>1. store_order[k] \in GroupName
    BY <1>1, RulesAssumption
  <2> QED
    BY <1>1, <2>1, RulesAssumption DEF RulesOf
<1>2. CASE stage # "group"
  BY <1>2, RulesAssumption DEF RulesOf, RulePhases
<1> QED
  BY <1>1, <1>2

\* A rule leaves a well-typed event, and never clears a stop or a discard.
LEMMA RanRuleType ==
  ASSUME NEW e \in EventObject, NEW rule \in Uuid, NEW matched \in BOOLEAN,
         NEW actions \in ActionLists \cup {<<>>}
  PROVE  /\ RanRule(e, rule, matched, actions) \in EventObject
         /\ e.stop_id => RanRule(e, rule, matched, actions).stop_id
         /\ e.discard_id => RanRule(e, rule, matched, actions).discard_id
         /\ matched /\ "discard" \in Elems(actions) =>
              RanRule(e, rule, matched, actions).discard_id
         /\ RanRule(e, rule, matched, actions).global = e.global
         /\ RanRule(e, rule, matched, actions).group = e.group
         /\ RanRule(e, rule, matched, actions).tracking = e.tracking
         /\ RanRule(e, rule, matched, actions).current_matches =
              IF matched /\ e.tracking THEN Append(e.current_matches, rule)
              ELSE e.current_matches
<1>1. SeverityAfter(e.severity, actions) \in {-1, 0}
  BY DEF SeverityAfter, EventObject
<1>2. add_matched(e, rule) \in EventObject
  <2>1. Append(e.current_matches, rule) \in Seq(Uuid)
    BY DEF EventObject
  <2> QED
    BY <2>1 DEF add_matched, EventObject
<1>3. add_matched(e, rule).severity = e.severity
  BY DEF add_matched, EventObject
<1>4. Acted(add_matched(e, rule), actions) \in EventObject
  BY <1>1, <1>2, <1>3 DEF Acted, EventObject
<1> QED
  BY <1>2, <1>4 DEF RanRule, Acted, add_matched, EventObject

----------------------------------------------------------------------------
THEOREM InitIInv == Init => IInv
BY RulesAssumption
DEF Init, IInv, TypeOK, GroupInOrder, AtMostOneAfterStop, StopEndsRules, DiscardIsMarked,
    MatchesAttributed, CurrentAttributed, generate, EventObject, Phase, RulePhases, LogEntry,
    Elems

\* A rule runs.
LEMMA RunRuleStep ==
  ASSUME IInv, RunRule
  PROVE  IInv'
<1> USE DEF IInv
<1>1. PICK matched \in BOOLEAN, actions \in ActionLists \cup {<<>>} :
        /\ matched \/ actions = <<>>
        /\ ev' = RanRule(ev, CurrentRules[at], matched, actions)
        /\ at' = IF Breaks(ev') THEN Len(CurrentRules) + 1 ELSE at + 1
        /\ log' = Append(log, [stage |-> phase, group |-> g, rule |-> CurrentRules[at],
                               matched |-> matched, actions |-> actions,
                               afterStop |-> ev.stop_id])
  BY DEF RunRule
<1>2. phase \in RulePhases /\ at <= Len(CurrentRules) /\ UNCHANGED <<phase, g, outcome>>
  BY DEF RunRule
<1>3. g \in 1..Len(store_order) + 1 /\ at \in Nat \ {0} /\ ev \in EventObject /\ log \in Seq(LogEntry)
  BY DEF TypeOK
<1>4. Len(store_order) \in Nat
  BY RulesAssumption
<1>5. CurrentRules \in Seq(Uuid)
  BY <1>2, <1>3, <1>4, RulesOfType DEF CurrentRules, GroupInOrder
<1>6. CurrentRules[at] \in Uuid /\ CurrentRules[at] \in Elems(CurrentRules)
  BY <1>2, <1>3, <1>5 DEF Elems
<1> DEFINE rule == CurrentRules[at]
           entry == [stage |-> phase, group |-> g, rule |-> rule, matched |-> matched,
                     actions |-> actions, afterStop |-> ev.stop_id]
<1> HIDE DEF rule
<1>7. rule \in Uuid /\ rule \in Elems(CurrentRules)
  BY <1>6 DEF rule
<1>8. entry \in LogEntry
  BY <1>2, <1>3, <1>4, <1>7 DEF LogEntry, EventObject
<1>9. /\ ev' = RanRule(ev, rule, matched, actions)
      /\ log' = Append(log, entry)
  BY <1>1 DEF rule
<1>10. /\ ev' \in EventObject
       /\ ev.stop_id => ev'.stop_id
       /\ ev.discard_id => ev'.discard_id
       /\ matched /\ "discard" \in Elems(actions) => ev'.discard_id
       /\ ev'.global = ev.global /\ ev'.group = ev.group
       /\ ev'.tracking = ev.tracking
       /\ ev'.current_matches = IF matched /\ ev.tracking THEN Append(ev.current_matches, rule)
                                ELSE ev.current_matches
  BY <1>3, <1>7, <1>9, RanRuleType
<1> HIDE DEF entry
<1>11. /\ Len(log') = Len(log) + 1
       /\ \A k \in 1..Len(log) : log'[k] = log[k]
       /\ log'[Len(log) + 1] = entry
  BY <1>3, <1>8, <1>9
<1>12. TypeOK'
  <2>1. at' \in Nat \ {0}
    BY <1>1, <1>3, <1>5
  <2>2. log' \in Seq(LogEntry)
    BY <1>3, <1>8, <1>9
  <2> QED
    BY <1>2, <1>10, <2>1, <2>2 DEF TypeOK
<1>13. GroupInOrder'
  BY <1>2 DEF GroupInOrder
<1>14. entry.afterStop = ev.stop_id /\ entry.stage = phase /\ entry.actions = actions
  BY DEF entry
<1>15. /\ ev.stop_id => phase = "group"
       /\ ~(\E k \in 1..Len(log) : log[k].afterStop)
  BY <1>2, <1>3, <1>5 DEF StopEndsRules, CurrentRules, RulePhases, RulesOf
<1>16. AtMostOneAfterStop'
  BY <1>3, <1>11, <1>15 DEF AtMostOneAfterStop
<1>17. ev'.stop_id => at' > Len(CurrentRules)
  BY <1>1, <1>5 DEF Breaks
<1>18. CurrentRules' = CurrentRules
  BY <1>2 DEF CurrentRules, RulesOf
<1>19. phase = "group" => CurrentRules = GroupRules[store_order[g]]
  BY DEF CurrentRules, RulesOf
<1>20. StopEndsRules'
  BY <1>2, <1>3, <1>10, <1>11, <1>14, <1>15, <1>17, <1>18, <1>19 DEF StopEndsRules
<1>21. DiscardIsMarked'
  <2>1. actions = <<>> => "discard" \notin Elems(actions)
    BY DEF Elems
  <2> QED
    BY <1>1, <1>2, <1>3, <1>10, <1>11, <1>14, <2>1 DEF DiscardIsMarked, TypeOK, RulePhases
<1>22. MatchesAttributed'
  BY <1>10 DEF MatchesAttributed
<1>23. Elems(ev'.current_matches) \subseteq Elems(ev.current_matches) \cup {rule}
  <2>1. ev.current_matches \in Seq(Uuid)
    BY <1>3 DEF EventObject
  <2> QED
    BY <1>7, <1>10, <2>1, ElemsAppend
<1>24. CurrentAttributed'
  <2>1. phase = "globals" => CurrentRules = GlobalRules
    BY DEF CurrentRules, RulesOf
  <2>2. phase = "agent" => ev'.current_matches = <<>>
    BY <1>10 DEF CurrentAttributed
  <2> QED
    BY <1>2, <1>7, <1>10, <1>19, <1>23, <2>1, <2>2 DEF CurrentAttributed, RulePhases
<1> QED
  BY <1>12, <1>13, <1>16, <1>20, <1>21, <1>22, <1>24

\* The agent's rule set is over, and the agent decides.
LEMMA AgentStep ==
  ASSUME IInv, EndAgentRules \/ newalert
  PROVE  IInv'
<1> USE DEF IInv
<1>1. CASE EndAgentRules
  BY <1>1
  DEF EndAgentRules, TypeOK, Phase, RulePhases, GroupInOrder, AtMostOneAfterStop,
      StopEndsRules, DiscardIsMarked, MatchesAttributed, CurrentAttributed
<1>2. CASE newalert
  <2>1. phase = "newalert" /\ UNCHANGED <<g, log>>
    BY <1>2 DEF newalert
  <2>2. ~(\E k \in 1..Len(log) : log[k].afterStop)
    BY <2>1 DEF StopEndsRules
  <2>3. \A k \in 1..Len(log) :
          ~(log[k].stage # "agent" /\ "discard" \in Elems(log[k].actions))
    BY <2>1 DEF DiscardIsMarked
  <2>4. CASE phase' = "done" /\ outcome' = "discarded" /\ UNCHANGED <<ev, at>>
    BY <2>1, <2>2, <2>3, <2>4
    DEF TypeOK, Phase, GroupInOrder, AtMostOneAfterStop, StopEndsRules, DiscardIsMarked,
        MatchesAttributed, CurrentAttributed
  <2>5. ASSUME NEW tracking \in BOOLEAN,
               phase' = "globals", at' = 1, UNCHANGED outcome,
               ev' = unstop_rule_set(generate(ev.severity, tracking))
        PROVE  IInv'
    <3>1. ev' \in EventObject
      <4>1. ev.severity \in {-1, 0}
        BY DEF TypeOK, EventObject
      <4>2. <<>> \in Seq(Uuid) /\ <<>> \in Seq([name : GroupName, matches : Seq(Uuid)])
        OBVIOUS
      <4>3. generate(ev.severity, tracking) \in EventObject
        BY <4>1, <4>2 DEF generate, EventObject
      <4> QED
        BY <2>5, <4>3 DEF unstop_rule_set, EventObject
    <3>2. /\ ~ev'.stop_id /\ ev'.current_matches = <<>>
          /\ ev'.global = <<>> /\ ev'.group = <<>>
      BY <2>5 DEF generate, unstop_rule_set
    <3>3. TypeOK'
      BY <2>1, <2>5, <3>1 DEF TypeOK, Phase, RulePhases
    <3>4. StopEndsRules' /\ AtMostOneAfterStop' /\ GroupInOrder'
      BY <2>1, <2>2, <2>5, <3>2 DEF StopEndsRules, AtMostOneAfterStop, GroupInOrder
    <3>5. DiscardIsMarked'
      BY <2>1, <2>3, <2>5 DEF DiscardIsMarked
    <3>6. MatchesAttributed' /\ CurrentAttributed'
      BY <2>5, <3>2, ElemsEmpty DEF MatchesAttributed, CurrentAttributed
    <3> QED
      BY <3>3, <3>4, <3>5, <3>6
  <2> QED
    BY <1>2, <2>4, <2>5 DEF newalert
<1> QED
  BY <1>1, <1>2

\* The server leaves the global rules.
LEMMA EndGlobalsStep ==
  ASSUME IInv, EndGlobals
  PROVE  IInv'
<1> USE DEF IInv
<1>1. /\ phase = "globals" /\ phase' = "select"
      /\ ev' = close_matched_global(ev) /\ UNCHANGED <<g, at, outcome, log>>
  BY DEF EndGlobals
<1>2. /\ ev' \in EventObject
      /\ ev'.stop_id = ev.stop_id /\ ev'.discard_id = ev.discard_id
      /\ ev'.group = ev.group /\ ev'.tracking = ev.tracking
      /\ ev'.current_matches = <<>>
      /\ ev'.global \in {ev.global, ev.current_matches}
  <2>1. ev \in EventObject /\ (~ev.tracking => ev.current_matches = <<>>)
    BY DEF TypeOK, CurrentAttributed
  <2>2. <<>> \in Seq(Uuid) /\ ev.current_matches \in Seq(Uuid)
    BY <2>1 DEF EventObject
  <2>3. CASE ev.tracking /\ ev.current_matches # <<>>
    <3>1. ev' = [ev EXCEPT !.global = ev.current_matches, !.current_matches = <<>>]
      BY <1>1, <2>3 DEF close_matched_global
    <3> QED
      BY <2>1, <2>2, <3>1 DEF EventObject
  <2>4. CASE ~(ev.tracking /\ ev.current_matches # <<>>)
    BY <1>1, <2>1, <2>4 DEF close_matched_global
  <2> QED
    BY <2>3, <2>4
<1>3. TypeOK' /\ GroupInOrder'
  BY <1>1, <1>2 DEF TypeOK, Phase, GroupInOrder
<1>4. AtMostOneAfterStop' /\ StopEndsRules' /\ DiscardIsMarked'
  BY <1>1, <1>2 DEF AtMostOneAfterStop, StopEndsRules, DiscardIsMarked
<1>5. MatchesAttributed' /\ CurrentAttributed'
  BY <1>1, <1>2 DEF MatchesAttributed, CurrentAttributed
<1> QED
  BY <1>3, <1>4, <1>5

\* A group is selected, or not.
LEMMA SelectGroupStep ==
  ASSUME IInv, SelectGroup
  PROVE  IInv'
<1> USE DEF IInv
<1>1. phase = "select" /\ g <= Len(store_order) /\ UNCHANGED <<outcome, log>>
  BY DEF SelectGroup
<1>2. ~(\E k \in 1..Len(log) : log[k].afterStop)
  BY <1>1 DEF StopEndsRules
<1>3. Len(store_order) \in Nat /\ g \in 1..Len(store_order) + 1
  BY RulesAssumption DEF TypeOK
<1>4. CASE phase' = "group" /\ at' = 1 /\ ev' = unstop_rule_set(ev) /\ UNCHANGED g
  <2>1. /\ ev' \in EventObject
        /\ ev'.discard_id = ev.discard_id /\ ev'.global = ev.global
        /\ ev'.group = ev.group /\ ev'.tracking = ev.tracking
        /\ ev'.current_matches = <<>>
    BY <1>1, <1>4 DEF unstop_rule_set, TypeOK, EventObject, CurrentAttributed
  <2>2. TypeOK' /\ GroupInOrder'
    BY <1>1, <1>3, <1>4, <2>1 DEF TypeOK, Phase, RulePhases, GroupInOrder
  <2>3. AtMostOneAfterStop' /\ StopEndsRules' /\ DiscardIsMarked'
    BY <1>1, <1>2, <1>4, <2>1 DEF AtMostOneAfterStop, StopEndsRules, DiscardIsMarked
  <2>4. MatchesAttributed' /\ CurrentAttributed'
    BY <1>1, <1>4, <2>1, ElemsEmpty DEF MatchesAttributed, CurrentAttributed
  <2> QED
    BY <2>2, <2>3, <2>4
<1>5. CASE NextGroup(ev) /\ UNCHANGED <<at, ev>>
  <2>1. TypeOK' /\ GroupInOrder'
    BY <1>1, <1>3, <1>5 DEF NextGroup, TypeOK, Phase, GroupInOrder
  <2>2. AtMostOneAfterStop' /\ StopEndsRules' /\ DiscardIsMarked'
    BY <1>1, <1>2, <1>5 DEF NextGroup, AtMostOneAfterStop, StopEndsRules, DiscardIsMarked
  <2>3. MatchesAttributed' /\ CurrentAttributed'
    BY <1>1, <1>5 DEF NextGroup, MatchesAttributed, CurrentAttributed
  <2> QED
    BY <2>1, <2>2, <2>3
<1> QED
  BY <1>4, <1>5 DEF SelectGroup

\* The rules of a group are over.
LEMMA EndGroupStep ==
  ASSUME IInv, EndGroup
  PROVE  IInv'
<1> USE DEF IInv
<1>1. /\ phase = "group" /\ NextGroup(ev)
      /\ ev' = close_matched_group(ev, store_order[g]) /\ UNCHANGED <<at, outcome, log>>
  BY DEF EndGroup
<1>2. Len(store_order) \in Nat /\ g \in 1..Len(store_order)
  BY <1>1, RulesAssumption DEF TypeOK, GroupInOrder
<1> DEFINE entry == [name |-> store_order[g], matches |-> ev.current_matches]
<1>3. entry \in [name : GroupName, matches : Seq(Uuid)]
  BY <1>2, RulesAssumption DEF TypeOK, EventObject
<1>4. /\ ev' \in EventObject
      /\ ev'.stop_id = ev.stop_id /\ ev'.discard_id = ev.discard_id
      /\ ev'.global = ev.global /\ ev'.tracking = ev.tracking
      /\ ev'.current_matches = <<>>
      /\ ev'.group \in {ev.group, Append(ev.group, entry)}
  <2>1. Append(ev.group, entry) \in Seq([name : GroupName, matches : Seq(Uuid)])
    BY <1>3 DEF TypeOK, EventObject
  <2>2. ev \in EventObject /\ <<>> \in Seq(Uuid)
    BY DEF TypeOK
  <2>3. CASE ev.tracking
    <3>1. ev' = [ev EXCEPT !.group = Append(@, entry), !.current_matches = <<>>]
      BY <1>1, <2>3 DEF close_matched_group
    <3> HIDE DEF entry
    <3> QED
      BY <2>1, <2>2, <3>1 DEF EventObject
  <2>4. CASE ~ev.tracking
    BY <1>1, <2>2, <2>4 DEF close_matched_group, CurrentAttributed
  <2> QED
    BY <2>3, <2>4
<1>5. TypeOK' /\ GroupInOrder'
  BY <1>1, <1>2, <1>4 DEF NextGroup, TypeOK, Phase, GroupInOrder
<1>6. AtMostOneAfterStop' /\ DiscardIsMarked'
  BY <1>1, <1>4 DEF NextGroup, AtMostOneAfterStop, DiscardIsMarked
<1>7. StopEndsRules'
  BY <1>1, <1>4 DEF NextGroup, StopEndsRules
<1>8. MatchesAttributed'
  <2>1. Elems(entry.matches) \subseteq Elems(GroupRules[entry.name])
    BY <1>1 DEF CurrentAttributed
  <2> HIDE DEF entry
  <2>2. \A k \in 1..Len(ev'.group) :
          ev'.group[k] = entry \/ (k \in 1..Len(ev.group) /\ ev'.group[k] = ev.group[k])
    <3>1. ev.group \in Seq([name : GroupName, matches : Seq(Uuid)])
      BY DEF TypeOK, EventObject
    <3>2. \A k \in 1..Len(Append(ev.group, entry)) :
            \/ Append(ev.group, entry)[k] = entry
            \/ k \in 1..Len(ev.group) /\ Append(ev.group, entry)[k] = ev.group[k]
      BY <1>3, <3>1
    <3> QED
      BY <1>4, <3>2
  <2> QED
    BY <1>4, <2>1, <2>2 DEF MatchesAttributed
<1>9. CurrentAttributed'
  BY <1>1, <1>4 DEF NextGroup, CurrentAttributed
<1> QED
  BY <1>5, <1>6, <1>7, <1>8, <1>9

\* The rules are over: the event is identified and inserted, or dropped.
LEMMA LastStep ==
  ASSUME IInv, EndGroups \/ populate_identifier \/ insertevent
  PROVE  IInv'
<1> USE DEF IInv
<1>1. CASE EndGroups
  BY <1>1
  DEF EndGroups, TypeOK, Phase, GroupInOrder, AtMostOneAfterStop, StopEndsRules,
      DiscardIsMarked, MatchesAttributed, CurrentAttributed
<1>2. CASE populate_identifier
  <2>1. /\ phase = "identify" /\ phase' = "insert" /\ UNCHANGED <<g, at, outcome, log>>
        /\ ev' = [ev EXCEPT !.identified = TRUE]
    BY <1>2 DEF populate_identifier
  <2>2. /\ ev' \in EventObject
        /\ ev'.stop_id = ev.stop_id /\ ev'.discard_id = ev.discard_id
        /\ ev'.global = ev.global /\ ev'.group = ev.group
        /\ ev'.tracking = ev.tracking /\ ev'.current_matches = ev.current_matches
    BY <2>1 DEF TypeOK, EventObject
  <2>3. TypeOK' /\ GroupInOrder'
    BY <2>1, <2>2 DEF TypeOK, Phase, GroupInOrder
  <2>4. AtMostOneAfterStop' /\ StopEndsRules' /\ DiscardIsMarked'
    BY <2>1, <2>2 DEF AtMostOneAfterStop, StopEndsRules, DiscardIsMarked
  <2>5. MatchesAttributed' /\ CurrentAttributed'
    BY <2>1, <2>2 DEF MatchesAttributed, CurrentAttributed
  <2> QED
    BY <2>3, <2>4, <2>5
<1>3. CASE insertevent
  BY <1>3
  DEF insertevent, discarded, TypeOK, Phase, GroupInOrder, AtMostOneAfterStop, StopEndsRules,
      DiscardIsMarked, MatchesAttributed, CurrentAttributed
<1> QED
  BY <1>1, <1>2, <1>3

THEOREM IInvInductive == IInv /\ [Next]_vars => IInv'
<1> SUFFICES ASSUME IInv, [Next]_vars PROVE IInv'
  OBVIOUS
<1>1. CASE UNCHANGED vars
  BY <1>1
  DEF vars, IInv, TypeOK, GroupInOrder, AtMostOneAfterStop, StopEndsRules, DiscardIsMarked,
      MatchesAttributed, CurrentAttributed, CurrentRules, RulesOf
<1> QED
  BY <1>1, RunRuleStep, AgentStep, EndGlobalsStep, SelectGroupStep, EndGroupStep, LastStep
  DEF Next

THEOREM IInvAlways == Spec => []IInv
BY InitIInv, IInvInductive, PTL DEF Spec

----------------------------------------------------------------------------
\* Every reachable state is well-typed, for any rule book.
THEOREM RulesTypeCorrect == Spec => []TypeOK
<1>1. IInv => TypeOK
  BY DEF IInv
<1> QED
  BY <1>1, IInvAlways, PTL

\* After a stop or a discard at most one more rule runs, for any rule book.
THEOREM StopIsBounded == Spec => []AtMostOneAfterStop
<1>1. IInv => AtMostOneAfterStop
  BY DEF IInv
<1> QED
  BY <1>1, IInvAlways, PTL

\* What a server rule discards is never stored, whatever runs after it.
THEOREM DiscardIsFinalOnServer == Spec => []DiscardedIsDropped
<1>1. IInv => DiscardedIsDropped
  BY DEF IInv, DiscardIsMarked, DiscardedIsDropped
<1> QED
  BY <1>1, IInvAlways, PTL

\* Matches are recorded under their own rule set, for any rule book.
THEOREM TrackingAttribution == Spec => []MatchesAttributed
<1>1. IInv => MatchesAttributed
  BY DEF IInv
<1> QED
  BY <1>1, IInvAlways, PTL
----------------------------------------------------------------------------
(* Rule sets are not cut short by a mark of another set                    *)

\* A rule after which its set may be left.
MayBeLastOf(entry) ==
  LET rules == RulesOf(entry.stage, entry.group)
  IN \/ entry.rule = rules[Len(rules)]
     \/ entry.afterStop
     \/ {"stop", "discard", "stop_rule_set"} \cap Elems(entry.actions) # {}

\* The set is still running after the last rule that was considered.
SetGoesOn ==
  /\ phase \in RulePhases /\ at <= Len(CurrentRules)
  /\ log[Len(log)].stage = phase /\ log[Len(log)].group = g

\* A set that is still to run carries no mark of the set before it; a set that
\* the log has left, or is about to leave, may be left there.
CutInv ==
  /\ phase \in RulePhases /\ at <= Len(CurrentRules) => ~ev.stop_rule_set_id
  /\ \A k \in 1..Len(log) :
       k < Len(log) /\ (log[k + 1].stage # log[k].stage \/ log[k + 1].group # log[k].group)
         => MayBeLastOf(log[k])
  /\ log # <<>> => MayBeLastOf(log[Len(log)]) \/ SetGoesOn

\* A rule sets no mark but those its actions stand for.
LEMMA RanRuleMarks ==
  ASSUME NEW e \in EventObject, NEW rule \in Uuid, NEW matched \in BOOLEAN,
         NEW actions \in ActionLists \cup {<<>>},
         Breaks(RanRule(e, rule, matched, actions))
  PROVE  \/ e.stop_id \/ e.stop_rule_set_id
         \/ {"stop", "discard", "stop_rule_set"} \cap Elems(actions) # {}
BY DEF Breaks, RanRule, Acted, add_matched, EventObject

\* A rule that runs continues the set of the last one, or that set may be left.
LEMMA CutRunRule ==
  ASSUME IInv, CutInv, RunRule
  PROVE  CutInv'
<1>1. PICK matched \in BOOLEAN, actions \in ActionLists \cup {<<>>} :
        /\ ev' = RanRule(ev, CurrentRules[at], matched, actions)
        /\ at' = IF Breaks(ev') THEN Len(CurrentRules) + 1 ELSE at + 1
        /\ log' = Append(log, [stage |-> phase, group |-> g, rule |-> CurrentRules[at],
                               matched |-> matched, actions |-> actions,
                               afterStop |-> ev.stop_id])
  BY DEF RunRule
<1>2. phase \in RulePhases /\ at <= Len(CurrentRules) /\ UNCHANGED <<phase, g>>
  BY DEF RunRule
<1>3. /\ g \in 1..Len(store_order) + 1 /\ at \in Nat \ {0} /\ ev \in EventObject
      /\ log \in Seq(LogEntry) /\ (phase = "group" => g <= Len(store_order))
  BY DEF IInv, TypeOK, GroupInOrder
<1>4. CurrentRules \in Seq(Uuid)
  BY <1>2, <1>3, RulesAssumption, RulesOfType DEF CurrentRules
<1>5. CurrentRules' = CurrentRules
  BY <1>2 DEF CurrentRules, RulesOf
<1> DEFINE rule == CurrentRules[at]
           entry == [stage |-> phase, group |-> g, rule |-> rule, matched |-> matched,
                     actions |-> actions, afterStop |-> ev.stop_id]
<1>6. rule \in Uuid
  BY <1>2, <1>3, <1>4
<1>7. entry \in LogEntry
  BY <1>2, <1>3, <1>6, RulesAssumption DEF LogEntry, EventObject
<1>8. /\ entry.stage = phase /\ entry.group = g /\ entry.rule = rule
      /\ entry.actions = actions /\ entry.afterStop = ev.stop_id
  OBVIOUS
<1>9. log' = Append(log, entry)
  BY <1>1
<1>10. Breaks(ev') => MayBeLastOf(entry)
  <2>1. ~ev.stop_rule_set_id
    BY <1>2 DEF CutInv
  <2>2. Breaks(ev') => ev.stop_id \/ {"stop", "discard", "stop_rule_set"} \cap Elems(actions) # {}
    BY <1>1, <1>3, <1>6, <2>1, RanRuleMarks
  <2> QED
    BY <1>8, <2>2 DEF MayBeLastOf
<1>11. at = Len(CurrentRules) => MayBeLastOf(entry)
  BY <1>8 DEF MayBeLastOf, CurrentRules
<1> HIDE DEF rule, entry
<1>12. /\ log' # <<>> /\ Len(log') = Len(log) + 1 /\ Len(log) \in Nat
       /\ \A k \in 1..Len(log) : log'[k] = log[k]
       /\ log'[Len(log')] = entry
  BY <1>3, <1>7, <1>9
<1>13. phase' \in RulePhases /\ at' <= Len(CurrentRules') => ~ev'.stop_rule_set_id
  BY <1>1, <1>4, <1>5 DEF Breaks
<1>14. ASSUME NEW k \in 1..Len(log'), k < Len(log'),
              log'[k + 1].stage # log'[k].stage \/ log'[k + 1].group # log'[k].group
       PROVE  MayBeLastOf(log'[k])
  <2>1. k \in 1..Len(log) /\ log'[k] = log[k]
    BY <1>12, <1>14
  <2>2. CASE k < Len(log)
    <3>1. k + 1 \in 1..Len(log) /\ log'[k + 1] = log[k + 1]
      BY <1>12, <2>1, <2>2
    <3> QED
      BY <1>14, <2>1, <2>2, <3>1 DEF CutInv
  <2>3. CASE k = Len(log)
    <3>1. log'[k + 1] = entry /\ log # <<>>
      BY <1>3, <1>12, <2>1, <2>3
    <3> QED
      BY <1>8, <1>14, <2>1, <2>3, <3>1 DEF CutInv, SetGoesOn
  <2> QED
    BY <1>12, <2>1, <2>2, <2>3
<1>15. MayBeLastOf(log'[Len(log')]) \/ SetGoesOn'
  <2>1. CASE Breaks(ev') \/ at = Len(CurrentRules)
    BY <1>10, <1>11, <1>12, <2>1
  <2>2. CASE ~Breaks(ev') /\ at # Len(CurrentRules)
    BY <1>1, <1>2, <1>3, <1>4, <1>5, <1>8, <1>12, <2>2 DEF SetGoesOn
  <2> QED
    BY <2>1, <2>2
<1> QED
  BY <1>13, <1>14, <1>15 DEF CutInv, MayBeLastOf

\* Every other step finds the set of the last rule over, and unmarks the event
\* before it starts another set.
LEMMA CutOther ==
  ASSUME CutInv, UNCHANGED log,
         ~(phase \in RulePhases /\ at <= Len(CurrentRules)),
         phase' \in RulePhases => ~ev'.stop_rule_set_id
  PROVE  CutInv'
<1>1. log # <<>> => MayBeLastOf(log[Len(log)])
  BY DEF CutInv, SetGoesOn
<1> QED
  BY <1>1 DEF CutInv, MayBeLastOf

LEMMA CutNext == IInv /\ CutInv /\ [Next]_vars => CutInv'
<1> SUFFICES ASSUME IInv, CutInv, [Next]_vars PROVE CutInv'
  OBVIOUS
<1> DEFINE setRuns == phase \in RulePhases /\ at <= Len(CurrentRules)
<1>1. CASE RunRule
  BY <1>1, CutRunRule
<1>2. CASE EndAgentRules \/ EndGlobals \/ EndGroup
  <2>1. UNCHANGED log /\ ~setRuns /\ phase' \notin RulePhases
    <3>1. at \in Nat
      BY DEF IInv, TypeOK
    <3>2. SetIsOver /\ UNCHANGED log /\ phase' \notin RulePhases
      BY <1>2 DEF EndAgentRules, EndGlobals, EndGroup, NextGroup, RulePhases
    <3>3. CurrentRules \in Seq(Uuid)
      BY <3>2, RulesAssumption, RulesOfType DEF SetIsOver, CurrentRules, IInv, TypeOK, GroupInOrder
    <3> QED
      BY <3>1, <3>2, <3>3 DEF SetIsOver
  <2> QED
    BY <2>1, CutOther
<1>3. CASE newalert
  <2>1. UNCHANGED log /\ ~setRuns /\ (phase' \in RulePhases => ~ev'.stop_rule_set_id)
    BY <1>3 DEF newalert, RulePhases, generate, unstop_rule_set
  <2> QED
    BY <2>1, CutOther
<1>4. CASE SelectGroup
  <2>1. UNCHANGED log /\ ~setRuns
    BY <1>4 DEF SelectGroup, RulePhases
  <2>2. phase' \in RulePhases => ~ev'.stop_rule_set_id
    <3>1. CASE ev' = unstop_rule_set(ev)
      BY <3>1 DEF unstop_rule_set, IInv, TypeOK, EventObject
    <3> QED
      BY <1>4, <3>1 DEF SelectGroup, NextGroup, RulePhases
  <2> QED
    BY <2>1, <2>2, CutOther
<1>5. CASE EndGroups \/ populate_identifier \/ insertevent
  <2>1. UNCHANGED log /\ ~setRuns /\ phase' \notin RulePhases
    BY <1>5 DEF EndGroups, populate_identifier, insertevent, RulePhases
  <2> QED
    BY <2>1, CutOther
<1>6. CASE UNCHANGED vars
  BY <1>6 DEF vars, CutInv, SetGoesOn, MayBeLastOf, CurrentRules, RulesOf
<1> QED
  BY <1>1, <1>2, <1>3, <1>4, <1>5, <1>6 DEF Next

\* A rule set is left early only by the doing of the rule it was left after, or
\* of a stop before it, for any rule book.
THEOREM SetsAreCutByTheirOwnRules == Spec => []CutShortByOwnRule
<1>1. Init => CutInv
  BY DEF Init, CutInv, generate
<1>2. CutInv /\ IInv => CutShortByOwnRule
  <2> SUFFICES ASSUME CutInv, IInv, NEW k \in 1..Len(log),
                      IF k < Len(log)
                      THEN log[k + 1].stage # log[k].stage \/ log[k + 1].group # log[k].group
                      ELSE SetIsOver
               PROVE  MayBeLastOf(log[k])
    BY DEF CutShortByOwnRule, MayBeLastOf
  <2>1. CASE k < Len(log)
    BY <2>1 DEF CutInv
  <2>2. CASE ~(k < Len(log))
    <3>1. k = Len(log) /\ log # <<>> /\ SetIsOver
      BY <2>2 DEF IInv, TypeOK
    <3>2. at \in Nat /\ CurrentRules \in Seq(Uuid)
      BY <3>1, RulesAssumption, RulesOfType DEF SetIsOver, CurrentRules, IInv, TypeOK, GroupInOrder
    <3> QED
      BY <3>1, <3>2 DEF CutInv, SetGoesOn, SetIsOver
  <2> QED
    BY <2>1, <2>2
<1> QED
  BY <1>1, <1>2, CutNext, IInvAlways, PTL DEF Spec
=============================================================================
