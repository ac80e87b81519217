---------------------------- MODULE Automations ----------------------------
(***************************************************************************)
(* The automations of the event server (lib/triggers.js, lib/actions.js)   *)
(* with the triggers it ships.  A periodic trigger fires whether or not    *)
(* its last firing has ended, so firings overlap; a firing queries the     *)
(* alerts and acts on them in later calls.                                 *)
(*                                                                         *)
(* What is abstracted: find_and_delete_clears is activated as shipped,     *)
(* find_ups and hightally where an installation turns them on, and all are *)
(* here.  find_older_clears only acknowledges, which changes nothing here; *)
(* find_older_system is find_and_delete_clears with a narrower query;      *)
(* highsev_unowned runs a command and waits for ever.  Of a row that was   *)
(* found only its last_occurrence is kept.                                 *)
(***************************************************************************)
EXTENDS AlertStore

CONSTANTS
  Firing,     \* bound: the firings that overlap
  HighTally   \* the tally from which hightally raises an event

ASSUME AutomationAssumption == HighTally \in Nat

VARIABLE firings   \* what each firing is doing

Trigger == {"find_and_delete_clears", "find_ups"}

\* rows: what was found and is still to be acted on, as it was then.
FiringState ==
  [trigger : Trigger \cup {"none"}, rows : UNION {[S -> 0..MaxTime] : S \in SUBSET Event}]

Waiting == [trigger |-> "none", rows |-> [e \in {} |-> 0]]

AutomationsTypeOK == firings \in [Firing -> FiringState]

AutomationsInit == firings = [f \in Firing |-> Waiting]

\* The queries of the triggers.
Cleared == {e \in Present : alerts[e].severity = 0}
Ups == Present \cap Up
Often == {e \in Present : alerts[e].tally >= HighTally /\ alerts[e].severity < 3}

Rows(S) == [e \in S |-> alerts[e].last_occurrence]

\* Firing f has rows left to act on, or ends.
ActsOn(f, trigger, rows) ==
  firings' = [firings EXCEPT ![f] =
    IF DOMAIN rows = {} THEN Waiting ELSE [trigger |-> trigger, rows |-> rows]]

\* TriggerDelete and TriggerAction begin with a find.
Fire(f) ==
  /\ firings[f] = Waiting
  /\ ActsOn(f, "find_and_delete_clears", Rows(Cleared)) \/ ActsOn(f, "find_ups", Rows(Ups))
  /\ UNCHANGED storeVars

\* Mutant: what was found is removed, by its ids.
DeletedFound(f) == DOMAIN firings[f].rows \cap Present

\* The query is evaluated again to remove what it matches now.
Deleted(f) == Cleared

\* TriggerDelete.fire: remove, or an error.
RemoveMatching(f) ==
  /\ firings[f].trigger = "find_and_delete_clears"
  /\ alerts' \in {Removed(Deleted(f)), alerts}
  /\ firings' = [firings EXCEPT ![f] = Waiting]
  /\ UNCHANGED latestUp

\* The criteria of clear_older_downs_for_this_node, evaluated when it runs, for
\* the time the up had when it was found.
OlderDowns(time) ==
  {e \in Present \ Up : alerts[e].severity >= 1 /\ alerts[e].last_occurrence < time}

SetSeverity(S, severity) == Updated([e \in S |-> [alerts[e] EXCEPT !.severity = severity]])

\* TriggerAction.fire: the rows one after the other; an error ends the firing.
ActOnRow(f) ==
  /\ firings[f].trigger = "find_ups"
  /\ \/ \E e \in DOMAIN firings[f].rows :
          /\ alerts' = SetSeverity(OlderDowns(firings[f].rows[e]), 0)
          /\ ActsOn(f, "find_ups", [d \in DOMAIN firings[f].rows \ {e} |-> firings[f].rows[d]])
     \/ UNCHANGED alerts /\ firings' = [firings EXCEPT ![f] = Waiting]
  /\ UNCHANGED latestUp

\* TriggerUpdate.fire: hightally raises in one call what has come often enough.
UpdateMatching ==
  /\ alerts' = SetSeverity(Often, 3)
  /\ UNCHANGED <<latestUp, firings>>

AutomationsNext ==
  \/ \E f \in Firing : Fire(f) \/ RemoveMatching(f) \/ ActOnRow(f)
  \/ UpdateMatching

----------------------------------------------------------------------------
\* An automation takes away only an event that is clear when it is removed,
\* even if it was raised after it was found, and clears only a down whose last
\* occurrence is older than one of an up, even if it recurs while the
\* automation is at work.
SparesRaised ==
  \A e \in Event :
    /\ alerts[e] # Gone /\ alerts'[e] = Gone => alerts[e].severity = 0
    /\ alerts'[e] # Gone /\ alerts'[e].severity = 0 =>
         \/ alerts[e].severity = 0
         \/ e \notin Up /\ alerts[e].last_occurrence + 1 < latestUp
=============================================================================
