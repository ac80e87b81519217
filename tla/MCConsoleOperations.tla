------------------------ MODULE MCConsoleOperations ------------------------
(* ConsoleOperations on a small instance. *)
EXTENDS ConsoleOperations

CONSTANTS r1, r2

MCAsked == [enabled \in BOOLEAN |-> IF enabled THEN {r1} ELSE {r1, r2}]

\* Bounds: with automations the request is about a down, and firings overlap only
\* before it; without them there is one event, whose times do not matter then.
Bounded ==
  IF automations
  THEN /\ \A r \in Request : requests[r].ids \cap Up = {}
       /\ \/ Cardinality({f \in Firing : firings[f] # Waiting}) <= 1
          \/ \A r \in Request : requests[r].stage = "idle"
  ELSE /\ Cardinality({e \in Event : alerts[e] # NotYet}) <= 1
       /\ \A e \in Event : alerts[e].last_occurrence = 0
============================================================================
