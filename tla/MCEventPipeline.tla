-------------------------- MODULE MCEventPipeline --------------------------
(* EventPipeline on small instances. *)
EXTENDS EventPipeline

Tracked == serverRulesTracking \/ \E k \in 1..Len(ops) : ops[k].part["tracking"] # "absent"

\* Bound: the tracking writes are explored for one call at a time.
Bounded == Tracked => Len(calls) <= 1
=============================================================================
