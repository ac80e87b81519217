--------------------------- MODULE MonitorServer ---------------------------
(***************************************************************************)
(* The server half of the event path: MonitorServer                        *)
(* (oa-event-server/lib/monitor_server).  A message taken off a socket is   *)
(* validated, every event in it runs through the server rules, and the     *)
(* event's database writes are started together: inventory, occurrences,   *)
(* the alert itself unless a rule discarded the event, and two tracking    *)
(* collections when tracking is on.  The acknowledgement is called when    *)
(* all of them have succeeded, or at the first one that fails.             *)
(*                                                                         *)
(* What is abstracted: the rules are the set of identifiers they discard   *)
(* (RulesEngine models them); an alert is its tally, 0 when there is none;  *)
(* an occurrence list is its length; an acknowledgement is the number of   *)
(* the call it answers.  MongoDB is external: a write succeeds or fails.   *)
(***************************************************************************)
EXTENDS EventWire

CONSTANTS
  DiscardedIds,     \* identifiers whose events the server rules discard
  DbMayFail,        \* may a database write fail
  MayTrack,         \* may rules tracking be switched on
  OccurrenceLimit   \* how many occurrences are kept ($slice: -1440)

ASSUME ServerAssumption ==
  /\ DiscardedIds \subseteq Ident
  /\ DbMayFail \in BOOLEAN
  /\ MayTrack \in BOOLEAN
  /\ OccurrenceLimit \in Nat \ {0}

VARIABLES
  serverRulesTracking,
  ops,          \* ops[k]: the k-th insertevent and the state of its writes
  alerts,       \* alerts[ident]: the stored tally
  occurrences,  \* occurrences[ident]: how many are stored
  acks,         \* acknowledgements on their way to the client
  received      \* history: valid events taken off the socket, per identifier

serverVars == <<wire, serverRulesTracking, ops, alerts, occurrences, acks, received>>

\* "tracking" stands for the two tracking promises, which are handled alike.
Part == {"inventory", "occurences", "tracking", "alert"}

PartState == {"absent", "pending", "done", "failed", "inserted", "updated", "swallowed"}

Op == [call : Nat \cup {NoCall}, id : Ident, tally : (Nat \ {0}) \cup {NoTally},
       sawNone : BOOLEAN, part : [Part -> PartState], answered : BOOLEAN]

ServerInit ==
  /\ serverRulesTracking \in {FALSE, MayTrack}
  /\ ops = <<>>
  /\ alerts = [i \in Ident |-> 0]
  /\ occurrences = [i \in Ident |-> 0]
  /\ acks = {}
  /\ received = [i \in Ident |-> 0]

\* The IPC message that switches rules tracking on or off.
SetTracking ==
  /\ MayTrack
  /\ serverRulesTracking' = ~serverRulesTracking
  /\ UNCHANGED <<wire, ops, alerts, occurrences, acks, received>>

----------------------------------------------------------------------------
(* Receiving                                                               *)

\* validate_event: every mandatory column has a value.
validate_event(ev) == ev.form \notin {"missing", "null"}

\* insertevent starts all its writes before it waits for any.
NewOp(ev, call) ==
  [call |-> call, id |-> ev.id, tally |-> ev.tally, sawNone |-> alerts[ev.id] = 0,
   part |-> [p \in Part |->
      IF \/ p \in {"inventory", "occurences"}
         \/ p = "tracking" /\ serverRulesTracking
         \/ p = "alert" /\ ev.id \notin DiscardedIds
      THEN "pending" ELSE "absent"],
   answered |-> FALSE]

\* 'insert_event': an event that validates goes through 'newevent'; one that
\* does not is logged and its callback is never called.
insert_event(ev, call) ==
  ops' = IF validate_event(ev) THEN Append(ops, NewOp(ev, call)) ELSE ops

\* 'insert_events': each event that validates goes through 'newevent' with the
\* callback of the batch, which no client sends.  insertevent throws without
\* one, and the 'newevent' listener, which catches that, has nobody to tell.
insert_events == UNCHANGED ops

\* The positions of the valid events for identifier i.
ValidAt(events, i) == {k \in 1..Len(events) : validate_event(events[k]) /\ events[k].id = i}

\* A message with an acknowledgement callback is an 'insert_event' of one event.
Receive ==
  /\ wire # <<>>
  /\ \/ Head(wire).call = NoCall /\ insert_events
     \/ Head(wire).call # NoCall /\ insert_event(Head(wire).events[1], Head(wire).call)
  /\ received' = [i \in Ident |-> received[i] + Cardinality(ValidAt(Head(wire).events, i))]
  /\ wire' = Tail(wire)
  /\ UNCHANGED <<serverRulesTracking, alerts, occurrences, acks>>

----------------------------------------------------------------------------
(* The writes of one insertevent                                           *)

Settle(k, p, s) == ops' = [ops EXCEPT ![k].part[p] = s]

Pending(k, p) == ops[k].part[p] = "pending"

WriteInventory(k) ==
  /\ Pending(k, "inventory")
  /\ \E s \in {"done"} \cup (IF DbMayFail THEN {"failed"} ELSE {}) : Settle(k, "inventory", s)
  /\ UNCHANGED <<wire, serverRulesTracking, alerts, occurrences, acks, received>>

\* $push with $slice: the newest OccurrenceLimit entries stay.
Pushed(n) == IF n < OccurrenceLimit THEN n + 1 ELSE n

WriteOccurrence(k) ==
  /\ Pending(k, "occurences")
  /\ \/ /\ Settle(k, "occurences", "done")
        /\ occurrences' = [occurrences EXCEPT ![ops[k].id] = Pushed(@)]
     \/ DbMayFail /\ Settle(k, "occurences", "failed") /\ UNCHANGED occurrences
  /\ UNCHANGED <<wire, serverRulesTracking, alerts, acks, received>>

\* Mutant: without the .catch, a failed tracking write rejects the promise.
CaughtNot(s) == s

\* The .catch on the two tracking promises turns a failure into a result.
Caught(s) == "done"

WriteTracking(k) ==
  /\ Pending(k, "tracking")
  /\ \E s \in {"done"} \cup (IF DbMayFail THEN {"failed"} ELSE {}) : Settle(k, "tracking", Caught(s))
  /\ UNCHANGED <<wire, serverRulesTracking, alerts, occurrences, acks, received>>

\* increment_tally_by: the event's own tally when it is a positive number.
increment_tally_by(op) == IF op.tally = NoTally THEN 1 ELSE op.tally

\* The upsert puts the event's own fields in $setOnInsert next to $inc of the
\* tally: for an event that has a tally field MongoDB refuses the update.
Conflicting(op) == op.tally # NoTally

\* promisedUpsertAlert's .catch returns any error but a duplicate key as the
\* value of the promise.
UpsertError == "swallowed"

\* Mutant: the event is counted twice.
CountedTwice(op) == alerts[op.id] + 2 * increment_tally_by(op)

Incremented(op) == alerts[op.id] + increment_tally_by(op)

\* The upsert: an update when the alert exists, else an insert.  Two upserts
\* that both saw no alert may collide on the unique identifier; the handler of
\* that error calls a function the model does not have and so rejects.
UpsertAlert(k) ==
  LET op == ops[k]
      exists == alerts[op.id] > 0
  IN
  /\ Pending(k, "alert")
  /\ \/ /\ ~Conflicting(op)
        /\ Settle(k, "alert", IF exists THEN "updated" ELSE "inserted")
        /\ alerts' = [alerts EXCEPT ![op.id] = Incremented(op)]
     \/ /\ Conflicting(op) \/ DbMayFail
        /\ Settle(k, "alert", UpsertError)
        /\ UNCHANGED alerts
     \/ /\ op.sawNone /\ exists /\ ~Conflicting(op)
        /\ Settle(k, "alert", "failed")
        /\ UNCHANGED alerts
  /\ UNCHANGED <<wire, serverRulesTracking, occurrences, acks, received>>

----------------------------------------------------------------------------
(* The acknowledgement                                                     *)

\* Mutants: the callback is called once the alert is written; the promises
\* that were never made are waited for.
FulfilledEarly(op) == op.part["alert"] # "pending" /\ \A p \in Part : op.part[p] # "failed"

FulfilledNever(op) == \A p \in Part : op.part[p] \notin {"absent", "pending", "failed"}

\* Promise.props fulfils when every write has, one whose failure is swallowed
\* included, and rejects at the first failure.
Fulfilled(op) == \A p \in Part : op.part[p] \notin {"pending", "failed"}

Rejected(op) == \E p \in Part : op.part[p] = "failed"

\* Mutant: any result that is not a plain update counts as an insert.
AnswerInserted(op) ==
  CASE op.part["alert"] = "absent" -> "dropped"
    [] op.part["alert"] = "updated" -> "updated"
    [] OTHER -> "inserted"

\* Only a result whose modifiedCount is 0 is an insert; an error returned as
\* the value has none and counts as an update.
Answer(op) ==
  CASE op.part["alert"] = "absent" -> "dropped"
    [] op.part["alert"] = "inserted" -> "inserted"
    [] OTHER -> "updated"

Acknowledge(k) ==
  LET op == ops[k] IN
  /\ ~op.answered
  /\ Fulfilled(op) \/ Rejected(op)
  /\ ops' = [ops EXCEPT ![k].answered = TRUE]
  /\ acks' = IF op.call = NoCall THEN acks
             ELSE acks \cup {[call |-> op.call,
                              outcome |-> IF Rejected(op) THEN "error" ELSE Answer(op)]}
  /\ UNCHANGED <<wire, serverRulesTracking, alerts, occurrences, received>>

OpStep(k) ==
  \/ WriteInventory(k)
  \/ WriteOccurrence(k)
  \/ WriteTracking(k)
  \/ UpsertAlert(k)
  \/ Acknowledge(k)

ServerStep == SetTracking \/ Receive \/ \E k \in 1..Len(ops) : OpStep(k)
=============================================================================
