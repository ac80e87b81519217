--------------------------- MODULE EventPipeline ---------------------------
(***************************************************************************)
(* An agent's MonitorClient and the MonitorServer joined by a socket: the  *)
(* path of an event from sendAlert to the alerts collection and of its     *)
(* acknowledgement back to the caller.  The two share `wire`; a disconnect *)
(* loses what is on it, the acknowledgements under way, and the right of   *)
(* the running inserts to answer.                                          *)
(***************************************************************************)
EXTENDS MonitorClient, MonitorServer

CONSTANT
  MayDisconnect   \* can the connection be lost

ASSUME PipelineAssumption == MayDisconnect \in BOOLEAN

serverOnly == <<serverRulesTracking, ops, alerts, occurrences, acks, received>>

vars == <<clientVars, serverOnly>>

Init == ClientInit /\ ServerInit

Send(ev) == sendAlert(ev) /\ UNCHANGED serverOnly

Flush == flushBufferQueue /\ UNCHANGED serverOnly

Connected == (Connect \/ Greetings) /\ UNCHANGED serverOnly

\* The callback of an insert belongs to the socket the event came in on.
Disconnected ==
  /\ MayDisconnect
  /\ Disconnect
  /\ acks' = {}
  /\ ops' = [k \in 1..Len(ops) |->
               IF ops[k].answered THEN ops[k] ELSE [ops[k] EXCEPT !.call = NoCall]]
  /\ UNCHANGED <<serverRulesTracking, alerts, occurrences, received>>

Server ==
  /\ ServerStep
  /\ UNCHANGED <<buffering, socket, profile, queue, q_data, sendBuffer, calls, accepted, flushed>>

AckArrives ==
  /\ \E a \in acks : Acknowledged(a.call, a.outcome) /\ acks' = acks \ {a}
  /\ UNCHANGED <<serverRulesTracking, ops, alerts, occurrences, received>>

Next ==
  \/ Connected
  \/ Disconnected
  \/ \E ev \in Event : Send(ev)
  \/ Flush
  \/ Server
  \/ AckArrives

Spec == Init /\ [][Next]_vars

ServerWork(k) ==
  /\ OpStep(k)
  /\ UNCHANGED <<buffering, socket, profile, queue, q_data, sendBuffer, calls, accepted, flushed>>

\* The socket delivers what is on it and the database answers every write; the
\* flush timer, a setInterval that is never cleared, keeps firing and socket.io
\* keeps reconnecting.
Fairness ==
  /\ WF_vars(Connected)
  /\ WF_vars(Flush)
  /\ WF_vars(Receive /\ UNCHANGED <<buffering, socket, profile, queue, q_data, sendBuffer,
                                      calls, accepted, flushed>>)
  /\ \A k \in 1..MaxCalls : WF_vars(k <= Len(ops) /\ ServerWork(k))
  /\ WF_vars(AckArrives)

FairSpec == Spec /\ Fairness

----------------------------------------------------------------------------
(* The refinement of EventDelivery                                         *)

\* The sum of a sequence of numbers, counted as the pairs below its graph.
Units(s) == UNION {{k} \X (1..s[k]) : k \in DOMAIN s}

Total(s) == Cardinality(Units(s))

Increment(t) == IF t = NoTally THEN 1 ELSE t

\* The tally of identifier i in a message, event by event.
InMessage(i, m) ==
  [k \in 1..Len(m.events) |-> IF m.events[k].id = i THEN Increment(m.events[k].tally) ELSE 0]

\* The tallies of identifier i: in messages, message by message; in inserts whose
\* alert is still to be written; in calls that passed the client's checks.
InMessages(i, messages) == [j \in 1..Len(messages) |-> Total(InMessage(i, messages[j]))]

InInserts(i, inserts) ==
  [k \in 1..Len(inserts) |->
     IF inserts[k].id = i /\ inserts[k].part["alert"] = "pending"
     THEN Increment(inserts[k].tally) ELSE 0]

InCalls(i, made) ==
  [n \in 1..Len(made) |->
     IF made[n].ev.id = i /\ made[n].qcb = "queued" THEN Increment(made[n].ev.tally) ELSE 0]

Owed ==
  [i \in Ident |->
     PendingTally(i) + Total(InMessages(i, underWay)) + Total(InInserts(i, ops))]

\* The tally of the events agents have successfully handed to sendAlert.
Submitted == [i \in Ident |-> Total(InCalls(i, calls))]

Delivery == INSTANCE EventDelivery WITH
  submitted <- Submitted, owed <- Owed, stored <- alerts

\* The store never counts an event twice and never counts one that was not
\* sent, whatever the interleaving of calls, flushes, writes and disconnects.
AtMostOnce == Delivery!Spec

----------------------------------------------------------------------------
(* Properties                                                              *)

PipelineTypeOK ==
  /\ TypeOK
  /\ serverRulesTracking \in BOOLEAN
  /\ ops \in Seq(Op)
  /\ alerts \in [Ident -> Nat]
  /\ occurrences \in [Ident -> Nat]
  /\ acks \subseteq [call : 1..Len(calls), outcome : Outcome]
  /\ received \in [Ident -> Nat]

Stored == {"inserted", "updated"}

\* The inserts that answered call n.
OpsOf(n) == {k \in 1..Len(ops) : ops[k].call = n /\ ops[k].answered}

\* A caller that is told its event was inserted, updated or dropped is told so
\* only when every write of that event had ended, its occurrence and its
\* inventory entry too, and none had reported an error.  An upsert that fails, but
\* for a duplicate key, reports none (monitor_server.js:358) and counts as ended:
\* that such an event is not in the database is what AckedIsStored finds.
AnsweredAfterWrites ==
  \A n \in 1..Len(calls) :
    calls[n].cb \in {"inserted", "updated", "dropped"} =>
      \E k \in OpsOf(n) : \A p \in Part : ops[k].part[p] \notin {"pending", "failed"}

\* One caller at most is told that it created a given alert.
CreatedOnce ==
  \A m, n \in 1..Len(calls) :
    /\ calls[m].cb = "inserted" /\ calls[n].cb = "inserted"
    /\ calls[m].ev.id = calls[n].ev.id
    => m = n

\* The two tracking writes are best effort: an insert is answered with an error
\* only if its inventory, its occurrence or its alert could not be written.
TrackingIsBestEffort ==
  \A n \in 1..Len(calls) :
    \A k \in OpsOf(n) :
      calls[n].cb = "error" =>
        \E p \in {"inventory", "occurences", "alert"} : ops[k].part[p] = "failed"

\* "newly arrived event also increments the tally" (monitor_server.js:400): a
\* caller told that its event was inserted or updated has had it stored.
AckedIsStored ==
  \A n \in 1..Len(calls) :
    calls[n].cb \in Stored => \E k \in OpsOf(n) : ops[k].part["alert"] \in Stored

\* "all recieved events update inventory and occurrences" (monitor_server.js:254):
\* every event the server takes off a socket and finds valid is processed.
ReceivedIsProcessed ==
  \A i \in Ident : received[i] = Cardinality({k \in 1..Len(ops) : ops[k].id = i})

\* Call n is on the socket, in the server, or its acknowledgement is on its way.
UnderWay(n) ==
  \/ \E k \in 1..Len(wire) : wire[k].call = n
  \/ \E k \in 1..Len(ops) : ops[k].call = n /\ ~ops[k].answered
  \/ \E a \in acks : a.call = n

\* Whatever writes fail, a caller whose event is complete and on its way is
\* answered, unless the connection it went out on is lost first.
CompleteIsAnswered ==
  \A n \in 1..MaxCalls :
    (n \in 1..Len(calls) /\ calls[n].ev.form = "complete" /\ UnderWay(n))
      ~> (n \in 1..Len(calls) /\ (calls[n].cb # "waiting" \/ socket = "down"))
=============================================================================
