--------------------------- MODULE MonitorClient ---------------------------
(***************************************************************************)
(* The client half of the event path: the MonitorClient every agent uses   *)
(* to hand events to the server (oa-event-monitors/common/monitor_client).  *)
(*                                                                         *)
(* An event is validated against the column profile the server sent in its *)
(* greeting, its dates are normalised, and it is then either emitted on    *)
(* the socket with the caller's callback as acknowledgement, or, when      *)
(* `buffering` is on, folded into a queue of pending identifiers that an   *)
(* interval timer flushes as one message without an acknowledgement.       *)
(*                                                                         *)
(* What is abstracted: an event is its identifier (the `_pre_identifier`   *)
(* when there is one), its tally and the form of its columns; a Date is    *)
(* only good or bad; an occurrence time is the number of the call.         *)
(***************************************************************************)
EXTENDS EventWire

CONSTANTS
  Buffering,  \* the settings of `agent:buffering` to consider: on (TRUE) or off
  MaxCalls    \* bound: how many times agents call sendAlert

ASSUME ClientAssumption == Buffering \subseteq BOOLEAN /\ MaxCalls \in Nat

VARIABLES
  buffering,   \* is the `buffering` interval greater than zero
  socket,      \* "none" until the first connect, then "up" or "down"
  profile,     \* has the server's greeting been received
  queue,       \* identifiers waiting for the flush, in order of arrival
  q_data,      \* q_data[ident]: the folded event that will be sent
  sendBuffer,  \* messages emitted while the socket is down
  calls,       \* calls[n]: the n-th sendAlert and what became of its callbacks
  accepted,    \* history: tally accepted into the queue, per identifier
  flushed      \* history: tally handed to the socket by flushes

clientVars == <<buffering, socket, profile, queue, q_data, sendBuffer, wire, calls,
                accepted, flushed>>

\* An entry of q_data: the latest event, the tallies added up, and the calls
\* whose occurrences it stands for.
Entry == [form : Form, tally : Nat \ {0}, occurrences : Seq(Nat)]

\* A callback is waiting for the acknowledgement, forgotten by the queue, or
\* has been called.
CallbackState == Outcome \cup {"waiting", "forgotten"}

Call == [ev : Event, cb : CallbackState, qcb : {"queued", "error"}]

Elems(s) == {s[k] : k \in 1..Len(s)}

TypeOK ==
  /\ buffering \in BOOLEAN
  /\ socket \in {"none", "up", "down"}
  /\ profile \in BOOLEAN
  /\ queue \in Seq(Ident)
  /\ DOMAIN q_data \subseteq Ident
  /\ \A i \in DOMAIN q_data : q_data[i] \in Entry
  /\ sendBuffer \in Seq(Message)
  /\ wire \in Seq(Message)
  /\ calls \in Seq(Call)
  /\ accepted \in [Ident -> Nat]
  /\ flushed \in [Ident -> Nat]

ClientInit ==
  /\ buffering \in Buffering
  /\ socket = "none"
  /\ profile = FALSE
  /\ queue = <<>>
  /\ q_data = [i \in {} |-> i]
  /\ sendBuffer = <<>>
  /\ wire = <<>>
  /\ calls = <<>>
  /\ accepted = [i \in Ident |-> 0]
  /\ flushed = [i \in Ident |-> 0]

----------------------------------------------------------------------------
(* The socket.  socket.io reconnects by itself, keeps what is emitted while *)
(* it is down in its sendBuffer, and loses what was in flight.              *)

\* sock.emit: straight to the wire when connected, else into the sendBuffer.
Emit(m) ==
  IF socket = "up"
  THEN wire' = Append(wire, m) /\ UNCHANGED sendBuffer
  ELSE sendBuffer' = Append(sendBuffer, m) /\ UNCHANGED wire

\* The messages under way: on the wire, then those that wait for a connection.
underWay == wire \o sendBuffer

\* Mutant: what was kept while the socket was down is sent and kept again.
ConnectKeepsBuffer ==
  /\ socket # "up"
  /\ socket' = "up"
  /\ wire' = wire \o sendBuffer
  /\ UNCHANGED <<buffering, sendBuffer, profile, queue, q_data, calls, accepted, flushed>>

\* 'connect': the first one keeps the socket, a later one only logs an error.
Connect ==
  /\ socket # "up"
  /\ socket' = "up"
  /\ wire' = wire \o sendBuffer
  /\ sendBuffer' = <<>>
  /\ UNCHANGED <<buffering, profile, queue, q_data, calls, accepted, flushed>>

\* 'greetings': the first one sets the profile and completes start.
Greetings ==
  /\ socket = "up"
  /\ ~profile
  /\ profile' = TRUE
  /\ UNCHANGED <<buffering, socket, queue, q_data, sendBuffer, wire, calls, accepted, flushed>>

\* 'disconnect': what was on the wire is gone.
Disconnect ==
  /\ socket = "up"
  /\ socket' = "down"
  /\ wire' = <<>>
  /\ UNCHANGED <<buffering, profile, queue, q_data, sendBuffer, calls, accepted, flushed>>

----------------------------------------------------------------------------
(* Sending an event                                                        *)

\* validateAlertFields compares the mandatory columns with the event's keys,
\* so a column that is present with a null value passes.
validateAlertFields(ev) == ev.form # "missing"

cleanupAlertFields(ev) == ev.form # "baddate"

\* The tally addEventToQueue gives an event that has none.
QueuedTally(ev) == IF ev.tally = NoTally THEN 1 ELSE ev.tally

PendingTally(i) == IF i \in DOMAIN q_data THEN q_data[i].tally ELSE 0

PendingOccurrences(i) == IF i \in DOMAIN q_data THEN q_data[i].occurrences ELSE <<>>

\* Mutants: the pending tally is not added; the occurrence is put in front.
FoldedAnew(ev, n) ==
  [form |-> ev.form, tally |-> QueuedTally(ev),
   occurrences |-> Append(PendingOccurrences(ev.id), n)]
FoldedInFront(ev, n) ==
  [form |-> ev.form, tally |-> QueuedTally(ev) + PendingTally(ev.id),
   occurrences |-> <<n>> \o PendingOccurrences(ev.id)]

\* The entry that results from adding the event of call n: the new event
\* replaces the old one and inherits its tally and its occurrences.
Folded(ev, n) ==
  [form |-> ev.form, tally |-> QueuedTally(ev) + PendingTally(ev.id),
   occurrences |-> Append(PendingOccurrences(ev.id), n)]

\* Mutant: every event is queued, known or not.
AlwaysQueued(id) == Append(queue, id)

\* Only an identifier that is not pending joins the queue.
Queued(id) == IF id \in DOMAIN q_data THEN queue ELSE Append(queue, id)

addEventToQueue(ev, n) ==
  /\ queue' = Queued(ev.id)
  /\ q_data' = [i \in DOMAIN q_data \cup {ev.id} |->
                  IF i = ev.id THEN Folded(ev, n) ELSE q_data[i]]
  /\ accepted' = [accepted EXCEPT ![ev.id] = @ + QueuedTally(ev)]

\* Both callbacks get the ValidationError and nothing is sent.
RejectAlert(ev) ==
  /\ ~(validateAlertFields(ev) /\ cleanupAlertFields(ev))
  /\ calls' = Append(calls, [ev |-> ev, cb |-> "error", qcb |-> "error"])
  /\ UNCHANGED <<buffering, socket, profile, queue, q_data, sendBuffer, wire, accepted, flushed>>

\* The queue keeps no reference to cb: nobody can call it any more.
BufferAlert(ev) ==
  /\ buffering
  /\ validateAlertFields(ev) /\ cleanupAlertFields(ev)
  /\ addEventToQueue(ev, Len(calls) + 1)
  /\ calls' = Append(calls, [ev |-> ev, cb |-> "forgotten", qcb |-> "queued"])
  /\ UNCHANGED <<buffering, socket, profile, sendBuffer, wire, flushed>>

\* Without buffering, cb travels with the event as its acknowledgement.
EmitAlert(ev) ==
  /\ ~buffering
  /\ validateAlertFields(ev) /\ cleanupAlertFields(ev)
  /\ Emit([events |-> <<ev>>, call |-> Len(calls) + 1])
  /\ calls' = Append(calls, [ev |-> ev, cb |-> "waiting", qcb |-> "queued"])
  /\ UNCHANGED <<buffering, socket, profile, queue, q_data, accepted, flushed>>

\* sendAlert reads the profile, which start leaves unset until the greeting;
\* agents start after it.
sendAlert(ev) ==
  /\ profile
  /\ Len(calls) < MaxCalls
  /\ RejectAlert(ev) \/ BufferAlert(ev) \/ EmitAlert(ev)

Batch == [k \in 1..Len(queue) |->
            [id |-> queue[k], tally |-> q_data[queue[k]].tally, form |-> q_data[queue[k]].form]]

\* Mutant: a queue of one event is left for the next tick.
FlushDueLate == Len(queue) > 1

FlushDue == Len(queue) > 0

\* The interval timer: emit what the queue holds as one message with no
\* acknowledgement, then empty the queue.
flushBufferQueue ==
  /\ buffering
  /\ FlushDue
  /\ Emit([events |-> Batch, call |-> NoCall])
  /\ flushed' = [i \in Ident |->
                   flushed[i] + IF i \in Elems(queue) THEN PendingTally(i) ELSE 0]
  /\ queue' = <<>>
  /\ q_data' = [i \in {} |-> i]
  /\ UNCHANGED <<buffering, socket, profile, calls, accepted>>

----------------------------------------------------------------------------
\* The acknowledgement of call n arrives: cb is invoked with its outcome.
Acknowledged(n, outcome) ==
  /\ n \in 1..Len(calls)
  /\ calls[n].cb = "waiting"
  /\ calls' = [calls EXCEPT ![n].cb = outcome]
  /\ UNCHANGED <<buffering, socket, profile, queue, q_data, sendBuffer, wire, accepted, flushed>>

\* The steps the client takes by itself.
ClientStep ==
  \/ Connect
  \/ Greetings
  \/ Disconnect
  \/ \E ev \in Event : sendAlert(ev)
  \/ flushBufferQueue

\* A server of which nothing is assumed: it takes messages off the wire and
\* acknowledges those that carry a callback, in any order, or never.
Take ==
  /\ wire # <<>>
  /\ wire' = Tail(wire)
  /\ UNCHANGED <<buffering, socket, profile, queue, q_data, sendBuffer, calls, accepted, flushed>>

Acks == \E n \in 1..MaxCalls, outcome \in Outcome : Acknowledged(n, outcome)

ClientNext == ClientStep \/ Take \/ Acks

ClientSpec == ClientInit /\ [][ClientNext]_clientVars

----------------------------------------------------------------------------
(* Properties                                                              *)

\* The queue and q_data describe the same events: every queued identifier has
\* an entry, every entry is queued, and no identifier is queued twice, so the
\* flush (which walks the queue and reads q_data) sends every pending event once.
QueueMatchesData ==
  /\ DOMAIN q_data = Elems(queue)
  /\ \A j, k \in 1..Len(queue) : queue[j] = queue[k] => j = k

\* Folding repeated events in addEventToQueue never loses a count: the tally
\* accepted for an identifier is what flushes have sent plus what is pending.
TallyConserved ==
  \A i \in Ident : accepted[i] = flushed[i] + PendingTally(i)

\* The occurrences a pending entry carries are distinct calls for its own
\* identifier, in the order they were made, and there are at least as many
\* counts as occurrences.
OccurrencesFaithful ==
  \A i \in DOMAIN q_data :
    LET occ == q_data[i].occurrences IN
    /\ \A k \in 1..Len(occ) : occ[k] \in 1..Len(calls) /\ calls[occ[k]].ev.id = i
    /\ \A j, k \in 1..Len(occ) : j < k => occ[j] < occ[k]
    /\ Len(occ) <= q_data[i].tally

\* Without buffering, events reach the socket in the order of their calls and
\* none is on its way twice, across any number of reconnections.
SentInOrder ==
  ~buffering =>
    \A j, k \in 1..Len(underWay) : j < k => underWay[j].call < underWay[k].call

\* With buffering, no identifier waits in the queue for ever.
PendingIsFlushed ==
  \A i \in Ident : (i \in DOMAIN q_data) ~> (i \notin DOMAIN q_data)
=============================================================================
