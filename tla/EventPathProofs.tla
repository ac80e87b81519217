-------------------------- MODULE EventPathProofs --------------------------
(***************************************************************************)
(* Proofs about the event path, for every set of identifiers and tallies,  *)
(* any number of calls, with and without buffering: first the client with  *)
(* any server (MonitorClient), then the pipeline of both (EventPipeline).  *)
(***************************************************************************)
EXTENDS EventPipeline, SequenceTheorems, FiniteSetTheorems, TLAPS

\* The inductive invariant.  Type correctness alone is not inductive: a flush
\* reads q_data at every queued identifier, so the message it emits is
\* well-typed only because the queue and the data match.
ClientInv == TypeOK /\ QueueMatchesData

----------------------------------------------------------------------------
(* Facts about the operators                                               *)

\* Appending an element adds it to the elements of a sequence.
LEMMA ElemsAppend ==
  ASSUME NEW T, NEW s \in Seq(T), NEW e \in T
  PROVE  Elems(Append(s, e)) = Elems(s) \cup {e}
<1>1. Append(s, e) \in Seq(T) /\ Len(Append(s, e)) = Len(s) + 1
  OBVIOUS
<1>2. \A k \in 1..Len(s) : Append(s, e)[k] = s[k]
  OBVIOUS
<1>3. Append(s, e)[Len(s) + 1] = e
  OBVIOUS
<1>4. 1..(Len(s) + 1) = 1..Len(s) \cup {Len(s) + 1} /\ Len(s) \in Nat
  OBVIOUS
<1> QED
  BY <1>1, <1>2, <1>3, <1>4 DEF Elems

\* What the queue becomes when an identifier is queued: its elements are those
\* it had and the new one, and it still has no duplicate.
LEMMA QueuedMatches ==
  ASSUME ClientInv, NEW id \in Ident
  PROVE  /\ Queued(id) \in Seq(Ident)
         /\ Elems(Queued(id)) = DOMAIN q_data \cup {id}
         /\ \A j, k \in 1..Len(Queued(id)) : Queued(id)[j] = Queued(id)[k] => j = k
<1> USE DEF ClientInv, TypeOK, QueueMatchesData
<1>1. CASE id \in DOMAIN q_data
  BY <1>1 DEF Queued
<1>2. CASE id \notin DOMAIN q_data
  <2>1. Queued(id) = Append(queue, id)
    BY <1>2 DEF Queued
  <2>2. \A k \in 1..Len(queue) : queue[k] # id
    BY <1>2 DEF Elems
  <2>3. Elems(Append(queue, id)) = Elems(queue) \cup {id}
    BY ElemsAppend
  <2> QED
    BY <2>1, <2>2, <2>3, SMTT(30)
<1> QED
  BY <1>1, <1>2

\* The tally an event is queued with is a positive number.
LEMMA QueuedTallyType ==
  ASSUME NEW ev \in Event
  PROVE  QueuedTally(ev) \in Nat \ {0}
<1>1. ev.tally \in Tally \cup {NoTally}
  BY DEF Event
<1>2. CASE ev.tally = NoTally
  BY <1>2 DEF QueuedTally
<1>3. CASE ev.tally # NoTally
  <2>1. ev.tally \in Nat \ {0}
    BY <1>1, <1>3, TallyAssumption
  <2> QED
    BY <1>3, <2>1 DEF QueuedTally
<1> QED
  BY <1>2, <1>3

\* The entry an event is folded into is well-typed.
LEMMA FoldedType ==
  ASSUME TypeOK, NEW ev \in Event, NEW n \in Nat
  PROVE  Folded(ev, n) \in Entry
<1>1. QueuedTally(ev) \in Nat \ {0}
  BY QueuedTallyType
<1>2. PendingTally(ev.id) \in Nat
  BY DEF TypeOK, PendingTally, Entry
<1>3. PendingOccurrences(ev.id) \in Seq(Nat)
  BY DEF TypeOK, PendingOccurrences, Entry
<1>4. ev.form \in Form
  BY DEF Event
<1> QED
  BY <1>1, <1>2, <1>3, <1>4 DEF Folded, Entry

\* Whatever becomes of an event, sendAlert records one more call for it.
LEMMA SendAppendsCall ==
  ASSUME NEW ev \in Event, sendAlert(ev)
  PROVE  \E c \in Call : c.ev = ev /\ calls' = Append(calls, c)
<1>1. /\ [ev |-> ev, cb |-> "error", qcb |-> "error"] \in Call
      /\ [ev |-> ev, cb |-> "forgotten", qcb |-> "queued"] \in Call
      /\ [ev |-> ev, cb |-> "waiting", qcb |-> "queued"] \in Call
  BY DEF Call, CallbackState, Outcome
<1> QED
  BY <1>1 DEF sendAlert, RejectAlert, BufferAlert, EmitAlert

\* The message of a single event is well-typed.
LEMMA EventMessageType ==
  ASSUME NEW ev \in Event, NEW n \in Nat
  PROVE  [events |-> <<ev>>, call |-> n] \in Message
<1>1. ev \in Sent
  BY TallyAssumption DEF Event, Sent
<1> QED
  BY <1>1 DEF Message

\* Emitting a message keeps both channels well-typed.
LEMMA EmitType ==
  ASSUME TypeOK, NEW m \in Message, Emit(m)
  PROVE  wire' \in Seq(Message) /\ sendBuffer' \in Seq(Message)
<1>0. wire \in Seq(Message) /\ sendBuffer \in Seq(Message)
  BY DEF TypeOK
<1>1. CASE socket = "up"
  <2>1. wire' = Append(wire, m) /\ sendBuffer' = sendBuffer
    BY <1>1 DEF Emit
  <2> QED
    BY <1>0, <2>1
<1>2. CASE socket # "up"
  <2>1. sendBuffer' = Append(sendBuffer, m) /\ wire' = wire
    BY <1>2 DEF Emit
  <2> QED
    BY <1>0, <2>1
<1> QED
  BY <1>1, <1>2

\* The message of a flush is well-typed.
LEMMA BatchType ==
  ASSUME ClientInv
  PROVE  [events |-> Batch, call |-> NoCall] \in Message
<1>1. \A k \in 1..Len(queue) : queue[k] \in DOMAIN q_data /\ queue[k] \in Ident
  BY DEF ClientInv, TypeOK, QueueMatchesData, Elems
<1>2. \A k \in 1..Len(queue) : q_data[queue[k]] \in Entry
  BY <1>1 DEF ClientInv, TypeOK
<1>3. \A k \in 1..Len(queue) :
        [id |-> queue[k], tally |-> q_data[queue[k]].tally,
         form |-> q_data[queue[k]].form] \in Sent
  BY <1>1, <1>2 DEF Entry, Sent
<1>4. Len(queue) \in Nat
  BY DEF ClientInv, TypeOK
<1>5. Batch \in [1..Len(queue) -> Sent]
  BY <1>3 DEF Batch
<1>6. Batch \in Seq(Sent)
  BY <1>4, <1>5, SeqDef
<1> QED
  BY <1>6 DEF Message

----------------------------------------------------------------------------
(* The inductive invariant                                                 *)

LEMMA ClientInvInit == ClientInit => ClientInv
<1> SUFFICES ASSUME ClientInit PROVE ClientInv
  OBVIOUS
<1>1. TypeOK
  <2>1. queue \in Seq(Ident) /\ sendBuffer \in Seq(Message) /\ wire \in Seq(Message)
    BY DEF ClientInit
  <2>2. calls \in Seq(Call)
    BY DEF ClientInit
  <2>3. DOMAIN q_data = {}
    BY DEF ClientInit
  <2>4. accepted \in [Ident -> Nat] /\ flushed \in [Ident -> Nat]
    BY DEF ClientInit
  <2> QED
    BY <2>1, <2>2, <2>3, <2>4, ClientAssumption DEF ClientInit, TypeOK
<1>2. QueueMatchesData
  BY DEF ClientInit, QueueMatchesData, Elems
<1> QED
  BY <1>1, <1>2 DEF ClientInv

LEMMA SendStep ==
  ASSUME ClientInv, NEW ev \in Event, sendAlert(ev)
  PROVE  ClientInv'
<1> USE DEF ClientInv
<1>0. Len(calls) \in Nat /\ Len(calls) + 1 \in Nat
  BY DEF TypeOK
<1>1. CASE RejectAlert(ev)
  <2>1. [ev |-> ev, cb |-> "error", qcb |-> "error"] \in Call
    BY DEF Call, CallbackState, Outcome
  <2> QED
    BY <1>1, <2>1 DEF RejectAlert, TypeOK, QueueMatchesData
<1>2. CASE BufferAlert(ev)
  <2> DEFINE id == ev.id
  <2>1. id \in Ident
    BY DEF Event
  <2>2. [ev |-> ev, cb |-> "forgotten", qcb |-> "queued"] \in Call
    BY DEF Call, CallbackState
  <2>3. /\ queue' = Queued(id)
        /\ q_data' = [i \in DOMAIN q_data \cup {id} |->
                        IF i = id THEN Folded(ev, Len(calls) + 1) ELSE q_data[i]]
        /\ accepted' = [accepted EXCEPT ![id] = @ + QueuedTally(ev)]
    BY <1>2 DEF BufferAlert, addEventToQueue
  <2>4. Folded(ev, Len(calls) + 1) \in Entry
    BY <1>0, FoldedType
  <2>5. QueuedTally(ev) \in Nat
    BY QueuedTallyType
  <2>6. DOMAIN q_data' = DOMAIN q_data \cup {id} /\ DOMAIN q_data' \subseteq Ident
    BY <2>1, <2>3 DEF TypeOK
  <2>7. \A i \in DOMAIN q_data' : q_data'[i] \in Entry
    BY <2>3, <2>4 DEF TypeOK
  <2>8. accepted' \in [Ident -> Nat]
    BY <2>1, <2>3, <2>5 DEF TypeOK
  <2>9. calls' \in Seq(Call)
    BY <1>2, <2>2 DEF BufferAlert, TypeOK
  <2>10. queue' \in Seq(Ident) /\ QueueMatchesData'
    <3>1. /\ Queued(id) \in Seq(Ident)
          /\ Elems(Queued(id)) = DOMAIN q_data \cup {id}
          /\ \A j, k \in 1..Len(Queued(id)) : Queued(id)[j] = Queued(id)[k] => j = k
      BY <2>1, QueuedMatches
    <3>2. queue' = Queued(id)
      BY <2>3
    <3>3. Elems(queue)' = Elems(queue')
      BY DEF Elems
    <3> HIDE DEF id
    <3> QED
      BY <2>6, <3>1, <3>2, <3>3 DEF QueueMatchesData
  <2> QED
    BY <1>2, <2>6, <2>7, <2>8, <2>9, <2>10 DEF BufferAlert, TypeOK
<1>3. CASE EmitAlert(ev)
  <2>1. [ev |-> ev, cb |-> "waiting", qcb |-> "queued"] \in Call
    BY DEF Call, CallbackState
  <2>3. [events |-> <<ev>>, call |-> Len(calls) + 1] \in Message
    BY <1>0, EventMessageType
  <2>4. wire' \in Seq(Message) /\ sendBuffer' \in Seq(Message)
    BY <1>3, <2>3, EmitType DEF EmitAlert
  <2> QED
    BY <1>3, <2>1, <2>4 DEF EmitAlert, TypeOK, QueueMatchesData
<1> QED
  BY <1>1, <1>2, <1>3 DEF sendAlert

LEMMA FlushStep ==
  ASSUME ClientInv, flushBufferQueue
  PROVE  ClientInv'
<1> USE DEF ClientInv
<1>1. wire' \in Seq(Message) /\ sendBuffer' \in Seq(Message)
  BY BatchType, EmitType DEF flushBufferQueue
<1>2. \A i \in Ident : PendingTally(i) \in Nat
  BY DEF TypeOK, PendingTally, Entry
<1>3. flushed' \in [Ident -> Nat]
  BY <1>2 DEF flushBufferQueue, TypeOK
<1>4. queue' = <<>> /\ DOMAIN q_data' = {}
  BY DEF flushBufferQueue
<1>5. QueueMatchesData'
  BY <1>4 DEF QueueMatchesData, Elems
<1> QED
  BY <1>1, <1>3, <1>4, <1>5 DEF flushBufferQueue, TypeOK

LEMMA ClientInvNext == ClientInv /\ [ClientNext]_clientVars => ClientInv'
<1> SUFFICES ASSUME ClientInv, [ClientNext]_clientVars PROVE ClientInv'
  OBVIOUS
<1>1. CASE Connect
  BY <1>1 DEF Connect, ClientInv, TypeOK, QueueMatchesData
<1>2. CASE Greetings
  BY <1>2 DEF Greetings, ClientInv, TypeOK, QueueMatchesData
<1>3. CASE Disconnect
  BY <1>3 DEF Disconnect, ClientInv, TypeOK, QueueMatchesData
<1>4. ASSUME NEW ev \in Event, sendAlert(ev) PROVE ClientInv'
  BY <1>4, SendStep
<1>5. CASE flushBufferQueue
  BY <1>5, FlushStep
<1>6. CASE Take
  BY <1>6 DEF Take, ClientInv, TypeOK, QueueMatchesData
<1>7. CASE Acks
  <2> PICK n \in 1..MaxCalls, outcome \in Outcome : Acknowledged(n, outcome)
    BY <1>7 DEF Acks
  <2>1. calls' \in Seq(Call)
    <3>0. calls[n] \in Call
      BY DEF Acknowledged, ClientInv, TypeOK
    <3>1. [calls[n] EXCEPT !.cb = outcome] \in Call
      BY <3>0 DEF Call, CallbackState
    <3> QED
      BY <3>1 DEF Acknowledged, ClientInv, TypeOK
  <2> QED
    BY <2>1 DEF Acknowledged, ClientInv, TypeOK, QueueMatchesData
<1>8. CASE UNCHANGED clientVars
  BY <1>8 DEF clientVars, ClientInv, TypeOK, QueueMatchesData
<1> QED
  BY <1>1, <1>2, <1>3, <1>4, <1>5, <1>6, <1>7, <1>8 DEF ClientNext, ClientStep

LEMMA ClientInvHolds == ClientSpec => []ClientInv
BY ClientInvInit, ClientInvNext, PTL DEF ClientSpec

\* Every reachable state of the client is well-typed.
THEOREM ClientTypeCorrect == ClientSpec => []TypeOK
<1>1. ClientInv => TypeOK
  BY DEF ClientInv
<1> QED
  BY <1>1, ClientInvHolds, PTL

\* The outgoing queue and its data always describe the same events, each once.
THEOREM ClientQueueMatchesData == ClientSpec => []QueueMatchesData
<1>1. ClientInv => QueueMatchesData
  BY DEF ClientInv
<1> QED
  BY <1>1, ClientInvHolds, PTL

----------------------------------------------------------------------------
(* No count is lost                                                        *)

\* What a step does to the pending tally of an identifier it leaves alone.
LEMMA PendingUnchanged ==
  ASSUME q_data' = q_data
  PROVE  \A i \in Ident : PendingTally(i)' = PendingTally(i)
BY DEF PendingTally

LEMMA TallySend ==
  ASSUME ClientInv, TallyConserved, NEW ev \in Event, sendAlert(ev)
  PROVE  TallyConserved'
<1>1. CASE RejectAlert(ev)
  BY <1>1, PendingUnchanged DEF RejectAlert, TallyConserved
<1>2. CASE EmitAlert(ev)
  BY <1>2, PendingUnchanged DEF EmitAlert, TallyConserved
<1>3. CASE BufferAlert(ev)
  <2> DEFINE n == Len(calls) + 1
  <2>1. /\ q_data' = [i \in DOMAIN q_data \cup {ev.id} |->
                        IF i = ev.id THEN Folded(ev, n) ELSE q_data[i]]
        /\ accepted' = [accepted EXCEPT ![ev.id] = @ + QueuedTally(ev)]
        /\ flushed' = flushed
    BY <1>3 DEF BufferAlert, addEventToQueue
  <2>2. QueuedTally(ev) \in Nat
    BY QueuedTallyType
  <2> SUFFICES ASSUME NEW i \in Ident
               PROVE  accepted'[i] = flushed'[i] + PendingTally(i)'
    BY DEF TallyConserved
  <2>3. accepted \in [Ident -> Nat] /\ flushed \in [Ident -> Nat] /\ PendingTally(i) \in Nat
    BY DEF ClientInv, TypeOK, PendingTally, Entry
  <2>4. accepted[i] = flushed[i] + PendingTally(i)
    BY DEF TallyConserved
  <2>5. CASE i = ev.id
    <3>1. Folded(ev, n).tally = QueuedTally(ev) + PendingTally(i)
      BY <2>5 DEF Folded
    <3>2. PendingTally(i)' = QueuedTally(ev) + PendingTally(i)
      BY <2>1, <2>5, <3>1 DEF PendingTally
    <3>3. accepted'[i] = accepted[i] + QueuedTally(ev)
      BY <2>1, <2>3, <2>5
    <3> QED
      BY <2>1, <2>2, <2>3, <2>4, <3>2, <3>3
  <2>6. CASE i # ev.id
    <3>1. PendingTally(i)' = PendingTally(i)
      BY <2>1, <2>6 DEF PendingTally
    <3>2. accepted'[i] = accepted[i]
      BY <2>1, <2>3, <2>6
    <3> QED
      BY <2>1, <2>4, <3>1, <3>2
  <2> QED
    BY <2>5, <2>6
<1> QED
  BY <1>1, <1>2, <1>3 DEF sendAlert

LEMMA TallyFlush ==
  ASSUME ClientInv, TallyConserved, flushBufferQueue
  PROVE  TallyConserved'
<1> SUFFICES ASSUME NEW i \in Ident
             PROVE  accepted'[i] = flushed'[i] + PendingTally(i)'
  BY DEF TallyConserved
<1>1. PendingTally(i)' = 0
  BY DEF flushBufferQueue, PendingTally
<1>2. flushed'[i] = flushed[i] + IF i \in Elems(queue) THEN PendingTally(i) ELSE 0
  BY DEF flushBufferQueue
<1>3. i \notin Elems(queue) => PendingTally(i) = 0
  BY DEF ClientInv, QueueMatchesData, PendingTally
<1>4. accepted'[i] = flushed[i] + PendingTally(i)
  BY DEF flushBufferQueue, TallyConserved
<1>5. flushed[i] \in Nat /\ PendingTally(i) \in Nat
  BY DEF ClientInv, TypeOK, PendingTally, Entry
<1> QED
  BY <1>1, <1>2, <1>3, <1>4, <1>5

\* Every count accepted into the buffer is either pending or has been flushed.
THEOREM ClientTallyConserved == ClientSpec => []TallyConserved
<1>1. ClientInit => TallyConserved
  BY DEF ClientInit, TallyConserved, PendingTally
<1>2. ClientInv /\ TallyConserved /\ [ClientNext]_clientVars => TallyConserved'
  <2> SUFFICES ASSUME ClientInv, TallyConserved, [ClientNext]_clientVars
               PROVE  TallyConserved'
    OBVIOUS
  <2>1. ASSUME NEW ev \in Event, sendAlert(ev) PROVE TallyConserved'
    BY <2>1, TallySend
  <2>2. CASE flushBufferQueue
    BY <2>2, TallyFlush
  <2>3. CASE Connect \/ Greetings \/ Disconnect
    BY <2>3, PendingUnchanged DEF Connect, Greetings, Disconnect, TallyConserved
  <2>4. CASE Take \/ Acks
    BY <2>4, PendingUnchanged DEF Take, Acks, Acknowledged, TallyConserved
  <2>5. CASE UNCHANGED clientVars
    BY <2>5, PendingUnchanged DEF clientVars, TallyConserved
  <2> QED
    BY <2>1, <2>2, <2>3, <2>4, <2>5 DEF ClientNext, ClientStep
<1> QED
  BY <1>1, <1>2, ClientInvHolds, PTL DEF ClientSpec

----------------------------------------------------------------------------
(* The occurrences of a pending entry                                      *)

\* What OccurrencesFaithful says of one entry, given the calls made so far.
EntryFaithful(i, entry, made) ==
  LET occ == entry.occurrences IN
  /\ \A k \in 1..Len(occ) : occ[k] \in 1..Len(made) /\ made[occ[k]].ev.id = i
  /\ \A j, k \in 1..Len(occ) : j < k => occ[j] < occ[k]
  /\ Len(occ) <= entry.tally

LEMMA FaithfulDef ==
  OccurrencesFaithful <=> \A i \in DOMAIN q_data : EntryFaithful(i, q_data[i], calls)
BY DEF OccurrencesFaithful, EntryFaithful

\* Another call leaves what an entry stands for as it was.
LEMMA FaithfulAppend ==
  ASSUME NEW i \in Ident, NEW entry \in Entry, NEW made \in Seq(Call), NEW c \in Call,
         EntryFaithful(i, entry, made)
  PROVE  EntryFaithful(i, entry, Append(made, c))
<1>1. /\ Len(Append(made, c)) = Len(made) + 1 /\ Len(made) \in Nat
      /\ \A k \in 1..Len(made) : Append(made, c)[k] = made[k]
  OBVIOUS
<1> QED
  BY <1>1 DEF EntryFaithful

\* The entry an event is folded into stands for the calls of the old entry and
\* for this one.
LEMMA FaithfulFolded ==
  ASSUME ClientInv, OccurrencesFaithful, NEW ev \in Event, NEW c \in Call, c.ev = ev
  PROVE  EntryFaithful(ev.id, Folded(ev, Len(calls) + 1), Append(calls, c))
<1> DEFINE n == Len(calls) + 1
           made == Append(calls, c)
           old == PendingOccurrences(ev.id)
           new == Append(old, n)
<1>1. /\ calls \in Seq(Call) /\ Len(calls) \in Nat
      /\ Len(made) = n
      /\ \A k \in 1..Len(calls) : made[k] = calls[k]
      /\ made[n] = c
  BY DEF ClientInv, TypeOK
<1>2. old \in Seq(Nat) /\ PendingTally(ev.id) \in Nat /\ QueuedTally(ev) \in Nat \ {0}
  BY QueuedTallyType DEF ClientInv, TypeOK, PendingOccurrences, PendingTally, Entry
<1>3. /\ \A k \in 1..Len(old) : old[k] \in 1..Len(calls) /\ calls[old[k]].ev.id = ev.id
      /\ \A j, k \in 1..Len(old) : j < k => old[j] < old[k]
      /\ Len(old) <= PendingTally(ev.id)
  <2>1. CASE ev.id \in DOMAIN q_data
    BY <2>1 DEF OccurrencesFaithful, PendingOccurrences, PendingTally
  <2>2. CASE ev.id \notin DOMAIN q_data
    BY <2>2 DEF PendingOccurrences, PendingTally
  <2> QED
    BY <2>1, <2>2
<1>4. /\ Len(new) = Len(old) + 1 /\ Len(old) \in Nat
      /\ \A k \in 1..Len(old) : new[k] = old[k]
      /\ new[Len(old) + 1] = n
  BY <1>1, <1>2
<1>5. /\ Folded(ev, n).occurrences = new
      /\ Folded(ev, n).tally = QueuedTally(ev) + PendingTally(ev.id)
  BY DEF Folded
<1> HIDE DEF new, old, n, made
<1>6. \A k \in 1..Len(new) : new[k] \in 1..Len(made) /\ made[new[k]].ev.id = ev.id
  <2> SUFFICES ASSUME NEW k \in 1..Len(new)
               PROVE  new[k] \in 1..Len(made) /\ made[new[k]].ev.id = ev.id
    OBVIOUS
  <2>1. CASE k \in 1..Len(old)
    <3>1. new[k] = old[k] /\ old[k] \in 1..Len(calls) /\ calls[old[k]].ev.id = ev.id
      BY <1>3, <1>4, <2>1
    <3>2. 1..Len(calls) \subseteq 1..n
      BY <1>1 DEF n
    <3> QED
      BY <1>1, <3>1, <3>2
  <2>2. CASE k = Len(old) + 1
    <3>1. n \in 1..n
      BY <1>1 DEF n
    <3> QED
      BY <1>1, <1>4, <2>2, <3>1
  <2> QED
    BY <1>4, <2>1, <2>2
<1>7. \A j, k \in 1..Len(new) : j < k => new[j] < new[k]
  <2> SUFFICES ASSUME NEW j \in 1..Len(new), NEW k \in 1..Len(new), j < k
               PROVE  new[j] < new[k]
    OBVIOUS
  <2>1. CASE k \in 1..Len(old)
    BY <1>3, <1>4, <2>1
  <2>2. CASE k = Len(old) + 1
    <3>1. j \in 1..Len(old) /\ new[j] = old[j] /\ old[j] \in 1..Len(calls)
      BY <1>3, <1>4, <2>2
    <3>2. old[j] < n
      BY <1>1, <3>1 DEF n
    <3> QED
      BY <1>4, <2>2, <3>1, <3>2
  <2> QED
    BY <1>4, <2>1, <2>2
<1>8. Len(new) <= QueuedTally(ev) + PendingTally(ev.id)
  BY <1>2, <1>3, <1>4
<1>9. EntryFaithful(ev.id, Folded(ev, n), made)
  BY <1>5, <1>6, <1>7, <1>8 DEF EntryFaithful
<1> QED
  BY <1>9 DEF n, made

LEMMA FaithfulSend ==
  ASSUME ClientInv, OccurrencesFaithful, NEW ev \in Event, sendAlert(ev)
  PROVE  OccurrencesFaithful'
<1>1. PICK c \in Call : c.ev = ev /\ calls' = Append(calls, c)
  BY SendAppendsCall
<1>2. \A i \in DOMAIN q_data : EntryFaithful(i, q_data[i], calls')
  BY <1>1, FaithfulAppend, FaithfulDef DEF ClientInv, TypeOK
<1>3. CASE q_data' = q_data
  BY <1>2, <1>3 DEF OccurrencesFaithful, EntryFaithful
<1>4. CASE BufferAlert(ev)
  <2>1. q_data' = [i \in DOMAIN q_data \cup {ev.id} |->
                     IF i = ev.id THEN Folded(ev, Len(calls) + 1) ELSE q_data[i]]
    BY <1>4 DEF BufferAlert, addEventToQueue
  <2>2. EntryFaithful(ev.id, Folded(ev, Len(calls) + 1), calls')
    BY <1>1, FaithfulFolded
  <2>3. \A i \in DOMAIN q_data' : EntryFaithful(i, q_data'[i], calls')
    BY <1>2, <2>1, <2>2
  <2> QED
    BY <2>3 DEF OccurrencesFaithful, EntryFaithful
<1> QED
  BY <1>3, <1>4 DEF sendAlert, RejectAlert, EmitAlert

\* An entry stands for distinct calls for its own identifier, in order.
THEOREM ClientOccurrencesFaithful == ClientSpec => []OccurrencesFaithful
<1>1. ClientInit => OccurrencesFaithful
  BY DEF ClientInit, OccurrencesFaithful
<1>2. ClientInv /\ OccurrencesFaithful /\ [ClientNext]_clientVars => OccurrencesFaithful'
  <2> SUFFICES ASSUME ClientInv, OccurrencesFaithful, [ClientNext]_clientVars
               PROVE  OccurrencesFaithful'
    OBVIOUS
  <2>1. ASSUME NEW ev \in Event, sendAlert(ev) PROVE OccurrencesFaithful'
    BY <2>1, FaithfulSend
  <2>2. CASE flushBufferQueue
    BY <2>2 DEF flushBufferQueue, OccurrencesFaithful
  <2>3. CASE UNCHANGED <<calls, q_data>>
    BY <2>3 DEF OccurrencesFaithful
  <2>4. CASE Acks
    <3> PICK n \in 1..MaxCalls, outcome \in Outcome : Acknowledged(n, outcome)
      BY <2>4 DEF Acks
    <3>1. /\ n \in 1..Len(calls)
          /\ calls' = [calls EXCEPT ![n] = [calls[n] EXCEPT !.cb = outcome]]
          /\ q_data' = q_data
      BY DEF Acknowledged
    <3>2. Len(calls') = Len(calls) /\ \A k \in 1..Len(calls) : calls'[k].ev = calls[k].ev
      BY <3>1 DEF ClientInv, TypeOK, Call
    <3> QED
      BY <3>1, <3>2 DEF OccurrencesFaithful
  <2> QED
    BY <2>1, <2>2, <2>3, <2>4
    DEF ClientNext, ClientStep, Connect, Greetings, Disconnect, Take, clientVars
<1> QED
  BY <1>1, <1>2, ClientInvHolds, PTL DEF ClientSpec

----------------------------------------------------------------------------
(* The order of what is under way                                          *)

\* What every step keeps of the messages under way.  While the socket is up
\* nothing waits for it, so a connection that is lost loses all of them and
\* one that comes back does not put an older message behind a newer one.
OrderInv ==
  /\ socket = "up" => sendBuffer = <<>>
  /\ ~buffering => \A k \in 1..Len(underWay) : underWay[k].call \in 1..Len(calls)
  /\ SentInOrder

\* The messages under way are a sequence of messages.
LEMMA UnderWayType ==
  ASSUME TypeOK
  PROVE  underWay \in Seq(Message) /\ Len(underWay) \in Nat
BY ConcatProperties DEF TypeOK, underWay

\* Emitting a message puts it behind all that is under way.
LEMMA UnderWayEmit ==
  ASSUME TypeOK, socket = "up" => sendBuffer = <<>>, NEW m \in Message, Emit(m)
  PROVE  underWay' = Append(underWay, m)
<1>0. wire \in Seq(Message) /\ sendBuffer \in Seq(Message)
  BY DEF TypeOK
<1>1. CASE socket = "up"
  <2>1. wire' = Append(wire, m) /\ sendBuffer = <<>> /\ sendBuffer' = <<>>
    BY <1>1 DEF Emit
  <2>2. Append(wire, m) \in Seq(Message)
    BY <1>0
  <2>3. wire \o <<>> = wire /\ Append(wire, m) \o <<>> = Append(wire, m)
    BY <1>0, <2>2, ConcatEmptySeq
  <2> QED
    BY <2>1, <2>3 DEF underWay
<1>2. CASE socket # "up"
  <2>1. sendBuffer' = Append(sendBuffer, m) /\ wire' = wire
    BY <1>2 DEF Emit
  <2>2. <<m>> \in Seq(Message)
    OBVIOUS
  <2>3. (wire \o sendBuffer) \o <<m>> = wire \o (sendBuffer \o <<m>>)
    BY <1>0, <2>2, ConcatAssociative
  <2>4. sendBuffer \o <<m>> = Append(sendBuffer, m)
    BY <1>0, AppendIsConcat
  <2>5. (wire \o sendBuffer) \o <<m>> = Append(wire \o sendBuffer, m)
    BY <1>0, ConcatProperties, AppendIsConcat
  <2> QED
    BY <2>1, <2>3, <2>4, <2>5 DEF underWay
<1> QED
  BY <1>1, <1>2

\* A connection changes nothing in what is under way.
LEMMA UnderWayConnect ==
  ASSUME TypeOK, Connect
  PROVE  underWay' = underWay /\ sendBuffer' = <<>>
<1>1. wire \o sendBuffer \in Seq(Message)
  BY ConcatProperties DEF TypeOK
<1>2. (wire \o sendBuffer) \o <<>> = wire \o sendBuffer
  BY <1>1, ConcatEmptySeq
<1> QED
  BY <1>2 DEF underWay, Connect

\* A lost connection leaves nothing under way.
LEMMA UnderWayDisconnect ==
  ASSUME socket = "up" => sendBuffer = <<>>, Disconnect
  PROVE  underWay' = <<>> /\ sendBuffer' = <<>>
<1>1. wire' = <<>> /\ sendBuffer' = <<>>
  BY DEF Disconnect
<1> QED
  BY <1>1 DEF underWay

\* Taking a message off the wire takes the first of those under way.
LEMMA UnderWayTaken ==
  ASSUME TypeOK, wire # <<>>, wire' = Tail(wire), sendBuffer' = sendBuffer
  PROVE  /\ underWay # <<>>
         /\ Len(underWay) \in Nat \ {0}
         /\ underWay[1] = Head(wire) /\ Head(wire) \in Message
         /\ underWay' = Tail(underWay)
         /\ Len(underWay') = Len(underWay) - 1
         /\ \A k \in 1..Len(underWay') : underWay'[k] = underWay[k + 1]
<1>0. wire \in Seq(Message) /\ sendBuffer \in Seq(Message) /\ underWay \in Seq(Message)
  BY UnderWayType DEF TypeOK
<1>1. Len(wire) \in Nat \ {0} /\ Len(sendBuffer) \in Nat
  BY <1>0, EmptySeq
<1>2. /\ Len(underWay) = Len(wire) + Len(sendBuffer)
      /\ \A i \in 1..Len(wire) + Len(sendBuffer) :
           underWay[i] = IF i <= Len(wire) THEN wire[i] ELSE sendBuffer[i - Len(wire)]
  BY <1>0, ConcatProperties DEF underWay
<1>3. underWay # <<>> /\ Len(underWay) \in Nat \ {0}
  BY <1>0, <1>1, <1>2
<1>4. underWay[1] = wire[1] /\ wire[1] = Head(wire) /\ Head(wire) \in Message
  BY <1>0, <1>1, <1>2
<1>5. /\ Tail(wire) \in Seq(Message) /\ Len(Tail(wire)) = Len(wire) - 1
      /\ \A i \in 1..Len(Tail(wire)) : Tail(wire)[i] = wire[i + 1]
  BY <1>0, HeadTailProperties
<1>6. /\ Tail(underWay) \in Seq(Message) /\ Len(Tail(underWay)) = Len(underWay) - 1
      /\ \A i \in 1..Len(Tail(underWay)) : Tail(underWay)[i] = underWay[i + 1]
  BY <1>0, <1>3, HeadTailProperties
<1>7. /\ Tail(wire) \o sendBuffer \in Seq(Message)
      /\ Len(Tail(wire) \o sendBuffer) = Len(Tail(wire)) + Len(sendBuffer)
      /\ \A i \in 1..Len(Tail(wire)) + Len(sendBuffer) :
           (Tail(wire) \o sendBuffer)[i] =
             IF i <= Len(Tail(wire)) THEN Tail(wire)[i] ELSE sendBuffer[i - Len(Tail(wire))]
  BY <1>0, <1>5, ConcatProperties
<1>8. Tail(wire) \o sendBuffer = Tail(underWay)
  <2>1. Len(Tail(wire) \o sendBuffer) = Len(Tail(underWay))
    BY <1>1, <1>2, <1>5, <1>6, <1>7
  <2>2. ASSUME NEW i \in 1..Len(Tail(underWay))
        PROVE  (Tail(wire) \o sendBuffer)[i] = Tail(underWay)[i]
    <3>1. i \in 1..Len(Tail(wire)) + Len(sendBuffer) /\ i + 1 \in 1..Len(wire) + Len(sendBuffer)
      BY <1>1, <1>2, <1>5, <1>6
    <3>2. Tail(underWay)[i] = underWay[i + 1]
      BY <1>6
    <3>3. CASE i <= Len(Tail(wire))
      BY <1>1, <1>2, <1>5, <1>7, <3>1, <3>2, <3>3
    <3>4. CASE ~(i <= Len(Tail(wire)))
      <4>1. i - Len(Tail(wire)) = (i + 1) - Len(wire) /\ ~(i + 1 <= Len(wire))
        BY <1>1, <1>5, <3>1, <3>4
      <4> QED
        BY <1>2, <1>7, <3>1, <3>2, <3>4, <4>1
    <3> QED
      BY <3>3, <3>4
  <2> QED
    BY <1>6, <1>7, <2>1, <2>2, SeqEqual
<1>9. underWay' = Tail(underWay)
  BY <1>8 DEF underWay
<1> QED
  BY <1>3, <1>4, <1>6, <1>9

LEMMA OrderSend ==
  ASSUME ClientInv, OrderInv, NEW ev \in Event, sendAlert(ev)
  PROVE  OrderInv'
<1>0. calls \in Seq(Call) /\ Len(calls) \in Nat /\ underWay \in Seq(Message) /\ Len(underWay) \in Nat
  BY UnderWayType DEF ClientInv, TypeOK
<1>1. Len(calls') = Len(calls) + 1 /\ buffering' = buffering /\ socket' = socket
  <2>1. PICK c \in Call : calls' = Append(calls, c)
    BY SendAppendsCall
  <2>2. Len(calls') = Len(calls) + 1
    BY <1>0, <2>1
  <2>3. buffering' = buffering /\ socket' = socket
    BY DEF sendAlert, RejectAlert, BufferAlert, EmitAlert
  <2> QED
    BY <2>2, <2>3
<1>2. CASE RejectAlert(ev) \/ BufferAlert(ev)
  <2>1. wire' = wire /\ sendBuffer' = sendBuffer
    BY <1>2 DEF RejectAlert, BufferAlert
  <2>2. underWay' = underWay
    BY <2>1 DEF underWay
  <2> QED
    BY <1>0, <1>1, <2>1, <2>2 DEF OrderInv, SentInOrder
<1>3. CASE EmitAlert(ev)
  <2> DEFINE m == [events |-> <<ev>>, call |-> Len(calls) + 1]
  <2>1. m \in Message
    BY <1>0, EventMessageType
  <2>2. underWay' = Append(underWay, m)
    BY <1>3, <2>1, UnderWayEmit DEF EmitAlert, ClientInv, OrderInv
  <2>3. /\ Len(underWay') = Len(underWay) + 1
        /\ \A k \in 1..Len(underWay) : underWay'[k] = underWay[k]
        /\ underWay'[Len(underWay) + 1].call = Len(calls) + 1
    BY <1>0, <2>1, <2>2
  <2>4. ~buffering
    BY <1>3 DEF EmitAlert
  <2>5. socket' = "up" => sendBuffer' = <<>>
    BY <1>3 DEF EmitAlert, Emit, OrderInv
  <2> HIDE DEF m
  <2>6. \A k \in 1..Len(underWay') : underWay'[k].call \in 1..Len(calls')
    BY <1>0, <1>1, <2>3, <2>4 DEF OrderInv
  <2>7. ASSUME NEW j \in 1..Len(underWay'), NEW k \in 1..Len(underWay'), j < k
        PROVE  underWay'[j].call < underWay'[k].call
    <3>1. j \in 1..Len(underWay)
      BY <1>0, <2>3, <2>7
    <3>2. underWay'[j] = underWay[j] /\ underWay[j].call \in 1..Len(calls)
      BY <2>3, <2>4, <3>1 DEF OrderInv
    <3>3. CASE k \in 1..Len(underWay)
      BY <2>3, <2>4, <2>7, <3>1, <3>3 DEF OrderInv, SentInOrder
    <3>4. CASE k = Len(underWay) + 1
      BY <1>0, <2>3, <3>2, <3>4
    <3> QED
      BY <1>0, <2>3, <3>3, <3>4
  <2> QED
    BY <1>1, <2>5, <2>6, <2>7 DEF OrderInv, SentInOrder
<1> QED
  BY <1>2, <1>3 DEF sendAlert

LEMMA OrderNext == ClientInv /\ OrderInv /\ [ClientNext]_clientVars => OrderInv'
<1> SUFFICES ASSUME ClientInv, OrderInv, [ClientNext]_clientVars PROVE OrderInv'
  OBVIOUS
<1>0. TypeOK /\ underWay \in Seq(Message) /\ Len(underWay) \in Nat
  BY UnderWayType DEF ClientInv
<1>1. CASE Connect
  BY <1>0, <1>1, UnderWayConnect DEF Connect, OrderInv, SentInOrder
<1>2. CASE Disconnect
  <2>1. underWay' = <<>> /\ sendBuffer' = <<>>
    BY <1>2, UnderWayDisconnect DEF OrderInv
  <2> QED
    BY <1>2, <2>1 DEF Disconnect, OrderInv, SentInOrder
<1>3. ASSUME NEW ev \in Event, sendAlert(ev) PROVE OrderInv'
  BY <1>3, OrderSend
<1>4. CASE flushBufferQueue
  <2>1. buffering /\ buffering' = buffering /\ socket' = socket
    BY <1>4 DEF flushBufferQueue
  <2>2. socket' = "up" => sendBuffer' = <<>>
    BY <1>4 DEF flushBufferQueue, Emit, OrderInv
  <2> QED
    BY <2>1, <2>2 DEF OrderInv, SentInOrder
<1>5. CASE Take
  <2>1. wire # <<>> /\ wire' = Tail(wire) /\ sendBuffer' = sendBuffer
    BY <1>5 DEF Take
  <2>2. /\ Len(underWay') = Len(underWay) - 1
        /\ \A k \in 1..Len(underWay') : underWay'[k] = underWay[k + 1]
    BY <1>0, <2>1, UnderWayTaken
  <2>3. UNCHANGED <<socket, buffering, calls, sendBuffer>>
    BY <1>5 DEF Take
  <2>4. \A k \in 1..Len(underWay') : k + 1 \in 1..Len(underWay)
    BY <1>0, <2>2
  <2>5. ASSUME ~buffering, NEW j \in 1..Len(underWay'), NEW k \in 1..Len(underWay'), j < k
        PROVE  underWay'[j].call < underWay'[k].call
    <3>1. j + 1 < k + 1
      BY <1>0, <2>2, <2>5
    <3> QED
      BY <2>2, <2>4, <2>5, <3>1 DEF OrderInv, SentInOrder
  <2> QED
    BY <2>2, <2>3, <2>4, <2>5 DEF OrderInv, SentInOrder
<1>6. CASE Acks
  <2>1. Len(calls') = Len(calls)
    BY <1>0, <1>6 DEF Acks, Acknowledged, TypeOK
  <2>2. UNCHANGED <<wire, sendBuffer, buffering, socket>>
    BY <1>6 DEF Acks, Acknowledged
  <2> QED
    BY <2>1, <2>2 DEF OrderInv, SentInOrder, underWay
<1>7. CASE Greetings \/ UNCHANGED clientVars
  BY <1>7 DEF Greetings, clientVars, OrderInv, SentInOrder, underWay
<1> QED
  BY <1>1, <1>2, <1>3, <1>4, <1>5, <1>6, <1>7 DEF ClientNext, ClientStep

LEMMA OrderHolds == ClientSpec => []OrderInv
<1>1. ClientInit => OrderInv
  <2> SUFFICES ASSUME ClientInit PROVE OrderInv
    OBVIOUS
  <2>1. underWay = <<>>
    BY DEF ClientInit, underWay
  <2> QED
    BY <2>1 DEF ClientInit, OrderInv, SentInOrder
<1> QED
  BY <1>1, OrderNext, ClientInvHolds, PTL DEF ClientSpec

\* Without buffering, the messages under way are in the order of their calls
\* and none is there twice, whatever becomes of the connection.
THEOREM ClientSentInOrder == ClientSpec => []SentInOrder
<1>1. OrderInv => SentInOrder
  BY DEF OrderInv
<1> QED
  BY <1>1, OrderHolds, PTL

----------------------------------------------------------------------------
(* The pipeline: the inductive invariant                                   *)

\* What an answered insert must look like for an outcome to be true of it.
Speaks(outcome, op) ==
  IF outcome = "error" THEN Rejected(op) ELSE Fulfilled(op) /\ outcome = Answer(op)

\* Without buffering, a message is the event of one call, which waits for it;
\* with buffering, no message has a call.
MessagesInv ==
  \A j \in 1..Len(underWay) :
    IF buffering
    THEN underWay[j].call = NoCall
    ELSE /\ calls[underWay[j].call].cb = "waiting"
         /\ underWay[j].events = <<calls[underWay[j].call].ev>>

\* An insert that has a call handles that call's event, which is no longer
\* under way; no two inserts have the same call.
OpsInv ==
  /\ \A k \in 1..Len(ops) :
       /\ ops[k].part["tracking"] # "failed"
       /\ ops[k].call # NoCall =>
            /\ ops[k].call \in 1..Len(calls)
            /\ calls[ops[k].call].ev.id = ops[k].id
            /\ ~ops[k].answered => calls[ops[k].call].cb = "waiting"
            /\ \A j \in 1..Len(underWay) : underWay[j].call # ops[k].call
  /\ \A j, k \in 1..Len(ops) : ops[j].call = ops[k].call /\ ops[k].call # NoCall => j = k

\* What acknowledgements say, on their way and once they have arrived, is true
\* of the insert that answered.
AnswersInv ==
  /\ \A a \in acks : \E k \in OpsOf(a.call) : Speaks(a.outcome, ops[k])
  /\ \A n \in 1..Len(calls) :
       calls[n].cb \in {"inserted", "updated", "dropped"} =>
         \E k \in OpsOf(n) : Speaks(calls[n].cb, ops[k])
  /\ \A n \in 1..Len(calls) : \A k \in OpsOf(n) : calls[n].cb = "error" => Rejected(ops[k])

\* The insert that created an alert is the only one for its identifier.
CreationsInv ==
  /\ \A k \in 1..Len(ops) : ops[k].part["alert"] = "inserted" => alerts[ops[k].id] > 0
  /\ \A j, k \in 1..Len(ops) :
       /\ ops[j].part["alert"] = "inserted" /\ ops[k].part["alert"] = "inserted"
       /\ ops[j].id = ops[k].id
       => j = k

PathInv ==
  /\ ClientInv
  /\ OrderInv
  /\ PipelineTypeOK
  /\ Len(calls) <= MaxCalls
  /\ MessagesInv
  /\ OpsInv
  /\ AnswersInv
  /\ CreationsInv

\* The fields of an insert are of their types.
LEMMA OpType ==
  ASSUME PipelineTypeOK
  PROVE  /\ ops \in Seq(Op) /\ Len(ops) \in Nat
         /\ \A k \in 1..Len(ops) :
              /\ ops[k] \in Op
              /\ ops[k].id \in Ident
              /\ ops[k].part \in [Part -> PartState]
              /\ ops[k].answered \in BOOLEAN
              /\ ops[k].call \in Nat \cup {NoCall}
<1>1. ops \in Seq(Op)
  BY DEF PipelineTypeOK
<1>2. Len(ops) \in Nat /\ \A k \in 1..Len(ops) : ops[k] \in Op
  BY <1>1
<1> QED
  BY <1>1, <1>2 DEF Op

\* A call is among those that inserts answered only if it is a call.
LEMMA OpsOfCall ==
  ASSUME NEW n \in Nat, NEW k \in OpsOf(n)
  PROVE  k \in 1..Len(ops) /\ ops[k].call = n /\ ops[k].call # NoCall /\ ops[k].answered
BY CallAssumption DEF OpsOf

LEMMA PathInvInit == Init => PathInv
<1> SUFFICES ASSUME Init PROVE PathInv
  OBVIOUS
<1> USE DEF Init
<1>1. ClientInv
  BY ClientInvInit
<1>2. underWay = <<>>
  BY DEF ClientInit, underWay
<1>3. OrderInv
  BY <1>2 DEF ClientInit, OrderInv, SentInOrder
<1>4. ops = <<>> /\ acks = {} /\ calls = <<>>
  BY DEF ServerInit, ClientInit
<1>5. PipelineTypeOK
  <2>1. TypeOK /\ ops \in Seq(Op) /\ acks \subseteq [call : 1..Len(calls), outcome : Outcome]
    BY <1>1, <1>4 DEF ClientInv
  <2>2. serverRulesTracking \in BOOLEAN
    BY ServerAssumption DEF ServerInit
  <2>3. /\ alerts \in [Ident -> Nat] /\ occurrences \in [Ident -> Nat]
        /\ received \in [Ident -> Nat]
    BY DEF ServerInit
  <2> QED
    BY <2>1, <2>2, <2>3 DEF PipelineTypeOK
<1>6. Len(calls) <= MaxCalls
  BY <1>4, ClientAssumption
<1>7. MessagesInv /\ OpsInv /\ AnswersInv /\ CreationsInv
  BY <1>2, <1>4 DEF MessagesInv, OpsInv, AnswersInv, CreationsInv
<1> QED
  BY <1>1, <1>3, <1>5, <1>6, <1>7 DEF PathInv

\* Seen from the client, every step of the pipeline is one of its own, the
\* taking of a message, or the arrival of an acknowledgement.
LEMMA StepIsClients ==
  ASSUME PathInv, [Next]_vars
  PROVE  [ClientNext]_clientVars
<1>1. CASE Connected \/ Disconnected \/ Flush \/ \E ev \in Event : Send(ev)
  BY <1>1 DEF Connected, Disconnected, Flush, Send, ClientNext, ClientStep
<1>2. CASE Server
  <2>1. CASE Receive
    BY <1>2, <2>1 DEF Server, Receive, Take, ClientNext
  <2>2. CASE SetTracking \/ \E k \in 1..Len(ops) : OpStep(k)
    <3>1. wire' = wire
      BY <2>2 DEF SetTracking, OpStep, WriteInventory, WriteOccurrence, WriteTracking,
                  UpsertAlert, Acknowledge
    <3> QED
      BY <1>2, <3>1 DEF Server, clientVars
  <2> QED
    BY <1>2, <2>1, <2>2 DEF Server, ServerStep
<1>3. CASE AckArrives
  <2>1. PICK a \in acks : Acknowledged(a.call, a.outcome)
    BY <1>3 DEF AckArrives
  <2>2. a.call \in 1..Len(calls) /\ a.outcome \in Outcome
    BY DEF PathInv, PipelineTypeOK
  <2>3. Len(calls) \in Nat /\ Len(calls) <= MaxCalls /\ MaxCalls \in Nat
    BY ClientAssumption DEF PathInv, ClientInv, TypeOK
  <2>4. a.call \in 1..MaxCalls
    BY <2>2, <2>3
  <2> QED
    BY <2>1, <2>2, <2>4 DEF Acks, ClientNext
<1>4. CASE UNCHANGED vars
  BY <1>4 DEF vars
<1> QED
  BY <1>1, <1>2, <1>3, <1>4 DEF Next

\* The client's part of the invariant, after any step.
LEMMA ClientPart ==
  ASSUME PathInv, [Next]_vars
  PROVE  ClientInv' /\ OrderInv' /\ TypeOK'
<1>1. [ClientNext]_clientVars
  BY StepIsClients
<1>2. ClientInv'
  BY <1>1, ClientInvNext DEF PathInv
<1>3. OrderInv'
  BY <1>1, OrderNext DEF PathInv
<1> QED
  BY <1>2, <1>3 DEF ClientInv

\* What the answers must satisfy after a step.
LEMMA AnswersAfter ==
  ASSUME \A a \in acks' : \E k \in OpsOf(a.call)' : Speaks(a.outcome, ops'[k]),
         \A m \in 1..Len(calls') :
           calls'[m].cb \in {"inserted", "updated", "dropped"} =>
             \E k \in OpsOf(m)' : Speaks(calls'[m].cb, ops'[k]),
         \A m \in 1..Len(calls') : \A k \in OpsOf(m)' :
           calls'[m].cb = "error" => Rejected(ops'[k])
  PROVE  AnswersInv'
BY DEF AnswersInv, Speaks, Rejected, Fulfilled, Answer

\* What the answers must satisfy after a step that leaves the inserts alone.
LEMMA AnswersSame ==
  ASSUME ops' = ops, 
         \A a \in acks' : \E k \in OpsOf(a.call) : Speaks(a.outcome, ops[k]),
         \A m \in 1..Len(calls') :
           calls'[m].cb \in {"inserted", "updated", "dropped"} =>
             \E k \in OpsOf(m) : Speaks(calls'[m].cb, ops[k]),
         \A m \in 1..Len(calls') : \A k \in OpsOf(m) :
           calls'[m].cb = "error" => Rejected(ops[k])
  PROVE  AnswersInv'
<1>1. \A m : OpsOf(m)' = OpsOf(m)
  BY DEF OpsOf
<1>2. \A o, k : Speaks(o, ops[k])' = Speaks(o, ops[k]) /\ Rejected(ops[k])' = Rejected(ops[k])
  BY DEF Speaks, Rejected, Fulfilled, Answer
<1> QED
  BY <1>1, <1>2 DEF AnswersInv

\* The types the steps below rest on.
LEMMA PathTypes ==
  ASSUME PathInv
  PROVE  /\ TypeOK /\ calls \in Seq(Call) /\ Len(calls) \in Nat
         /\ underWay \in Seq(Message) /\ Len(underWay) \in Nat
<1>1. TypeOK
  BY DEF PathInv, ClientInv
<1>2. calls \in Seq(Call)
  BY <1>1 DEF TypeOK
<1> QED
  BY <1>1, <1>2, UnderWayType

\* A step of the client by itself: one call more at most, in answer to which
\* nothing has happened yet, and one message more at most.
LEMMA PathSend ==
  ASSUME PathInv, [Next]_vars, NEW ev \in Event, Send(ev)
  PROVE  PathInv'
<1> DEFINE n == Len(calls) + 1
<1>0. /\ ClientInv' /\ OrderInv' /\ TypeOK'
      /\ TypeOK /\ calls \in Seq(Call) /\ Len(calls) \in Nat
      /\ underWay \in Seq(Message) /\ Len(underWay) \in Nat
  BY ClientPart, PathTypes
<1>1. /\ UNCHANGED <<serverRulesTracking, ops, alerts, occurrences, acks, received>>
      /\ UNCHANGED <<buffering, socket>>
      /\ Len(calls) < MaxCalls
  BY DEF Send, serverOnly, sendAlert, RejectAlert, BufferAlert, EmitAlert
<1>2. PICK c \in Call : c.ev = ev /\ calls' = Append(calls, c)
  BY SendAppendsCall DEF Send
<1>3. /\ Len(calls') = n
      /\ \A k \in 1..Len(calls) : calls'[k] = calls[k] /\ k \in 1..Len(calls') /\ k # n
      /\ calls'[n] = c
  BY <1>0, <1>2
<1>4. PipelineTypeOK'
  <2>1. acks' \subseteq [call : 1..Len(calls'), outcome : Outcome]
    BY <1>1, <1>3 DEF PathInv, PipelineTypeOK
  <2> QED
    BY <1>0, <1>1, <2>1 DEF PathInv, PipelineTypeOK
<1>5. Len(calls') <= MaxCalls
  BY <1>0, <1>1, <1>3, ClientAssumption
<1>6. \/ underWay' = underWay /\ c.cb \in {"error", "forgotten"}
      \/ ~buffering /\ underWay' = Append(underWay, [events |-> <<ev>>, call |-> n]) /\ c.cb = "waiting"
  <2>1. CASE RejectAlert(ev) \/ BufferAlert(ev)
    <3>1. underWay' = underWay
      BY <2>1 DEF RejectAlert, BufferAlert, underWay
    <3>2. calls'[n].cb \in {"error", "forgotten"}
      BY <1>0, <2>1 DEF RejectAlert, BufferAlert
    <3> QED
      BY <1>3, <3>1, <3>2
  <2>2. CASE EmitAlert(ev)
    <3>1. [events |-> <<ev>>, call |-> n] \in Message
      BY <1>0, EventMessageType
    <3>2. underWay' = Append(underWay, [events |-> <<ev>>, call |-> n])
      BY <1>0, <2>2, <3>1, UnderWayEmit DEF EmitAlert, PathInv, OrderInv
    <3>3. calls'[n].cb = "waiting"
      BY <1>0, <2>2 DEF EmitAlert
    <3> QED
      BY <1>3, <2>2, <3>2, <3>3 DEF EmitAlert
  <2> QED
    BY <2>1, <2>2 DEF Send, sendAlert
<1> HIDE DEF n
<1>7. \A j \in 1..Len(underWay') :
        \/ j \in 1..Len(underWay) /\ underWay'[j] = underWay[j]
        \/ ~buffering /\ underWay'[j] = [events |-> <<ev>>, call |-> n] /\ c.cb = "waiting"
  <2>1. CASE underWay' = underWay
    BY <2>1
  <2>2. CASE ~buffering /\ underWay' = Append(underWay, [events |-> <<ev>>, call |-> n]) /\ c.cb = "waiting"
    BY <1>0, <2>2
  <2> QED
    BY <1>6, <2>1, <2>2
<1>8. MessagesInv'
  <2> SUFFICES ASSUME NEW j \in 1..Len(underWay')
               PROVE  IF buffering THEN underWay'[j].call = NoCall
                      ELSE /\ calls'[underWay'[j].call].cb = "waiting"
                           /\ underWay'[j].events = <<calls'[underWay'[j].call].ev>>
    BY <1>1 DEF MessagesInv
  <2>1. CASE j \in 1..Len(underWay) /\ underWay'[j] = underWay[j]
    <3>1. ~buffering => underWay[j].call \in 1..Len(calls)
      BY <2>1 DEF PathInv, OrderInv
    <3> QED
      BY <1>3, <2>1, <3>1 DEF PathInv, MessagesInv
  <2>2. CASE ~buffering /\ underWay'[j] = [events |-> <<ev>>, call |-> n] /\ c.cb = "waiting"
    BY <1>2, <1>3, <2>2
  <2> QED
    BY <1>7, <2>1, <2>2
<1>9. OpsInv'
  <2>1. ASSUME NEW k \in 1..Len(ops), ops[k].call # NoCall
        PROVE  /\ ops[k].call \in 1..Len(calls')
               /\ calls'[ops[k].call].ev.id = ops[k].id
               /\ ~ops[k].answered => calls'[ops[k].call].cb = "waiting"
               /\ \A j \in 1..Len(underWay') : underWay'[j].call # ops[k].call
    <3>1. /\ ops[k].call \in 1..Len(calls)
          /\ calls[ops[k].call].ev.id = ops[k].id
          /\ ~ops[k].answered => calls[ops[k].call].cb = "waiting"
          /\ \A j \in 1..Len(underWay) : underWay[j].call # ops[k].call
      BY <2>1 DEF PathInv, OpsInv
    <3>2. ops[k].call # n
      BY <1>3, <3>1
    <3>3. \A j \in 1..Len(underWay') : underWay'[j].call # ops[k].call
      BY <1>7, <3>1, <3>2
    <3> QED
      BY <1>3, <3>1, <3>3
  <2>2. ops' = ops
    BY <1>1
  <2> QED
    BY <2>1, <2>2, SMTT(30) DEF PathInv, OpsInv
<1>10. AnswersInv'
  <2>1. ops' = ops /\ acks' = acks
    BY <1>1
  <2>2. OpsOf(n) = {}
    BY <1>0, <1>3, OpsOfCall DEF n, PathInv, OpsInv
  <2>3. c.cb \notin {"inserted", "updated", "dropped"}
    BY <1>6
  <2>4. \A m \in 1..Len(calls') : m # n => m \in 1..Len(calls) /\ calls'[m] = calls[m]
    BY <1>0, <1>3 DEF n
  <2>5. ASSUME NEW m \in 1..Len(calls'), calls'[m].cb \in {"inserted", "updated", "dropped"}
        PROVE  \E k \in OpsOf(m) : Speaks(calls'[m].cb, ops[k])
    <3>1. m # n
      BY <1>3, <2>3, <2>5
    <3> QED
      BY <2>4, <2>5, <3>1 DEF PathInv, AnswersInv
  <2>6. ASSUME NEW m \in 1..Len(calls'), NEW k \in OpsOf(m), calls'[m].cb = "error"
        PROVE  Rejected(ops[k])
    BY <2>2, <2>4, <2>6 DEF PathInv, AnswersInv
  <2>7. \A a \in acks : \E k \in OpsOf(a.call) : Speaks(a.outcome, ops[k])
    BY DEF PathInv, AnswersInv
  <2> QED
    BY <2>1, <2>5, <2>6, <2>7, AnswersSame
<1>11. CreationsInv'
  BY <1>1 DEF PathInv, CreationsInv
<1> QED
  BY <1>0, <1>4, <1>5, <1>8, <1>9, <1>10, <1>11 DEF PathInv

\* A step after which nothing new is under way but messages without a call,
\* and that leaves the calls, the inserts and the answers alone.
LEMMA PathQuiet ==
  ASSUME PathInv, [Next]_vars,
         UNCHANGED <<buffering, calls, ops, alerts, acks>>,
         \A j \in 1..Len(underWay') :
           \/ \E i \in 1..Len(underWay) : underWay'[j] = underWay[i]
           \/ buffering /\ underWay'[j].call = NoCall,
         serverRulesTracking' \in BOOLEAN,
         occurrences' \in [Ident -> Nat],
         received' \in [Ident -> Nat]
  PROVE  PathInv'
<1>0. ClientInv' /\ OrderInv' /\ TypeOK'
  BY ClientPart
<1>1. PipelineTypeOK'
  BY <1>0 DEF PathInv, PipelineTypeOK
<1>2. MessagesInv'
  <2> SUFFICES ASSUME NEW j \in 1..Len(underWay')
               PROVE  IF buffering THEN underWay'[j].call = NoCall
                      ELSE /\ calls[underWay'[j].call].cb = "waiting"
                           /\ underWay'[j].events = <<calls[underWay'[j].call].ev>>
    BY DEF MessagesInv
  <2> QED
    BY DEF PathInv, MessagesInv
<1>3. OpsInv'
  <2>1. ASSUME NEW k \in 1..Len(ops), ops[k].call # NoCall, NEW j \in 1..Len(underWay')
        PROVE  underWay'[j].call # ops[k].call
    <3>1. \A i \in 1..Len(underWay) : underWay[i].call # ops[k].call
      BY <2>1 DEF PathInv, OpsInv
    <3>2. \/ \E i \in 1..Len(underWay) : underWay'[j] = underWay[i]
          \/ underWay'[j].call = NoCall
      BY <2>1
    <3> QED
      BY <2>1, <3>1, <3>2
  <2> QED
    BY <2>1 DEF PathInv, OpsInv
<1>4. AnswersInv'
  BY AnswersSame DEF PathInv, AnswersInv
<1>5. CreationsInv'
  BY DEF PathInv, CreationsInv
<1> QED
  BY <1>0, <1>1, <1>2, <1>3, <1>4, <1>5 DEF PathInv

LEMMA PathFlush ==
  ASSUME PathInv, [Next]_vars, Flush
  PROVE  PathInv'
<1>0. ClientInv /\ OrderInv /\ TypeOK /\ underWay \in Seq(Message) /\ Len(underWay) \in Nat
  BY PathTypes DEF PathInv
<1> DEFINE m == [events |-> Batch, call |-> NoCall]
<1>1. m \in Message /\ Emit(m) /\ buffering
  BY <1>0, BatchType DEF Flush, flushBufferQueue
<1>2. underWay' = Append(underWay, m) /\ m.call = NoCall
  BY <1>0, <1>1, UnderWayEmit DEF OrderInv
<1> HIDE DEF m
<1>3. \A j \in 1..Len(underWay') :
        \/ j \in 1..Len(underWay) /\ underWay'[j] = underWay[j]
        \/ buffering /\ underWay'[j].call = NoCall
  BY <1>0, <1>1, <1>2
<1>4. /\ UNCHANGED <<buffering, calls, ops, alerts, acks>>
      /\ UNCHANGED <<serverRulesTracking, occurrences, received>>
  BY DEF Flush, flushBufferQueue, serverOnly
<1> QED
  BY <1>3, <1>4, PathQuiet DEF PathInv, PipelineTypeOK

LEMMA PathConnected ==
  ASSUME PathInv, [Next]_vars, Connected
  PROVE  PathInv'
<1>1. /\ UNCHANGED <<buffering, calls, ops, alerts, acks>>
      /\ UNCHANGED <<serverRulesTracking, occurrences, received>>
  BY DEF Connected, Connect, Greetings, serverOnly
<1>2. underWay' = underWay
  BY PathTypes, UnderWayConnect DEF Connected, Greetings, underWay
<1> QED
  BY <1>1, <1>2, PathQuiet DEF PathInv, PipelineTypeOK

\* A lost connection leaves no message and no acknowledgement under way, and
\* the inserts that have not answered without a call to answer.
LEMMA PathDisconnected ==
  ASSUME PathInv, [Next]_vars, Disconnected
  PROVE  PathInv'
<1>0. ClientInv' /\ OrderInv' /\ TypeOK'
  BY ClientPart
<1>1. /\ acks' = {} /\ UNCHANGED <<serverRulesTracking, alerts, occurrences, received>>
      /\ UNCHANGED <<buffering, calls>>
      /\ ops' = [k \in 1..Len(ops) |->
                   IF ops[k].answered THEN ops[k] ELSE [ops[k] EXCEPT !.call = NoCall]]
  BY DEF Disconnected, Disconnect
<1>2. underWay' = <<>>
  BY UnderWayDisconnect DEF Disconnected, PathInv, OrderInv
<1>3. /\ ops \in Seq(Op) /\ Len(ops) \in Nat /\ \A k \in 1..Len(ops) : ops[k] \in Op
  BY OpType DEF PathInv
<1>4. /\ ops' \in Seq(Op) /\ Len(ops') = Len(ops)
      /\ \A k \in 1..Len(ops) :
           /\ ops[k].answered => ops'[k] = ops[k]
           /\ ops'[k].part = ops[k].part /\ ops'[k].id = ops[k].id
           /\ ops'[k].answered = ops[k].answered
           /\ ops'[k].call # NoCall => ops'[k] = ops[k] /\ ops[k].answered
  <2>1. \A k \in 1..Len(ops) : [ops[k] EXCEPT !.call = NoCall] \in Op
    BY <1>3 DEF Op
  <2>2. \A k \in 1..Len(ops) :
          (IF ops[k].answered THEN ops[k] ELSE [ops[k] EXCEPT !.call = NoCall]) \in Op
    BY <1>3, <2>1
  <2>3. ops' \in [1..Len(ops) -> Op]
    BY <1>1, <2>2
  <2>4. ops' \in Seq(Op)
    BY <1>3, <2>3, SeqDef
  <2>5. Len(ops') = Len(ops)
    BY <1>3, <2>3, <2>4
  <2> QED
    BY <1>1, <1>3, <2>4, <2>5 DEF Op
<1>5. PipelineTypeOK'
  BY <1>0, <1>1, <1>4 DEF PathInv, PipelineTypeOK
<1>6. MessagesInv'
  BY <1>2 DEF MessagesInv
<1>7. OpsInv'
  <2>1. \A k \in 1..Len(ops') : ops'[k].part["tracking"] # "failed"
    BY <1>4 DEF PathInv, OpsInv
  <2>2. ASSUME NEW k \in 1..Len(ops'), ops'[k].call # NoCall
        PROVE  /\ ops'[k].call \in 1..Len(calls')
               /\ calls'[ops'[k].call].ev.id = ops'[k].id
               /\ ~ops'[k].answered => calls'[ops'[k].call].cb = "waiting"
               /\ \A j \in 1..Len(underWay') : underWay'[j].call # ops'[k].call
    BY <1>1, <1>2, <1>4, <2>2 DEF PathInv, OpsInv
  <2>3. ASSUME NEW j \in 1..Len(ops'), NEW k \in 1..Len(ops'),
               ops'[j].call = ops'[k].call, ops'[k].call # NoCall
        PROVE  j = k
    BY <1>4, <2>3 DEF PathInv, OpsInv
  <2> QED
    BY <2>1, <2>2, <2>3 DEF OpsInv
<1>8. AnswersInv'
  <2>1. ASSUME NEW n \in Nat PROVE OpsOf(n)' = OpsOf(n) /\ \A k \in OpsOf(n) : ops'[k] = ops[k]
    <3>1. n # NoCall
      BY CallAssumption
    <3> QED
      BY <1>4, <3>1 DEF OpsOf
  <2>2. ASSUME NEW n \in 1..Len(calls) PROVE n \in Nat
    OBVIOUS
  <2>3. ASSUME NEW n \in 1..Len(calls), calls[n].cb \in {"inserted", "updated", "dropped"}
        PROVE  \E k \in OpsOf(n)' : Speaks(calls[n].cb, ops'[k])
    BY <2>1, <2>2, <2>3 DEF PathInv, AnswersInv
  <2>4. ASSUME NEW n \in 1..Len(calls), NEW k \in OpsOf(n)', calls[n].cb = "error"
        PROVE  Rejected(ops'[k])
    BY <2>1, <2>2, <2>4 DEF PathInv, AnswersInv
  <2> QED
    BY <1>1, <2>3, <2>4, AnswersAfter
<1>9. CreationsInv'
  <2>1. alerts' = alerts
    BY <1>1
  <2> QED
    BY <1>4, <2>1 DEF PathInv, CreationsInv
<1> QED
  BY <1>0, <1>1, <1>5, <1>6, <1>7, <1>8, <1>9 DEF PathInv

\* An acknowledgement arrives: only the callback of its call changes, and the
\* insert that sent it is the only one of that call.
LEMMA PathAckArrives ==
  ASSUME PathInv, [Next]_vars, AckArrives
  PROVE  PathInv'
<1>0. ClientInv' /\ OrderInv' /\ TypeOK' /\ calls \in Seq(Call) /\ Len(calls) \in Nat
  BY ClientPart, PathTypes
<1>1. PICK a \in acks : Acknowledged(a.call, a.outcome) /\ acks' = acks \ {a}
  BY DEF AckArrives
<1> DEFINE n == a.call
<1>2. /\ n \in 1..Len(calls) /\ n \in Nat /\ calls[n].cb = "waiting" /\ a.outcome \in Outcome
      /\ calls' = [calls EXCEPT ![n] = [calls[n] EXCEPT !.cb = a.outcome]]
      /\ UNCHANGED <<buffering, wire, sendBuffer>>
      /\ UNCHANGED <<serverRulesTracking, ops, alerts, occurrences, received>>
  <2>1. a \in [call : 1..Len(calls), outcome : Outcome]
    BY DEF PathInv, PipelineTypeOK
  <2>2. n \in Nat
    BY <1>0, <2>1
  <2> QED
    BY <1>1, <2>1, <2>2 DEF AckArrives, Acknowledged
<1>3. calls[n] \in Call
  BY <1>0, <1>2
<1>4. /\ Len(calls') = Len(calls)
      /\ \A m \in 1..Len(calls) : calls'[m].ev = calls[m].ev
      /\ \A m \in 1..Len(calls) : m # n => calls'[m] = calls[m]
      /\ calls'[n].cb = a.outcome
  BY <1>0, <1>2, <1>3 DEF Call
<1>5. PICK k0 \in OpsOf(n) : Speaks(a.outcome, ops[k0])
  BY DEF PathInv, AnswersInv
<1>6. k0 \in 1..Len(ops) /\ ops[k0].call = n /\ n # NoCall /\ ops[k0].answered
  BY <1>2, <1>5, OpsOfCall
<1>7. \A k \in 1..Len(ops) : ops[k].call = n => k = k0
  BY <1>6 DEF PathInv, OpsInv
<1>8. underWay' = underWay /\ \A j \in 1..Len(underWay) : underWay[j].call # n
  BY <1>2, <1>6 DEF underWay, PathInv, OpsInv
<1> HIDE DEF n
<1>9. PipelineTypeOK'
  BY <1>0, <1>1, <1>2, <1>4 DEF PathInv, PipelineTypeOK
<1>10. MessagesInv'
  BY <1>2, <1>4, <1>8 DEF MessagesInv, PathInv, OrderInv
<1>11. OpsInv'
  <2>1. ASSUME NEW k \in 1..Len(ops), ops[k].call # NoCall
        PROVE  /\ ops[k].call \in 1..Len(calls')
               /\ calls'[ops[k].call].ev.id = ops[k].id
               /\ ~ops[k].answered => calls'[ops[k].call].cb = "waiting"
    <3>1. /\ ops[k].call \in 1..Len(calls)
          /\ calls[ops[k].call].ev.id = ops[k].id
          /\ ~ops[k].answered => calls[ops[k].call].cb = "waiting"
      BY <2>1 DEF PathInv, OpsInv
    <3>2. ~ops[k].answered => ops[k].call # n
      BY <1>6, <1>7
    <3> QED
      BY <1>4, <3>1, <3>2
  <2> QED
    BY <1>2, <1>8, <2>1 DEF PathInv, OpsInv
<1>12. AnswersInv'
  <2>1. ASSUME NEW m \in 1..Len(calls'), calls'[m].cb \in {"inserted", "updated", "dropped"}
        PROVE  \E k \in OpsOf(m) : Speaks(calls'[m].cb, ops[k])
    BY <1>4, <1>5, <2>1 DEF PathInv, AnswersInv
  <2>2. ASSUME NEW m \in 1..Len(calls'), NEW k \in OpsOf(m), calls'[m].cb = "error"
        PROVE  Rejected(ops[k])
    <3>1. CASE m = n
      <4>1. k = k0
        BY <1>7, <3>1 DEF OpsOf
      <4> QED
        BY <1>4, <1>5, <2>2, <3>1, <4>1 DEF Speaks
    <3>2. CASE m # n
      BY <1>4, <2>2, <3>2 DEF PathInv, AnswersInv
    <3> QED
      BY <3>1, <3>2
  <2> QED
    BY <1>1, <1>2, <2>1, <2>2, AnswersSame DEF PathInv, AnswersInv
<1>13. CreationsInv'
  BY <1>2 DEF PathInv, CreationsInv
<1> QED
  BY <1>0, <1>4, <1>9, <1>10, <1>11, <1>12, <1>13 DEF PathInv

----------------------------------------------------------------------------
(* The pipeline: the server's steps                                        *)

\* A new insert has all its writes before it.
LEMMA NewOpFacts ==
  ASSUME NEW ev, ev.id \in Ident, ev.tally \in (Nat \ {0}) \cup {NoTally},
         NEW call \in Nat \cup {NoCall}
  PROVE  /\ NewOp(ev, call) \in Op
         /\ NewOp(ev, call).call = call
         /\ NewOp(ev, call).id = ev.id
         /\ NewOp(ev, call).tally = ev.tally
         /\ ~NewOp(ev, call).answered
         /\ \A p \in Part : NewOp(ev, call).part[p] \in {"pending", "absent"}
         /\ NewOp(ev, call).part["alert"] = "pending" <=> ev.id \notin DiscardedIds
<1>1. [p \in Part |->
        IF \/ p \in {"inventory", "occurences"}
           \/ p = "tracking" /\ serverRulesTracking
           \/ p = "alert" /\ ev.id \notin DiscardedIds
        THEN "pending" ELSE "absent"] \in [Part -> PartState]
  BY DEF PartState
<1>2. (alerts[ev.id] = 0) \in BOOLEAN
  OBVIOUS
<1> QED
  BY <1>1, <1>2 DEF NewOp, Op, Part

\* The first message under way is taken.  If it has a call, it is the event of
\* that call, and no insert there is, and no other message, has the same.
LEMMA TakenCall ==
  ASSUME PathInv, Receive, sendBuffer' = sendBuffer
  PROVE  /\ \A j \in 1..Len(underWay') : j + 1 \in 1..Len(underWay) /\ underWay'[j] = underWay[j + 1]
         /\ received' \in [Ident -> Nat]
         /\ Head(wire).call # NoCall =>
              LET n == Head(wire).call IN
              /\ ~buffering
              /\ n \in 1..Len(calls)
              /\ calls[n].cb = "waiting"
              /\ Head(wire).events[1] = calls[n].ev
              /\ Len(Head(wire).events) = 1
              /\ \A k \in 1..Len(ops) : ops[k].call # n
              /\ \A j \in 1..Len(underWay') : underWay'[j].call # n
<1>0. TypeOK /\ Len(underWay) \in Nat /\ wire # <<>> /\ wire' = Tail(wire)
  BY PathTypes DEF Receive
<1>1. /\ Len(underWay) \in Nat \ {0}
      /\ underWay[1] = Head(wire) /\ Head(wire) \in Message
      /\ Len(underWay') = Len(underWay) - 1
      /\ \A k \in 1..Len(underWay') : underWay'[k] = underWay[k + 1]
  BY <1>0, UnderWayTaken
<1>2. 1 \in 1..Len(underWay) /\ \A j \in 1..Len(underWay') : j + 1 \in 1..Len(underWay)
  BY <1>1
<1>3. received' \in [Ident -> Nat]
  <2>1. ASSUME NEW i \in Ident PROVE Cardinality(ValidAt(Head(wire).events, i)) \in Nat
    <3>1. Len(Head(wire).events) \in Nat
      BY <1>1 DEF Message
    <3>2. IsFiniteSet(1..Len(Head(wire).events))
      BY <3>1, FS_Interval
    <3>3. IsFiniteSet(ValidAt(Head(wire).events, i))
      BY <3>2, FS_Subset DEF ValidAt
    <3> QED
      BY <3>3, FS_CardinalityType
  <2> QED
    BY <2>1 DEF Receive, PathInv, PipelineTypeOK
<1>4. ASSUME Head(wire).call # NoCall
      PROVE  LET n == Head(wire).call IN
              /\ ~buffering
              /\ n \in 1..Len(calls)
              /\ calls[n].cb = "waiting"
              /\ Head(wire).events[1] = calls[n].ev
              /\ Len(Head(wire).events) = 1
              /\ \A k \in 1..Len(ops) : ops[k].call # n
              /\ \A j \in 1..Len(underWay') : underWay'[j].call # n
  <2> DEFINE n == Head(wire).call
  <2>1. /\ ~buffering /\ n \in 1..Len(calls) /\ calls[n].cb = "waiting"
        /\ Head(wire).events = <<calls[n].ev>>
    BY <1>1, <1>2, <1>4 DEF PathInv, MessagesInv, OrderInv
  <2>2. \A k \in 1..Len(ops) : ops[k].call # n
    BY <1>1, <1>2, <1>4 DEF PathInv, OpsInv
  <2>3. ASSUME NEW j \in 1..Len(underWay') PROVE underWay'[j].call # n
    <3>1. 1 < j + 1 /\ underWay'[j] = underWay[j + 1] /\ j + 1 \in 1..Len(underWay)
      BY <1>1, <1>2
    <3>2. underWay[1].call < underWay[j + 1].call
      BY <1>2, <2>1, <3>1 DEF PathInv, OrderInv, SentInOrder
    <3>3. underWay[1].call = n /\ n \in Nat
      BY <1>1, <2>1
    <3> QED
      BY <3>1, <3>2, <3>3
  <2>4. Head(wire).events[1] = calls[n].ev /\ Len(Head(wire).events) = 1
    <3>1. \A x : <<x>>[1] = x /\ Len(<<x>>) = 1
      OBVIOUS
    <3> QED
      BY <2>1, <3>1
  <2> HIDE DEF n
  <2> QED
    BY <2>1, <2>2, <2>3, <2>4 DEF n
<1> QED
  BY <1>1, <1>2, <1>3, <1>4

\* An insert is added for the call of the message taken.
LEMMA PathInsertEvent ==
  ASSUME PathInv, [Next]_vars, Server, Receive,
         Head(wire).call # NoCall, validate_event(Head(wire).events[1]),
         insert_event(Head(wire).events[1], Head(wire).call)
  PROVE  PathInv'
<1>0. ClientInv' /\ OrderInv' /\ TypeOK' /\ calls \in Seq(Call) /\ Len(calls) \in Nat
  BY ClientPart, PathTypes
<1> DEFINE n == Head(wire).call
           ev == calls[n].ev
           op == NewOp(ev, n)
<1>1. /\ \A j \in 1..Len(underWay') : j + 1 \in 1..Len(underWay) /\ underWay'[j] = underWay[j + 1]
      /\ received' \in [Ident -> Nat]
      /\ ~buffering
      /\ n \in 1..Len(calls)
      /\ calls[n].cb = "waiting"
      /\ Head(wire).events[1] = calls[n].ev
      /\ \A k \in 1..Len(ops) : ops[k].call # n
      /\ \A j \in 1..Len(underWay') : underWay'[j].call # n
  BY TakenCall DEF Server
<1>2. calls[n] \in Call /\ ev \in Event /\ n \in Nat
  <2>1. calls[n] \in Call /\ n \in Nat
    BY <1>0, <1>1
  <2> QED
    BY <2>1 DEF Call
<1>3. ev.id \in Ident /\ ev.tally \in (Nat \ {0}) \cup {NoTally}
  BY <1>2, TallyAssumption DEF Event
<1>4. /\ op \in Op /\ op.call = n /\ op.id = ev.id /\ ~op.answered
      /\ \A p \in Part : op.part[p] \in {"pending", "absent"}
  BY <1>2, <1>3, NewOpFacts
<1>5. ops' = Append(ops, op)
  BY <1>1 DEF insert_event
<1>6. /\ UNCHANGED <<buffering, calls>>
      /\ UNCHANGED <<serverRulesTracking, alerts, occurrences, acks>>
  BY DEF Server, Receive
<1>7. ops \in Seq(Op) /\ Len(ops) \in Nat
  BY OpType DEF PathInv
<1> HIDE DEF n, ev, op
<1>8. /\ ops' \in Seq(Op) /\ Len(ops') = Len(ops) + 1
      /\ \A k \in 1..Len(ops) : ops'[k] = ops[k] /\ k \in 1..Len(ops') /\ k # Len(ops')
      /\ ops'[Len(ops')] = op
      /\ \A k \in 1..Len(ops') : k = Len(ops') \/ k \in 1..Len(ops)
  BY <1>4, <1>5, <1>7
<1>9. PipelineTypeOK'
  BY <1>0, <1>1, <1>6, <1>8 DEF PathInv, PipelineTypeOK
<1>10. MessagesInv'
  BY <1>1, <1>6 DEF MessagesInv, PathInv
<1>11. OpsInv'
  <2>1. "tracking" \in Part
    BY DEF Part
  <2>2. ASSUME NEW k \in 1..Len(ops')
        PROVE  ops'[k].part["tracking"] # "failed"
    BY <1>4, <1>8, <2>1 DEF PathInv, OpsInv
  <2>3. ASSUME NEW k \in 1..Len(ops'), ops'[k].call # NoCall
        PROVE  /\ ops'[k].call \in 1..Len(calls)
               /\ calls[ops'[k].call].ev.id = ops'[k].id
               /\ ~ops'[k].answered => calls[ops'[k].call].cb = "waiting"
               /\ \A j \in 1..Len(underWay') : underWay'[j].call # ops'[k].call
    <3>1. CASE k = Len(ops')
      <4>1. ops'[k] = op
        BY <1>8, <3>1
      <4>2. ops'[k].call = n /\ calls[n].ev.id = ops'[k].id
        BY <1>4, <4>1 DEF ev
      <4>3. n \in 1..Len(calls) /\ calls[n].cb = "waiting"
        BY <1>1
      <4>4. ASSUME NEW j \in 1..Len(underWay') PROVE underWay'[j].call # ops'[k].call
        BY <1>1, <4>2
      <4>5. /\ ops'[k].call \in 1..Len(calls)
            /\ calls[ops'[k].call].ev.id = ops'[k].id
            /\ calls[ops'[k].call].cb = "waiting"
        BY <4>2, <4>3
      <4> QED
        BY <4>4, <4>5
    <3>2. CASE k \in 1..Len(ops)
      <4>1. ops'[k] = ops[k]
        BY <1>8, <3>2
      <4>2. /\ ops[k].call \in 1..Len(calls)
            /\ calls[ops[k].call].ev.id = ops[k].id
            /\ ~ops[k].answered => calls[ops[k].call].cb = "waiting"
            /\ \A j \in 1..Len(underWay) : underWay[j].call # ops[k].call
        BY <2>3, <3>2, <4>1 DEF PathInv, OpsInv
      <4>3. ASSUME NEW j \in 1..Len(underWay') PROVE underWay'[j].call # ops[k].call
        BY <1>1, <4>2
      <4> QED
        BY <4>1, <4>2, <4>3
    <3> QED
      BY <1>8, <3>1, <3>2
  <2>4. ASSUME NEW j \in 1..Len(ops'), NEW k \in 1..Len(ops'),
               ops'[j].call = ops'[k].call, ops'[k].call # NoCall
        PROVE  j = k
    <3>1. CASE j \in 1..Len(ops) /\ k \in 1..Len(ops)
      <4>1. ops'[j] = ops[j] /\ ops'[k] = ops[k]
        BY <1>8, <3>1
      <4> QED
        BY <2>4, <3>1, <4>1 DEF PathInv, OpsInv
    <3>2. \A i \in 1..Len(ops) : ops'[i].call # n
      BY <1>1, <1>8
    <3>3. ops'[Len(ops')].call = n
      BY <1>4, <1>8
    <3>4. CASE j = Len(ops') \/ k = Len(ops')
      <4>1. ops'[j].call = n /\ ops'[k].call = n
        BY <2>4, <3>3, <3>4
      <4>2. j \notin 1..Len(ops) /\ k \notin 1..Len(ops)
        BY <3>2, <4>1
      <4> QED
        BY <1>8, <4>2
    <3> QED
      BY <1>8, <3>1, <3>4
  <2> QED
    BY <1>6, <2>2, <2>3, <2>4 DEF OpsInv
<1>12. AnswersInv'
  <2>1. \A m : OpsOf(m)' = OpsOf(m) /\ \A k \in OpsOf(m) : ops'[k] = ops[k]
    BY <1>4, <1>8 DEF OpsOf
  <2> QED
    BY <1>6, <2>1, AnswersAfter DEF PathInv, AnswersInv
<1>13. CreationsInv'
  <2>1. op.part["alert"] # "inserted"
    BY <1>4 DEF Part
  <2> QED
    BY <1>6, <1>8, <2>1 DEF PathInv, CreationsInv
<1> QED
  BY <1>0, <1>6, <1>9, <1>10, <1>11, <1>12, <1>13 DEF PathInv

LEMMA PathReceive ==
  ASSUME PathInv, [Next]_vars, Server, Receive
  PROVE  PathInv'
<1>1. CASE /\ Head(wire).call # NoCall /\ insert_event(Head(wire).events[1], Head(wire).call)
           /\ validate_event(Head(wire).events[1])
  BY <1>1, PathInsertEvent
<1>2. CASE ops' = ops
  <2>1. UNCHANGED <<buffering, calls, ops, alerts, acks, serverRulesTracking, occurrences>>
    BY <1>2 DEF Server, Receive
  <2>2. /\ \A j \in 1..Len(underWay') : j + 1 \in 1..Len(underWay) /\ underWay'[j] = underWay[j + 1]
        /\ received' \in [Ident -> Nat]
    BY TakenCall DEF Server
  <2> QED
    BY <2>1, <2>2, PathQuiet DEF PathInv, PipelineTypeOK
<1> QED
  BY <1>1, <1>2 DEF Receive, insert_event, insert_events

\* What a write that settles changes: one part of one insert.
LEMMA SettleFacts ==
  ASSUME PipelineTypeOK, NEW k \in 1..Len(ops), NEW p \in Part, NEW s \in PartState,
         Settle(k, p, s)
  PROVE  /\ ops' \in Seq(Op) /\ Len(ops') = Len(ops)
         /\ \A j \in 1..Len(ops) : j # k => ops'[j] = ops[j]
         /\ ops'[k].part[p] = s
         /\ \A q \in Part : q # p => ops'[k].part[q] = ops[k].part[q]
         /\ \A j \in 1..Len(ops) :
              /\ ops'[j].call = ops[j].call /\ ops'[j].id = ops[j].id
              /\ ops'[j].tally = ops[j].tally /\ ops'[j].answered = ops[j].answered
<1>1. /\ ops \in Seq(Op) /\ ops[k] \in Op /\ ops[k].part \in [Part -> PartState]
      /\ \A j \in 1..Len(ops) : ops[j] \in Op
  BY OpType
<1> DEFINE part == [ops[k].part EXCEPT ![p] = s]
           op == [ops[k] EXCEPT !.part = part]
<1>2. ops' = [ops EXCEPT ![k] = op]
  BY DEF Settle
<1>3. part \in [Part -> PartState] /\ part[p] = s /\ \A q \in Part : q # p => part[q] = ops[k].part[q]
  BY <1>1
<1>4. /\ op \in Op /\ op.part = part /\ op.call = ops[k].call /\ op.id = ops[k].id
      /\ op.tally = ops[k].tally /\ op.answered = ops[k].answered
  BY <1>1, <1>3 DEF Op
<1> HIDE DEF part, op
<1>5. ops' \in Seq(Op) /\ Len(ops') = Len(ops)
      /\ \A j \in 1..Len(ops) : ops'[j] = IF j = k THEN op ELSE ops[j]
  BY <1>1, <1>2, <1>4, ExceptSeq
<1> QED
  BY <1>3, <1>4, <1>5

\* What an acknowledgement said stays true of the insert when a write settles.
LEMMA SpeaksAfterSettle ==
  ASSUME PipelineTypeOK, NEW k \in 1..Len(ops), NEW p \in Part, NEW s \in PartState,
         Pending(k, p), Settle(k, p, s), NEW outcome, NEW j \in 1..Len(ops)
  PROVE  /\ Rejected(ops[j]) => Rejected(ops'[j])
         /\ Speaks(outcome, ops[j]) => Speaks(outcome, ops'[j])
<1>1. /\ \A i \in 1..Len(ops) : i # k => ops'[i] = ops[i]
      /\ \A q \in Part : q # p => ops'[k].part[q] = ops[k].part[q]
      /\ ops[k].part[p] = "pending"
  BY SettleFacts DEF Pending
<1>2. Rejected(ops[j]) => Rejected(ops'[j])
  BY <1>1 DEF Rejected
<1>3. Fulfilled(ops[j]) => j # k
  BY <1>1 DEF Fulfilled
<1> QED
  BY <1>1, <1>2, <1>3 DEF Speaks

LEMMA PathSettle ==
  ASSUME PathInv, [Next]_vars,
         NEW k \in 1..Len(ops), NEW p \in Part, NEW s \in PartState,
         Pending(k, p), Settle(k, p, s), p = "tracking" => s # "failed",
         UNCHANGED <<buffering, calls, wire, sendBuffer, serverRulesTracking, acks, received>>,
         occurrences' \in [Ident -> Nat],
         alerts' \in [Ident -> Nat],
         \A i \in Ident : alerts[i] > 0 => alerts'[i] > 0,
         p = "alert" /\ s = "inserted" => alerts[ops[k].id] = 0 /\ alerts'[ops[k].id] > 0
  PROVE  PathInv'
<1>0. ClientInv' /\ OrderInv' /\ TypeOK' /\ PipelineTypeOK
  BY ClientPart DEF PathInv
<1>1. /\ ops' \in Seq(Op) /\ Len(ops') = Len(ops)
      /\ \A j \in 1..Len(ops) : j # k => ops'[j] = ops[j]
      /\ ops'[k].part[p] = s
      /\ \A q \in Part : q # p => ops'[k].part[q] = ops[k].part[q]
      /\ \A j \in 1..Len(ops) :
           /\ ops'[j].call = ops[j].call /\ ops'[j].id = ops[j].id
           /\ ops'[j].tally = ops[j].tally /\ ops'[j].answered = ops[j].answered
  BY <1>0, SettleFacts
<1>2. underWay' = underWay
  BY DEF underWay
<1>3. PipelineTypeOK'
  BY <1>0, <1>1 DEF PipelineTypeOK
<1>4. MessagesInv'
  BY <1>2 DEF PathInv, MessagesInv
<1>5. OpsInv'
  <2>1. "tracking" \in Part
    BY DEF Part
  <2>2. ASSUME NEW j \in 1..Len(ops) PROVE ops'[j].part["tracking"] # "failed"
    BY <1>1, <2>1 DEF PathInv, OpsInv
  <2>3. ASSUME NEW j \in 1..Len(ops), ops'[j].call # NoCall
        PROVE  /\ ops'[j].call \in 1..Len(calls)
               /\ calls[ops'[j].call].ev.id = ops'[j].id
               /\ ~ops'[j].answered => calls[ops'[j].call].cb = "waiting"
               /\ \A i \in 1..Len(underWay) : underWay[i].call # ops'[j].call
    BY <1>1, <2>3 DEF PathInv, OpsInv
  <2>4. ASSUME NEW i \in 1..Len(ops), NEW j \in 1..Len(ops),
               ops'[i].call = ops'[j].call, ops'[j].call # NoCall
        PROVE  i = j
    BY <1>1, <2>4 DEF PathInv, OpsInv
  <2> QED
    BY <1>1, <1>2, <2>2, <2>3, <2>4 DEF OpsInv
<1>6. AnswersInv'
  <2>1. \A n : OpsOf(n)' = OpsOf(n)
    BY <1>1 DEF OpsOf
  <2>2. \A n : OpsOf(n) \subseteq 1..Len(ops)
    BY DEF OpsOf
  <2>3. \A j \in 1..Len(ops) :
          /\ Rejected(ops[j]) => Rejected(ops'[j])
          /\ \A o : Speaks(o, ops[j]) => Speaks(o, ops'[j])
    BY <1>0, SpeaksAfterSettle
  <2>4. \A a \in acks' : \E j \in OpsOf(a.call)' : Speaks(a.outcome, ops'[j])
    BY <2>1, <2>2, <2>3 DEF PathInv, AnswersInv
  <2>5. \A m \in 1..Len(calls') :
          calls'[m].cb \in {"inserted", "updated", "dropped"} =>
            \E j \in OpsOf(m)' : Speaks(calls'[m].cb, ops'[j])
    BY <2>1, <2>2, <2>3 DEF PathInv, AnswersInv
  <2>6. \A m \in 1..Len(calls') : \A j \in OpsOf(m)' :
          calls'[m].cb = "error" => Rejected(ops'[j])
    BY <2>1, <2>2, <2>3 DEF PathInv, AnswersInv
  <2> QED
    BY <2>4, <2>5, <2>6, AnswersAfter
<1>7. CreationsInv'
  <2>1. \A j \in 1..Len(ops) : ops[j].id \in Ident
    BY <1>0, OpType
  <2>2. "alert" \in Part
    BY DEF Part
  <2>3. ASSUME NEW j \in 1..Len(ops), ops'[j].part["alert"] = "inserted"
        PROVE  /\ alerts'[ops[j].id] > 0
               /\ \/ ops[j].part["alert"] = "inserted" /\ alerts[ops[j].id] > 0
                  \/ j = k /\ alerts[ops[k].id] = 0
    <3>1. CASE j = k /\ p = "alert"
      BY <1>1, <2>3, <3>1
    <3>2. CASE ~(j = k /\ p = "alert")
      <4>1. ops[j].part["alert"] = "inserted"
        BY <1>1, <2>2, <2>3, <3>2
      <4> QED
        BY <2>1, <4>1 DEF PathInv, CreationsInv
    <3> QED
      BY <3>1, <3>2
  <2>4. ASSUME NEW i \in 1..Len(ops), NEW j \in 1..Len(ops),
               ops'[i].part["alert"] = "inserted", ops'[j].part["alert"] = "inserted",
               ops'[i].id = ops'[j].id
        PROVE  i = j
    <3>1. ops[i].id = ops[j].id
      BY <1>1, <2>4
    <3> QED
      BY <2>3, <2>4, <3>1 DEF PathInv, CreationsInv
  <2> QED
    BY <1>1, <2>3, <2>4 DEF CreationsInv
<1> QED
  BY <1>0, <1>3, <1>4, <1>5, <1>6, <1>7 DEF PathInv

LEMMA PathWrites ==
  ASSUME PathInv, [Next]_vars, Server, NEW k \in 1..Len(ops),
         WriteInventory(k) \/ WriteOccurrence(k) \/ WriteTracking(k)
  PROVE  PathInv'
<1>0. /\ occurrences \in [Ident -> Nat] /\ alerts \in [Ident -> Nat] /\ ops[k].id \in Ident
      /\ UNCHANGED <<buffering, calls, sendBuffer>>
  BY OpType DEF PathInv, PipelineTypeOK, Server
<1>1. CASE WriteInventory(k)
  <2>1. PICK s \in {"done", "failed"} : Settle(k, "inventory", s)
    BY <1>1 DEF WriteInventory
  <2>2. s \in PartState /\ "inventory" \in Part
    BY DEF PartState, Part
  <2>3. /\ Pending(k, "inventory")
        /\ UNCHANGED <<wire, serverRulesTracking, alerts, occurrences, acks, received>>
    BY <1>1 DEF WriteInventory
  <2> QED
    BY <1>0, <2>1, <2>2, <2>3, PathSettle
<1>2. CASE WriteOccurrence(k)
  <2>1. /\ Settle(k, "occurences", "done") \/ Settle(k, "occurences", "failed")
        /\ Pending(k, "occurences")
        /\ UNCHANGED <<wire, serverRulesTracking, alerts, acks, received>>
    BY <1>2 DEF WriteOccurrence
  <2>2. occurrences' \in [Ident -> Nat]
    <3>1. \A n \in Nat : Pushed(n) \in Nat
      BY DEF Pushed
    <3> QED
      BY <1>0, <1>2, <3>1 DEF WriteOccurrence
  <2>3. {"done", "failed"} \subseteq PartState /\ "occurences" \in Part
    BY DEF PartState, Part
  <2> QED
    BY <1>0, <2>1, <2>2, <2>3, PathSettle
<1>3. CASE WriteTracking(k)
  <2>1. /\ Settle(k, "tracking", "done")
        /\ Pending(k, "tracking")
        /\ UNCHANGED <<wire, serverRulesTracking, alerts, occurrences, acks, received>>
    BY <1>3 DEF WriteTracking, Caught
  <2>2. "done" \in PartState /\ "tracking" \in Part
    BY DEF PartState, Part
  <2> QED
    BY <1>0, <2>1, <2>2, PathSettle
<1> QED
  BY <1>1, <1>2, <1>3

\* The tally of an alert that is stored is positive.
LEMMA IncrementedType ==
  ASSUME PipelineTypeOK, NEW k \in 1..Len(ops)
  PROVE  /\ increment_tally_by(ops[k]) \in Nat \ {0}
         /\ Incremented(ops[k]) = alerts[ops[k].id] + increment_tally_by(ops[k])
         /\ Incremented(ops[k]) \in Nat \ {0}
<1>1. ops[k] \in Op /\ alerts \in [Ident -> Nat]
  BY OpType DEF PipelineTypeOK
<1>2. ops[k].tally \in (Nat \ {0}) \cup {NoTally} /\ alerts[ops[k].id] \in Nat
  BY <1>1 DEF Op
<1>3. increment_tally_by(ops[k]) \in Nat \ {0}
  BY <1>2 DEF increment_tally_by
<1> QED
  BY <1>2, <1>3 DEF Incremented

LEMMA PathUpsertAlert ==
  ASSUME PathInv, [Next]_vars, Server, NEW k \in 1..Len(ops), UpsertAlert(k)
  PROVE  PathInv'
<1>0. /\ PipelineTypeOK /\ occurrences \in [Ident -> Nat] /\ alerts \in [Ident -> Nat]
      /\ ops[k].id \in Ident /\ alerts[ops[k].id] \in Nat
      /\ UNCHANGED <<buffering, calls, sendBuffer>>
  BY OpType DEF PathInv, PipelineTypeOK, Server
<1>1. /\ Pending(k, "alert") /\ "alert" \in Part
      /\ {"updated", "inserted", "swallowed", "failed"} \subseteq PartState
      /\ UNCHANGED <<wire, serverRulesTracking, occurrences, acks, received>>
  BY DEF UpsertAlert, Part, PartState
<1>2. CASE /\ Settle(k, "alert", IF alerts[ops[k].id] > 0 THEN "updated" ELSE "inserted")
           /\ alerts' = [alerts EXCEPT ![ops[k].id] = Incremented(ops[k])]
  <2>1. /\ Incremented(ops[k]) \in Nat \ {0}
        /\ alerts'[ops[k].id] = Incremented(ops[k])
        /\ \A i \in Ident : i # ops[k].id => alerts'[i] = alerts[i]
    BY <1>0, <1>2, IncrementedType
  <2>2. alerts' \in [Ident -> Nat]
    BY <1>0, <1>2, <2>1
  <2>3. \A i \in Ident : alerts[i] > 0 => alerts'[i] > 0
    BY <1>0, <2>1
  <2>4. CASE alerts[ops[k].id] > 0
    BY <1>0, <1>1, <1>2, <2>2, <2>3, <2>4, PathSettle
  <2>5. CASE ~(alerts[ops[k].id] > 0)
    <3>1. alerts[ops[k].id] = 0 /\ alerts'[ops[k].id] > 0
      BY <1>0, <2>1, <2>5
    <3> QED
      BY <1>0, <1>1, <1>2, <2>2, <2>3, <2>5, <3>1, PathSettle
  <2> QED
    BY <2>4, <2>5
<1>3. CASE alerts' = alerts /\ Settle(k, "alert", "swallowed")
  BY <1>0, <1>1, <1>3, PathSettle
<1>4. CASE alerts' = alerts /\ Settle(k, "alert", "failed")
  BY <1>0, <1>1, <1>4, PathSettle
<1> QED
  BY <1>2, <1>3, <1>4 DEF UpsertAlert, UpsertError

\* An insert answers once, and says what is true of it.
LEMMA PathAcknowledge ==
  ASSUME PathInv, [Next]_vars, Server, NEW k \in 1..Len(ops), Acknowledge(k)
  PROVE  PathInv'
<1>0. ClientInv' /\ OrderInv' /\ TypeOK' /\ PipelineTypeOK
  BY ClientPart DEF PathInv
<1> DEFINE op == ops[k]
           outcome == IF Rejected(op) THEN "error" ELSE Answer(op)
<1>1. /\ ~op.answered /\ (Fulfilled(op) \/ Rejected(op))
      /\ ops' = [ops EXCEPT ![k] = [ops[k] EXCEPT !.answered = TRUE]]
      /\ acks' = IF op.call = NoCall THEN acks
                 ELSE acks \cup {[call |-> op.call, outcome |-> outcome]}
      /\ UNCHANGED <<wire, sendBuffer, buffering, calls>>
      /\ UNCHANGED <<serverRulesTracking, alerts, occurrences, received>>
  BY DEF Acknowledge, Server
<1>2. ops \in Seq(Op) /\ Len(ops) \in Nat /\ ops[k] \in Op
  BY <1>0, OpType
<1>3. /\ ops' \in Seq(Op) /\ Len(ops') = Len(ops)
      /\ \A j \in 1..Len(ops) : j # k => ops'[j] = ops[j]
      /\ \A j \in 1..Len(ops) : /\ ops'[j].call = ops[j].call /\ ops'[j].id = ops[j].id
                                /\ ops'[j].part = ops[j].part
      /\ ops'[k].answered
  <2>1. /\ [ops[k] EXCEPT !.answered = TRUE] \in Op
        /\ [ops[k] EXCEPT !.answered = TRUE].call = ops[k].call
        /\ [ops[k] EXCEPT !.answered = TRUE].id = ops[k].id
        /\ [ops[k] EXCEPT !.answered = TRUE].part = ops[k].part
        /\ [ops[k] EXCEPT !.answered = TRUE].answered
    BY <1>2 DEF Op
  <2>2. /\ ops' \in Seq(Op) /\ Len(ops') = Len(ops)
        /\ \A j \in 1..Len(ops) :
             ops'[j] = IF j = k THEN [ops[k] EXCEPT !.answered = TRUE] ELSE ops[j]
    BY <1>1, <1>2, <2>1, ExceptSeq
  <2> QED
    BY <2>1, <2>2
<1>4. outcome \in Outcome /\ Speaks(outcome, op)
  <2>1. Answer(op) \in {"dropped", "inserted", "updated"}
    BY DEF Answer
  <2> QED
    BY <1>1, <2>1 DEF Speaks, Outcome
<1>5. \A o, j : j \in 1..Len(ops) =>
        /\ Rejected(ops'[j]) <=> Rejected(ops[j])
        /\ Speaks(o, ops'[j]) <=> Speaks(o, ops[j])
  BY <1>3 DEF Speaks, Rejected, Fulfilled, Answer
<1>6. op.call # NoCall =>
        /\ op.call \in 1..Len(calls) /\ calls[op.call].cb = "waiting"
        /\ \A j \in 1..Len(ops) : ops[j].call = op.call => j = k
  BY <1>1 DEF PathInv, OpsInv
<1> HIDE DEF outcome
<1>7. PipelineTypeOK'
  <2>1. acks' \subseteq [call : 1..Len(calls'), outcome : Outcome]
    BY <1>0, <1>1, <1>4, <1>6 DEF PipelineTypeOK
  <2> QED
    BY <1>0, <1>1, <1>3, <2>1 DEF PipelineTypeOK
<1>8. underWay' = underWay
  BY <1>1 DEF underWay
<1>9. MessagesInv'
  BY <1>1, <1>8 DEF PathInv, MessagesInv
<1>10. OpsInv'
  <2>1. ASSUME NEW j \in 1..Len(ops)
        PROVE  /\ ops'[j].part["tracking"] # "failed"
               /\ ops'[j].call # NoCall =>
                    /\ ops'[j].call \in 1..Len(calls)
                    /\ calls[ops'[j].call].ev.id = ops'[j].id
                    /\ ~ops'[j].answered => calls[ops'[j].call].cb = "waiting"
                    /\ \A i \in 1..Len(underWay) : underWay[i].call # ops'[j].call
    BY <1>3, SMTT(30) DEF PathInv, OpsInv
  <2>2. ASSUME NEW i \in 1..Len(ops), NEW j \in 1..Len(ops),
               ops'[i].call = ops'[j].call, ops'[j].call # NoCall
        PROVE  i = j
    BY <1>3, <2>2 DEF PathInv, OpsInv
  <2> QED
    BY <1>1, <1>3, <1>8, <2>1, <2>2 DEF OpsInv
<1>11. AnswersInv'
  <2>1. \A n : OpsOf(n) \subseteq OpsOf(n)' /\ OpsOf(n) \subseteq 1..Len(ops)
    BY <1>3 DEF OpsOf
  <2>2. \A n \in Nat : \A j \in OpsOf(n)' : j \in OpsOf(n) \/ (j = k /\ n = op.call /\ op.call # NoCall)
    BY <1>3, CallAssumption DEF OpsOf
  <2>3. ASSUME NEW a \in acks' PROVE \E j \in OpsOf(a.call)' : Speaks(a.outcome, ops'[j])
    <3>1. CASE a \in acks
      BY <1>5, <2>1, <3>1 DEF PathInv, AnswersInv
    <3>2. CASE a = [call |-> op.call, outcome |-> outcome]
      <4>1. k \in OpsOf(a.call)' /\ a.outcome = outcome
        BY <1>3, <3>2 DEF OpsOf
      <4>2. Speaks(outcome, ops'[k])
        BY <1>4, <1>5
      <4> QED
        BY <4>1, <4>2
    <3> QED
      BY <1>1, <3>1, <3>2
  <2>4. ASSUME NEW m \in 1..Len(calls), calls[m].cb \in {"inserted", "updated", "dropped"}
        PROVE  \E j \in OpsOf(m)' : Speaks(calls[m].cb, ops'[j])
    BY <1>5, <2>1, <2>4 DEF PathInv, AnswersInv
  <2>5. ASSUME NEW m \in 1..Len(calls), NEW j \in OpsOf(m)', calls[m].cb = "error"
        PROVE  Rejected(ops'[j])
    <3>1. m \in Nat
      OBVIOUS
    <3>2. j \in OpsOf(m)
      BY <1>6, <2>2, <2>5, <3>1
    <3> QED
      BY <1>5, <2>1, <2>5, <3>2 DEF PathInv, AnswersInv
  <2> QED
    BY <1>1, <2>3, <2>4, <2>5, AnswersAfter
<1>12. CreationsInv'
  BY <1>1, <1>3 DEF PathInv, CreationsInv
<1> QED
  BY <1>0, <1>1, <1>7, <1>9, <1>10, <1>11, <1>12 DEF PathInv

LEMMA PathServer ==
  ASSUME PathInv, [Next]_vars, Server
  PROVE  PathInv'
<1>1. CASE SetTracking
  <2>1. UNCHANGED <<buffering, calls, ops, alerts, acks, occurrences, received, wire, sendBuffer>>
    BY <1>1 DEF SetTracking, Server
  <2>2. serverRulesTracking' \in BOOLEAN
    BY <1>1 DEF SetTracking, PathInv, PipelineTypeOK
  <2>3. underWay' = underWay
    BY <2>1 DEF underWay
  <2> QED
    BY <2>1, <2>2, <2>3, PathQuiet DEF PathInv, PipelineTypeOK
<1>2. CASE Receive
  BY <1>2, PathReceive
<1>3. CASE \E k \in 1..Len(ops) : OpStep(k)
  BY <1>3, PathWrites, PathUpsertAlert, PathAcknowledge DEF OpStep
<1> QED
  BY <1>1, <1>2, <1>3 DEF Server, ServerStep

LEMMA PathInvNext == PathInv /\ [Next]_vars => PathInv'
<1> SUFFICES ASSUME PathInv, [Next]_vars PROVE PathInv'
  OBVIOUS
<1>1. CASE UNCHANGED vars
  <2>1. /\ UNCHANGED <<buffering, calls, ops, alerts, acks, occurrences, received>>
        /\ UNCHANGED <<serverRulesTracking, wire, sendBuffer>>
    BY <1>1 DEF vars, clientVars, serverOnly
  <2>2. underWay' = underWay
    BY <2>1 DEF underWay
  <2> QED
    BY <2>1, <2>2, PathQuiet DEF PathInv, PipelineTypeOK
<1> QED
  BY <1>1, PathConnected, PathDisconnected, PathSend, PathFlush, PathServer, PathAckArrives DEF Next

LEMMA PathInvHolds == Spec => []PathInv
BY PathInvInit, PathInvNext, PTL DEF Spec

----------------------------------------------------------------------------
(* The pipeline: what follows                                              *)

\* The server is one of the servers the client's specification admits, so that
\* what is proved of the client holds in the pipeline.
THEOREM PipelineImplementsClient == Spec => ClientSpec
<1>1. PathInv /\ [Next]_vars => [ClientNext]_clientVars
  BY StepIsClients
<1>2. Init => ClientInit
  BY DEF Init
<1> QED
  BY <1>1, <1>2, PathInvHolds, PTL DEF Spec, ClientSpec

\* Every reachable state of the pipeline is well-typed.
THEOREM PipelineTypeCorrect == Spec => []PipelineTypeOK
<1>1. PathInv => PipelineTypeOK
  BY DEF PathInv
<1> QED
  BY <1>1, PathInvHolds, PTL

\* Inserted, updated or dropped is only said when all writes have ended and none
\* has reported an error.
THEOREM PipelineAnsweredAfterWrites == Spec => []AnsweredAfterWrites
<1>1. PathInv => AnsweredAfterWrites
  BY DEF PathInv, AnswersInv, AnsweredAfterWrites, Speaks, Fulfilled
<1> QED
  BY <1>1, PathInvHolds, PTL

\* No two callers are told that they created the same alert.
THEOREM PipelineCreatedOnce == Spec => []CreatedOnce
<1>1. PathInv => CreatedOnce
  <2> SUFFICES ASSUME PathInv, NEW m \in 1..Len(calls), NEW n \in 1..Len(calls),
                      calls[m].cb = "inserted", calls[n].cb = "inserted",
                      calls[m].ev.id = calls[n].ev.id
               PROVE  m = n
    BY DEF CreatedOnce
  <2>1. ASSUME NEW i \in 1..Len(calls), calls[i].cb = "inserted"
        PROVE  \E k \in 1..Len(ops) : /\ ops[k].call = i
                                      /\ ops[k].part["alert"] = "inserted"
                                      /\ ops[k].id = calls[i].ev.id
    <3>1. PICK k \in OpsOf(i) : Speaks("inserted", ops[k])
      BY <2>1 DEF PathInv, AnswersInv
    <3>2. k \in 1..Len(ops) /\ ops[k].call = i /\ i # NoCall
      BY <3>1, CallAssumption DEF OpsOf
    <3>3. ops[k].id = calls[i].ev.id
      BY <3>2 DEF PathInv, OpsInv
    <3>4. ops[k].part["alert"] = "inserted"
      BY <3>1 DEF Speaks, Answer
    <3> QED
      BY <3>2, <3>3, <3>4
  <2> QED
    BY <2>1 DEF PathInv, CreationsInv
<1> QED
  BY <1>1, PathInvHolds, PTL

\* A failed tracking write alone never makes an insert answer with an error.
THEOREM PipelineTrackingIsBestEffort == Spec => []TrackingIsBestEffort
<1>1. PathInv => TrackingIsBestEffort
  <2> SUFFICES ASSUME PathInv, NEW n \in 1..Len(calls), NEW k \in OpsOf(n),
                      calls[n].cb = "error"
               PROVE  \E p \in {"inventory", "occurences", "alert"} : ops[k].part[p] = "failed"
    BY DEF TrackingIsBestEffort
  <2>1. k \in 1..Len(ops) /\ Rejected(ops[k])
    BY DEF PathInv, AnswersInv, OpsOf
  <2>2. ops[k].part["tracking"] # "failed"
    BY <2>1 DEF PathInv, OpsInv
  <2> QED
    BY <2>1, <2>2 DEF Rejected, Part
<1> QED
  BY <1>1, PathInvHolds, PTL

----------------------------------------------------------------------------
(* Sums of sequences                                                       *)

\* The pairs of one position.
LEMMA Column ==
  ASSUME NEW k, NEW n \in Nat
  PROVE  IsFiniteSet({k} \X (1..n)) /\ Cardinality({k} \X (1..n)) = n
<1>1. IsFiniteSet(1..n) /\ Cardinality(1..n) = n
  BY FS_Interval
<1>2. IsFiniteSet({k}) /\ Cardinality({k}) = 1
  BY FS_Singleton
<1> QED
  BY <1>1, <1>2, FS_Product

LEMMA UnitsElement ==
  ASSUME NEW s \in Seq(Nat)
  PROVE  /\ \A k, u : <<k, u>> \in Units(s) <=> k \in 1..Len(s) /\ u \in 1..s[k]
         /\ \A x \in Units(s) : /\ x = <<x[1], x[2]>> /\ x[1] \in Nat /\ x[2] \in Nat
                                /\ x[1] \in 1..Len(s) /\ x[2] \in 1..s[x[1]]
<1>1. DOMAIN s = 1..Len(s) /\ Len(s) \in Nat /\ \A k \in 1..Len(s) : s[k] \in Nat
  OBVIOUS
<1>2. ASSUME NEW x \in Units(s)
      PROVE  /\ x = <<x[1], x[2]>> /\ x[1] \in Nat /\ x[2] \in Nat
             /\ x[1] \in 1..Len(s) /\ x[2] \in 1..s[x[1]]
  <2>1. PICK k \in 1..Len(s) : x \in {k} \X (1..s[k])
    BY <1>1 DEF Units
  <2> QED
    BY <1>1, <2>1
<1>3. ASSUME NEW k, NEW u
      PROVE  <<k, u>> \in Units(s) <=> k \in 1..Len(s) /\ u \in 1..s[k]
  <2>1. CASE <<k, u>> \in Units(s)
    <3>1. PICK j \in 1..Len(s) : <<k, u>> \in {j} \X (1..s[j])
      BY <1>1, <2>1 DEF Units
    <3> QED
      BY <2>1, <3>1
  <2>2. CASE k \in 1..Len(s) /\ u \in 1..s[k]
    <3>1. <<k, u>> \in {k} \X (1..s[k])
      BY <2>2
    <3> QED
      BY <1>1, <2>2, <3>1 DEF Units
  <2> QED
    BY <2>1, <2>2
<1> QED
  BY <1>2, <1>3

\* A sum is the number of a finite set.
LEMMA UnitsFinite ==
  ASSUME NEW s \in Seq(Nat)
  PROVE  IsFiniteSet(Units(s)) /\ Total(s) \in Nat
<1> DEFINE columns == {{k} \X (1..s[k]) : k \in 1..Len(s)}
           f == [k \in 1..Len(s) |-> {k} \X (1..s[k])]
<1>1. DOMAIN s = 1..Len(s) /\ Len(s) \in Nat /\ \A k \in 1..Len(s) : s[k] \in Nat
  OBVIOUS
<1>2. f \in Surjection(1..Len(s), columns)
  BY DEF Surjection
<1>3. IsFiniteSet(columns)
  BY <1>1, <1>2, FS_Interval, FS_Surjection
<1>4. \A c \in columns : IsFiniteSet(c)
  <2>1. ASSUME NEW k \in 1..Len(s) PROVE IsFiniteSet({k} \X (1..s[k]))
    BY <1>1, Column
  <2> QED
    BY <2>1
<1>5. IsFiniteSet(UNION columns)
  BY <1>3, <1>4, FS_UNION
<1>6. Units(s) = UNION columns
  BY <1>1 DEF Units
<1> QED
  BY <1>5, <1>6, FS_CardinalityType DEF Total

\* The sum without one of its terms.
Without(s, k) == {x \in Units(s) : x[1] # k}

LEMMA TotalSplit ==
  ASSUME NEW s \in Seq(Nat), NEW k \in 1..Len(s)
  PROVE  /\ IsFiniteSet(Without(s, k)) /\ Cardinality(Without(s, k)) \in Nat
         /\ Total(s) = Cardinality(Without(s, k)) + s[k]
<1>1. IsFiniteSet(Without(s, k)) /\ Cardinality(Without(s, k)) \in Nat
  BY UnitsFinite, FS_Subset, FS_CardinalityType DEF Without
<1>2. IsFiniteSet({k} \X (1..s[k])) /\ Cardinality({k} \X (1..s[k])) = s[k]
  <2>1. s[k] \in Nat
    OBVIOUS
  <2> QED
    BY <2>1, Column
<1>3. Units(s) = Without(s, k) \cup ({k} \X (1..s[k]))
  BY UnitsElement DEF Without
<1>4. Without(s, k) \cap ({k} \X (1..s[k])) = {}
  BY DEF Without
<1>5. Cardinality({}) = 0
  BY FS_EmptySet
<1>6. Cardinality(Units(s)) = Cardinality(Without(s, k)) + s[k] - 0
  BY <1>1, <1>2, <1>3, <1>4, <1>5, FS_Union, SMTT(30)
<1>7. s[k] \in Nat
  OBVIOUS
<1> QED
  BY <1>1, <1>6, <1>7 DEF Total

\* Two sequences that differ in one term have sums that differ as the terms do.
LEMMA TotalExcept ==
  ASSUME NEW s \in Seq(Nat), NEW t \in Seq(Nat), Len(s) = Len(t), NEW k \in 1..Len(s),
         \A j \in 1..Len(s) : j # k => t[j] = s[j]
  PROVE  Total(t) + s[k] = Total(s) + t[k]
<1>1. Without(s, k) = Without(t, k)
  <2>1. ASSUME NEW x \in Without(s, k) PROVE x \in Without(t, k)
    <3>1. x \in Units(s) /\ x[1] # k /\ x = <<x[1], x[2]>> /\ x[1] \in 1..Len(s) /\ x[2] \in 1..s[x[1]]
      BY UnitsElement DEF Without
    <3>2. x[2] \in 1..t[x[1]] /\ x[1] \in 1..Len(t)
      BY <3>1
    <3> QED
      BY <3>1, <3>2, UnitsElement DEF Without
  <2>2. ASSUME NEW x \in Without(t, k) PROVE x \in Without(s, k)
    <3>1. x \in Units(t) /\ x[1] # k /\ x = <<x[1], x[2]>> /\ x[1] \in 1..Len(t) /\ x[2] \in 1..t[x[1]]
      BY UnitsElement DEF Without
    <3>2. x[2] \in 1..s[x[1]] /\ x[1] \in 1..Len(s)
      BY <3>1
    <3> QED
      BY <3>1, <3>2, UnitsElement DEF Without
  <2> QED
    BY <2>1, <2>2
<1>2. Total(s) = Cardinality(Without(s, k)) + s[k] /\ Cardinality(Without(s, k)) \in Nat
  BY TotalSplit
<1>3. Total(t) = Cardinality(Without(t, k)) + t[k]
  BY TotalSplit
<1>4. s[k] \in Nat /\ t[k] \in Nat
  OBVIOUS
<1> QED
  BY <1>1, <1>2, <1>3, <1>4

\* One more term adds to the sum.
LEMMA TotalAppend ==
  ASSUME NEW s \in Seq(Nat), NEW n \in Nat
  PROVE  Total(Append(s, n)) = Total(s) + n
<1> DEFINE t == Append(s, n)
           k == Len(s) + 1
<1>1. /\ t \in Seq(Nat) /\ Len(t) = k /\ k \in 1..Len(t) /\ t[k] = n /\ Len(s) \in Nat
      /\ \A j \in 1..Len(s) : t[j] = s[j]
      /\ 1..Len(t) = (1..Len(s)) \cup {k} /\ k \notin 1..Len(s)
  OBVIOUS
<1>2. Total(t) = Cardinality(Without(t, k)) + n
  BY <1>1, TotalSplit
<1> HIDE DEF t, k
<1>3. Without(t, k) = Units(s)
  <2>1. ASSUME NEW x \in Without(t, k) PROVE x \in Units(s)
    <3>1. x[1] # k /\ x = <<x[1], x[2]>> /\ x[1] \in 1..Len(t) /\ x[2] \in 1..t[x[1]]
      BY <1>1, UnitsElement DEF Without
    <3>2. x[1] \in 1..Len(s) /\ x[2] \in 1..s[x[1]]
      BY <1>1, <3>1
    <3> QED
      BY <3>1, <3>2, UnitsElement
  <2>2. ASSUME NEW x \in Units(s) PROVE x \in Without(t, k)
    <3>1. x = <<x[1], x[2]>> /\ x[1] \in 1..Len(s) /\ x[2] \in 1..s[x[1]]
      BY UnitsElement
    <3>2. x[1] # k /\ x[1] \in 1..Len(t) /\ x[2] \in 1..t[x[1]]
      BY <1>1, <3>1
    <3> QED
      BY <1>1, <3>1, <3>2, UnitsElement DEF Without
  <2> QED
    BY <2>1, <2>2
<1> QED
  BY <1>2, <1>3 DEF Total, t

\* Without its first term a sum is smaller by that term.
LEMMA TotalTail ==
  ASSUME NEW s \in Seq(Nat), s # <<>>
  PROVE  Total(s) = Total(Tail(s)) + s[1]
<1> DEFINE t == Tail(s)
           f == [x \in Without(s, 1) |-> <<x[1] - 1, x[2]>>]
<1>1. /\ t \in Seq(Nat) /\ Len(t) = Len(s) - 1 /\ Len(s) \in Nat \ {0}
      /\ \A j \in 1..Len(t) : t[j] = s[j + 1]
  BY HeadTailProperties, EmptySeq
<1> HIDE DEF t
<1>2. 1 \in 1..Len(s)
  BY <1>1
<1>3. Total(s) = Cardinality(Without(s, 1)) + s[1] /\ IsFiniteSet(Without(s, 1))
  BY <1>2, TotalSplit
<1>4. f \in Bijection(Without(s, 1), Units(t))
  <2>0. ASSUME NEW x \in Without(s, 1)
        PROVE  /\ x = <<x[1], x[2]>> /\ x[1] \in Int /\ x[2] \in 1..s[x[1]]
               /\ x[1] - 1 \in 1..Len(t) /\ t[x[1] - 1] = s[x[1]]
    <3>1. x = <<x[1], x[2]>> /\ x[1] \in Nat /\ x[1] \in 1..Len(s) /\ x[2] \in 1..s[x[1]] /\ x[1] # 1
      BY UnitsElement DEF Without
    <3> DEFINE j == x[1] - 1
    <3>2. j \in 1..Len(t) /\ j + 1 = x[1]
      BY <1>1, <3>1, SMTT(30)
    <3>3. t[j] = s[j + 1]
      BY <1>1, <3>2
    <3> QED
      BY <3>1, <3>2, <3>3
  <2>1. ASSUME NEW x \in Without(s, 1) PROVE f[x] \in Units(t)
    BY <1>1, <2>0, UnitsElement
  <2>2. ASSUME NEW x \in Without(s, 1), NEW y \in Without(s, 1), f[x] = f[y] PROVE x = y
    <3>1. x[1] - 1 = y[1] - 1 /\ x[2] = y[2]
      BY <2>2
    <3>2. x[1] = y[1]
      BY <2>0, <3>1
    <3> QED
      BY <2>0, <3>1, <3>2
  <2>3. ASSUME NEW y \in Units(t) PROVE \E x \in Without(s, 1) : f[x] = y
    <3>1. y = <<y[1], y[2]>> /\ y[1] \in Nat /\ y[1] \in 1..Len(t) /\ y[2] \in 1..t[y[1]]
      BY <1>1, UnitsElement
    <3> DEFINE j == y[1] + 1
               x == <<j, y[2]>>
    <3>2. j \in 1..Len(s) /\ j # 1 /\ j - 1 = y[1]
      <4>1. \A i \in 1..Len(t) : i + 1 \in 1..Len(s) /\ i + 1 # 1 /\ (i + 1) - 1 = i
        BY <1>1
      <4> QED
        BY <3>1, <4>1
    <3>3. t[y[1]] = s[j]
      BY <1>1, <3>1
    <3> HIDE DEF j
    <3>4. x \in Without(s, 1)
      BY <3>1, <3>2, <3>3, UnitsElement DEF Without
    <3>5. f[x] = <<j - 1, y[2]>>
      BY <3>4
    <3> QED
      BY <3>1, <3>2, <3>4, <3>5
  <2> HIDE DEF f
  <2>4. f \in [Without(s, 1) -> Units(t)]
    BY <2>1 DEF f
  <2>5. f \in Injection(Without(s, 1), Units(t))
    BY <2>2, <2>4 DEF Injection, IsInjective
  <2>6. f \in Surjection(Without(s, 1), Units(t))
    BY <2>3, <2>4 DEF Surjection
  <2> QED
    BY <2>5, <2>6 DEF Bijection
<1>5. Cardinality(Units(t)) = Cardinality(Without(s, 1))
  BY <1>3, <1>4, FS_Bijection DEF ExistsBijection
<1> QED
  BY <1>3, <1>5 DEF Total, t

\* A sum with no term but one is that term.
LEMMA TotalSingle ==
  ASSUME NEW s \in Seq(Nat), NEW k \in 1..Len(s), \A j \in 1..Len(s) : j # k => s[j] = 0
  PROVE  Total(s) = s[k]
<1>1. Without(s, k) = {}
  BY UnitsElement, SMTT(30) DEF Without
<1>2. Total(s) = Cardinality({}) + s[k]
  BY <1>1, TotalSplit
<1>3. s[k] \in Nat
  OBVIOUS
<1> QED
  BY <1>2, <1>3, FS_EmptySet

LEMMA TotalZero ==
  ASSUME NEW s \in Seq(Nat), \A j \in 1..Len(s) : s[j] = 0
  PROVE  Total(s) = 0
<1>1. Units(s) = {}
  BY UnitsElement
<1> QED
  BY <1>1, FS_EmptySet DEF Total

\* A function over the positions of a sequence is a sequence.
LEMMA Mapped ==
  ASSUME NEW n \in Nat, NEW s \in [1..n -> Nat]
  PROVE  s \in Seq(Nat) /\ Len(s) = n
<1>1. s \in Seq(Nat)
  BY SeqDef
<1> QED
  BY <1>1

----------------------------------------------------------------------------
(* The tallies on their way                                                *)

LEMMA IncrementType ==
  ASSUME NEW t \in (Nat \ {0}) \cup {NoTally}
  PROVE  Increment(t) \in Nat \ {0}
BY DEF Increment

LEMMA InMessageType ==
  ASSUME NEW i, NEW m \in Message
  PROVE  /\ InMessage(i, m) \in Seq(Nat) /\ Len(InMessage(i, m)) = Len(m.events)
         /\ Total(InMessage(i, m)) \in Nat
<1>1. Len(m.events) \in Nat /\ \A k \in 1..Len(m.events) : m.events[k] \in Sent
  BY DEF Message
<1>2. \A k \in 1..Len(m.events) : Increment(m.events[k].tally) \in Nat
  BY <1>1, IncrementType DEF Sent
<1>3. InMessage(i, m) \in [1..Len(m.events) -> Nat]
  BY <1>2 DEF InMessage
<1>4. InMessage(i, m) \in Seq(Nat) /\ Len(InMessage(i, m)) = Len(m.events)
  BY <1>1, <1>3, Mapped
<1> QED
  BY <1>4, UnitsFinite

LEMMA InMessagesType ==
  ASSUME NEW i, NEW u \in Seq(Message)
  PROVE  /\ InMessages(i, u) \in Seq(Nat) /\ Len(InMessages(i, u)) = Len(u)
         /\ Total(InMessages(i, u)) \in Nat
<1>1. Len(u) \in Nat /\ \A j \in 1..Len(u) : u[j] \in Message
  OBVIOUS
<1>2. InMessages(i, u) \in [1..Len(u) -> Nat]
  BY <1>1, InMessageType DEF InMessages
<1>3. InMessages(i, u) \in Seq(Nat) /\ Len(InMessages(i, u)) = Len(u)
  BY <1>1, <1>2, Mapped
<1> QED
  BY <1>3, UnitsFinite

LEMMA InInsertsType ==
  ASSUME NEW i, NEW o \in Seq(Op)
  PROVE  /\ InInserts(i, o) \in Seq(Nat) /\ Len(InInserts(i, o)) = Len(o)
         /\ Total(InInserts(i, o)) \in Nat
<1>1. Len(o) \in Nat /\ \A k \in 1..Len(o) : o[k] \in Op
  OBVIOUS
<1>2. \A k \in 1..Len(o) : Increment(o[k].tally) \in Nat
  BY <1>1, IncrementType DEF Op
<1>3. InInserts(i, o) \in [1..Len(o) -> Nat]
  BY <1>2 DEF InInserts
<1>4. InInserts(i, o) \in Seq(Nat) /\ Len(InInserts(i, o)) = Len(o)
  BY <1>1, <1>3, Mapped
<1> QED
  BY <1>4, UnitsFinite

LEMMA InCallsType ==
  ASSUME NEW i, NEW c \in Seq(Call)
  PROVE  /\ InCalls(i, c) \in Seq(Nat) /\ Len(InCalls(i, c)) = Len(c)
         /\ Total(InCalls(i, c)) \in Nat
<1>1. Len(c) \in Nat /\ \A k \in 1..Len(c) : c[k] \in Call
  OBVIOUS
<1>2. \A k \in 1..Len(c) : Increment(c[k].ev.tally) \in Nat
  <2>1. \A k \in 1..Len(c) : c[k].ev.tally \in (Nat \ {0}) \cup {NoTally}
    BY <1>1, TallyAssumption DEF Call, Event
  <2> QED
    BY <2>1, IncrementType
<1>3. InCalls(i, c) \in [1..Len(c) -> Nat]
  BY <1>2 DEF InCalls
<1>4. InCalls(i, c) \in Seq(Nat) /\ Len(InCalls(i, c)) = Len(c)
  BY <1>1, <1>3, Mapped
<1> QED
  BY <1>4, UnitsFinite

\* One more message, insert or call adds its tally.
LEMMA InMessagesAppend ==
  ASSUME NEW i, NEW u \in Seq(Message), NEW m \in Message
  PROVE  Total(InMessages(i, Append(u, m))) = Total(InMessages(i, u)) + Total(InMessage(i, m))
<1> DEFINE w == Append(u, m)
           s == InMessages(i, u)
           n == Total(InMessage(i, m))
<1>1. /\ w \in Seq(Message) /\ Len(w) = Len(u) + 1 /\ Len(u) \in Nat /\ w[Len(u) + 1] = m
      /\ \A j \in 1..Len(u) : w[j] = u[j]
  OBVIOUS
<1>2. n \in Nat /\ s \in Seq(Nat) /\ Len(s) = Len(u)
  BY InMessageType, InMessagesType
<1>3. InMessages(i, w) \in Seq(Nat) /\ Len(InMessages(i, w)) = Len(w)
  BY <1>1, InMessagesType
<1>4. Append(s, n) \in Seq(Nat) /\ Len(Append(s, n)) = Len(s) + 1
  BY <1>2
<1> HIDE DEF w, s, n
<1>5. ASSUME NEW j \in 1..Len(w) PROVE InMessages(i, w)[j] = Append(s, n)[j]
  <2>1. InMessages(i, w)[j] = Total(InMessage(i, w[j]))
    BY DEF InMessages
  <2>2. CASE j \in 1..Len(u)
    <3>1. s[j] = Total(InMessage(i, u[j])) /\ w[j] = u[j]
      BY <1>1, <2>2 DEF InMessages, s
    <3>2. Append(s, n)[j] = s[j]
      BY <1>2, <2>2
    <3> QED
      BY <2>1, <3>1, <3>2
  <2>3. CASE j = Len(u) + 1
    <3>1. Append(s, n)[j] = n
      BY <1>2, <2>3
    <3> QED
      BY <1>1, <2>1, <2>3, <3>1 DEF n
  <2>4. j \in 1..Len(u) \/ j = Len(u) + 1
    BY <1>1
  <2> QED
    BY <2>2, <2>3, <2>4
<1>6. InMessages(i, w) = Append(s, n)
  BY <1>1, <1>2, <1>3, <1>4, <1>5, SeqEqual
<1> QED
  BY <1>2, <1>6, TotalAppend DEF w, s, n

LEMMA InInsertsAppend ==
  ASSUME NEW i, NEW o \in Seq(Op), NEW op \in Op
  PROVE  Total(InInserts(i, Append(o, op))) =
           Total(InInserts(i, o)) +
             IF op.id = i /\ op.part["alert"] = "pending" THEN Increment(op.tally) ELSE 0
<1> DEFINE w == Append(o, op)
           s == InInserts(i, o)
           n == IF op.id = i /\ op.part["alert"] = "pending" THEN Increment(op.tally) ELSE 0
<1>1. /\ w \in Seq(Op) /\ Len(w) = Len(o) + 1 /\ Len(o) \in Nat /\ w[Len(o) + 1] = op
      /\ \A j \in 1..Len(o) : w[j] = o[j]
  OBVIOUS
<1>2. n \in Nat /\ s \in Seq(Nat) /\ Len(s) = Len(o)
  BY InInsertsType, IncrementType DEF Op
<1>3. InInserts(i, w) \in Seq(Nat) /\ Len(InInserts(i, w)) = Len(w)
  BY <1>1, InInsertsType
<1>4. Append(s, n) \in Seq(Nat) /\ Len(Append(s, n)) = Len(s) + 1
  BY <1>2
<1> HIDE DEF w, s, n
<1>5. ASSUME NEW j \in 1..Len(w) PROVE InInserts(i, w)[j] = Append(s, n)[j]
  <2>1. InInserts(i, w)[j] = IF w[j].id = i /\ w[j].part["alert"] = "pending"
                             THEN Increment(w[j].tally) ELSE 0
    BY DEF InInserts
  <2>2. CASE j \in 1..Len(o)
    <3>1. s[j] = InInserts(i, w)[j]
      BY <1>1, <2>1, <2>2 DEF InInserts, s
    <3>2. Append(s, n)[j] = s[j]
      BY <1>2, <2>2
    <3> QED
      BY <3>1, <3>2
  <2>3. CASE j = Len(o) + 1
    <3>1. Append(s, n)[j] = n
      BY <1>2, <2>3
    <3> QED
      BY <1>1, <2>1, <2>3, <3>1 DEF n
  <2>4. j \in 1..Len(o) \/ j = Len(o) + 1
    BY <1>1
  <2> QED
    BY <2>2, <2>3, <2>4
<1>6. InInserts(i, w) = Append(s, n)
  BY <1>1, <1>2, <1>3, <1>4, <1>5, SeqEqual
<1> QED
  BY <1>2, <1>6, TotalAppend DEF w, s, n

LEMMA InCallsAppend ==
  ASSUME NEW i, NEW c \in Seq(Call), NEW call \in Call
  PROVE  Total(InCalls(i, Append(c, call))) =
           Total(InCalls(i, c)) +
             IF call.ev.id = i /\ call.qcb = "queued" THEN Increment(call.ev.tally) ELSE 0
<1> DEFINE w == Append(c, call)
           s == InCalls(i, c)
           n == IF call.ev.id = i /\ call.qcb = "queued" THEN Increment(call.ev.tally) ELSE 0
<1>1. /\ w \in Seq(Call) /\ Len(w) = Len(c) + 1 /\ Len(c) \in Nat /\ w[Len(c) + 1] = call
      /\ \A j \in 1..Len(c) : w[j] = c[j]
  OBVIOUS
<1>2. n \in Nat /\ s \in Seq(Nat) /\ Len(s) = Len(c)
  <2>1. call.ev.tally \in (Nat \ {0}) \cup {NoTally}
    BY TallyAssumption DEF Call, Event
  <2> QED
    BY <2>1, InCallsType, IncrementType
<1>3. InCalls(i, w) \in Seq(Nat) /\ Len(InCalls(i, w)) = Len(w)
  BY <1>1, InCallsType
<1>4. Append(s, n) \in Seq(Nat) /\ Len(Append(s, n)) = Len(s) + 1
  BY <1>2
<1> HIDE DEF w, s, n
<1>5. ASSUME NEW j \in 1..Len(w) PROVE InCalls(i, w)[j] = Append(s, n)[j]
  <2>1. InCalls(i, w)[j] = IF w[j].ev.id = i /\ w[j].qcb = "queued"
                           THEN Increment(w[j].ev.tally) ELSE 0
    BY DEF InCalls
  <2>2. CASE j \in 1..Len(c)
    <3>1. s[j] = InCalls(i, w)[j]
      BY <1>1, <2>1, <2>2 DEF InCalls, s
    <3>2. Append(s, n)[j] = s[j]
      BY <1>2, <2>2
    <3> QED
      BY <3>1, <3>2
  <2>3. CASE j = Len(c) + 1
    <3>1. Append(s, n)[j] = n
      BY <1>2, <2>3
    <3> QED
      BY <1>1, <2>1, <2>3, <3>1 DEF n
  <2>4. j \in 1..Len(c) \/ j = Len(c) + 1
    BY <1>1
  <2> QED
    BY <2>2, <2>3, <2>4
<1>6. InCalls(i, w) = Append(s, n)
  BY <1>1, <1>2, <1>3, <1>4, <1>5, SeqEqual
<1> QED
  BY <1>2, <1>6, TotalAppend DEF w, s, n

\* Taking the first message takes its tally.
LEMMA InMessagesTail ==
  ASSUME NEW i, NEW u \in Seq(Message), u # <<>>
  PROVE  Total(InMessages(i, u)) = Total(InMessages(i, Tail(u))) + Total(InMessage(i, u[1]))
<1> DEFINE t == Tail(u)
           s == InMessages(i, u)
<1>1. /\ t \in Seq(Message) /\ Len(t) = Len(u) - 1 /\ Len(u) \in Nat \ {0}
      /\ \A j \in 1..Len(t) : t[j] = u[j + 1]
  BY HeadTailProperties, EmptySeq
<1>2. s \in Seq(Nat) /\ Len(s) = Len(u) /\ InMessages(i, t) \in Seq(Nat) /\ Len(InMessages(i, t)) = Len(t)
  BY <1>1, InMessagesType
<1> HIDE DEF t
<1>3. s # <<>>
  BY <1>1, <1>2
<1>4. /\ Tail(s) \in Seq(Nat) /\ Len(Tail(s)) = Len(s) - 1
      /\ \A j \in 1..Len(Tail(s)) : Tail(s)[j] = s[j + 1]
  BY <1>2, <1>3, HeadTailProperties
<1>5. ASSUME NEW j \in 1..Len(t) PROVE InMessages(i, t)[j] = Tail(s)[j]
  <2>1. j + 1 \in 1..Len(u) /\ j \in 1..Len(Tail(s))
    <3>1. Len(Tail(s)) = Len(t) /\ Len(t) = Len(u) - 1
      BY <1>1, <1>2, <1>4
    <3>2. \A l \in Nat \ {0} : j \in 1..(l - 1) => j + 1 \in 1..l
      OBVIOUS
    <3> QED
      BY <1>1, <1>5, <3>1, <3>2
  <2>2. s[j + 1] = Total(InMessage(i, u[j + 1])) /\ InMessages(i, t)[j] = Total(InMessage(i, t[j]))
    BY <2>1 DEF InMessages
  <2> QED
    BY <1>1, <1>4, <2>1, <2>2
<1>6. InMessages(i, t) = Tail(s)
  BY <1>1, <1>2, <1>4, <1>5, SeqEqual
<1>7. s[1] = Total(InMessage(i, u[1]))
  BY <1>1 DEF InMessages
<1> HIDE DEF s
<1> QED
  BY <1>2, <1>3, <1>6, <1>7, TotalTail DEF s, t

\* Inserts that agree on identifier, tally and alert hold the same tallies.
LEMMA InInsertsSame ==
  ASSUME NEW i, NEW o \in Seq(Op), NEW w \in Seq(Op), Len(o) = Len(w),
         \A k \in 1..Len(o) : /\ w[k].id = o[k].id /\ w[k].tally = o[k].tally
                              /\ w[k].part["alert"] = o[k].part["alert"]
  PROVE  InInserts(i, w) = InInserts(i, o)
BY DEF InInserts

LEMMA InCallsSame ==
  ASSUME NEW i, NEW c \in Seq(Call), NEW w \in Seq(Call), Len(c) = Len(w),
         \A k \in 1..Len(c) : w[k].ev = c[k].ev /\ w[k].qcb = c[k].qcb
  PROVE  InCalls(i, w) = InCalls(i, c)
BY DEF InCalls

\* When the alert of one insert settles, its tally is no longer on its way.
LEMMA InInsertsSettled ==
  ASSUME NEW i, NEW o \in Seq(Op), NEW w \in Seq(Op), Len(o) = Len(w), NEW k \in 1..Len(o),
         \A j \in 1..Len(o) : j # k => w[j] = o[j],
         o[k].part["alert"] = "pending", w[k].part["alert"] # "pending"
  PROVE  Total(InInserts(i, o)) =
           Total(InInserts(i, w)) + IF o[k].id = i THEN Increment(o[k].tally) ELSE 0
<1> DEFINE s == InInserts(i, o)
           t == InInserts(i, w)
<1>1. s \in Seq(Nat) /\ t \in Seq(Nat) /\ Len(s) = Len(o) /\ Len(t) = Len(o)
  BY InInsertsType
<1>2. \A j \in 1..Len(o) : j # k => t[j] = s[j]
  BY DEF InInserts
<1>3. t[k] = 0 /\ s[k] = IF o[k].id = i THEN Increment(o[k].tally) ELSE 0
  BY DEF InInserts
<1>4. s[k] \in Nat /\ Total(s) \in Nat /\ Total(t) \in Nat
  BY <1>1, UnitsFinite
<1> HIDE DEF s, t
<1>5. Total(t) + s[k] = Total(s) + t[k]
  BY <1>1, <1>2, TotalExcept
<1> QED
  BY <1>3, <1>4, <1>5 DEF s, t

\* The message of one event holds that event's tally.
LEMMA EventMessageTally ==
  ASSUME NEW i, NEW ev \in Event, NEW n \in Nat
  PROVE  Total(InMessage(i, [events |-> <<ev>>, call |-> n])) =
           IF ev.id = i THEN Increment(ev.tally) ELSE 0
<1> DEFINE m == [events |-> <<ev>>, call |-> n]
           s == InMessage(i, m)
<1>1. m \in Message
  BY EventMessageType
<1>2. Len(m.events) = 1 /\ m.events[1] = ev
  OBVIOUS
<1>3. s \in Seq(Nat) /\ Len(s) = 1
  BY <1>1, <1>2, InMessageType
<1>4. s[1] = IF ev.id = i THEN Increment(ev.tally) ELSE 0
  BY <1>2 DEF InMessage
<1> HIDE DEF s
<1>5. Total(s) = s[1]
  BY <1>3, TotalSingle, SMTT(30)
<1> QED
  BY <1>4, <1>5 DEF s

\* The message of a flush holds what was pending.
LEMMA BatchTally ==
  ASSUME ClientInv, NEW i \in Ident
  PROVE  Total(InMessage(i, [events |-> Batch, call |-> NoCall])) = PendingTally(i)
<1> DEFINE m == [events |-> Batch, call |-> NoCall]
           s == InMessage(i, m)
<1>1. m \in Message /\ Len(queue) \in Nat
  BY BatchType DEF ClientInv, TypeOK
<1>2. Len(m.events) = Len(queue)
  BY <1>1 DEF Batch
<1>3. s \in Seq(Nat) /\ Len(s) = Len(queue)
  BY <1>1, <1>2, InMessageType
<1>4. \A k \in 1..Len(queue) :
        s[k] = IF queue[k] = i THEN Increment(q_data[queue[k]].tally) ELSE 0
  BY <1>2 DEF InMessage, Batch
<1> HIDE DEF s
<1>5. CASE i \in DOMAIN q_data
  <2>1. PICK k \in 1..Len(queue) : queue[k] = i
    BY <1>5 DEF ClientInv, QueueMatchesData, Elems
  <2>2. q_data[i].tally \in Nat \ {0}
    BY <1>5 DEF ClientInv, TypeOK, Entry
  <2>3. s[k] = PendingTally(i)
    BY <1>4, <1>5, <2>1, <2>2, TallyAssumption DEF Increment, PendingTally
  <2>4. \A j \in 1..Len(s) : j # k => s[j] = 0
    BY <1>3, <1>4, <2>1 DEF ClientInv, QueueMatchesData
  <2>5. Total(s) = s[k]
    BY <1>3, <2>1, <2>4, TotalSingle
  <2> QED
    BY <2>3, <2>5 DEF s
<1>6. CASE i \notin DOMAIN q_data
  <2>1. \A k \in 1..Len(queue) : queue[k] # i
    BY <1>6 DEF ClientInv, QueueMatchesData, Elems
  <2>2. \A j \in 1..Len(s) : s[j] = 0
    BY <1>3, <1>4, <2>1
  <2>3. Total(s) = 0
    BY <1>3, <2>2, TotalZero
  <2> QED
    BY <1>6, <2>3 DEF s, PendingTally
<1> QED
  BY <1>5, <1>6

----------------------------------------------------------------------------
(* The refinement of EventDelivery                                         *)

\* The three sums that make up what is owed, and what has been submitted.
LEMMA OwedParts ==
  ASSUME PathInv, NEW i \in Ident
  PROVE  /\ Owed[i] = PendingTally(i) + Total(InMessages(i, underWay)) + Total(InInserts(i, ops))
         /\ Submitted[i] = Total(InCalls(i, calls))
         /\ PendingTally(i) \in Nat
         /\ Total(InMessages(i, underWay)) \in Nat
         /\ Total(InInserts(i, ops)) \in Nat
         /\ Total(InCalls(i, calls)) \in Nat
         /\ Owed[i] \in Nat /\ Submitted[i] \in Nat
<1>1. underWay \in Seq(Message) /\ calls \in Seq(Call) /\ ops \in Seq(Op)
  BY PathTypes, OpType DEF PathInv
<1>2. PendingTally(i) \in Nat
  BY DEF PathInv, ClientInv, TypeOK, PendingTally, Entry
<1>3. /\ Total(InMessages(i, underWay)) \in Nat
      /\ Total(InInserts(i, ops)) \in Nat
      /\ Total(InCalls(i, calls)) \in Nat
  BY <1>1, InMessagesType, InInsertsType, InCallsType
<1> QED
  BY <1>2, <1>3 DEF Owed, Submitted

\* The same after a step.
LEMMA OwedPartsAfter ==
  ASSUME PathInv', NEW i \in Ident
  PROVE  /\ Owed'[i] = PendingTally(i)' + Total(InMessages(i, underWay')) + Total(InInserts(i, ops'))
         /\ Submitted'[i] = Total(InCalls(i, calls'))
         /\ PendingTally(i)' \in Nat
         /\ Total(InMessages(i, underWay')) \in Nat
         /\ Total(InInserts(i, ops')) \in Nat
         /\ Total(InCalls(i, calls')) \in Nat
         /\ Owed'[i] \in Nat /\ Submitted'[i] \in Nat
<1>1. underWay' \in Seq(Message) /\ calls' \in Seq(Call) /\ ops' \in Seq(Op)
  <2>1. TypeOK' /\ calls' \in Seq(Call) /\ ops' \in Seq(Op)
    BY DEF PathInv, ClientInv, TypeOK, PipelineTypeOK
  <2>2. wire' \in Seq(Message) /\ sendBuffer' \in Seq(Message)
    BY <2>1 DEF TypeOK
  <2> QED
    BY <2>1, <2>2, ConcatProperties DEF underWay
<1>2. PendingTally(i)' \in Nat
  BY DEF PathInv, ClientInv, TypeOK, PendingTally, Entry
<1>3. /\ Total(InMessages(i, underWay')) \in Nat
      /\ Total(InInserts(i, ops')) \in Nat
      /\ Total(InCalls(i, calls')) \in Nat
  BY <1>1, InMessagesType, InInsertsType, InCallsType
<1>4. /\ Owed'[i] = PendingTally(i)' + Total(InMessages(i, underWay')) + Total(InInserts(i, ops'))
      /\ Submitted'[i] = Total(InCalls(i, calls'))
  BY DEF Owed, Submitted, Total, Units, InMessages, InInserts, InCalls, InMessage, Increment
<1> QED
  BY <1>2, <1>3, <1>4

\* A step that stores nothing, submits nothing and owes no more than before.
LEMMA ForgetStep ==
  ASSUME PathInv, PathInv', alerts' = alerts,
         \A i \in Ident : /\ Total(InCalls(i, calls')) = Total(InCalls(i, calls))
                          /\ Owed'[i] <= Owed[i]
  PROVE  Delivery!Next
<1>1. Owed' = [i \in Ident |-> Owed'[i]] /\ \A i \in Ident : Owed'[i] \in Nat
  BY OwedPartsAfter DEF Owed
<1>2. Submitted' = Submitted
  <2>1. \A i \in Ident : Submitted'[i] = Submitted[i]
    BY OwedParts, OwedPartsAfter
  <2>2. Submitted' = [i \in Ident |-> Submitted'[i]] /\ Submitted = [i \in Ident |-> Submitted[i]]
    BY DEF Submitted
  <2> QED
    BY <2>1, <2>2
<1>3. Owed' \in [Ident -> Nat]
  BY <1>1
<1> QED
  BY <1>2, <1>3 DEF Delivery!Next, Delivery!Forget

\* A step that submits: what is owed grows by what is submitted.
LEMMA SubmitStep ==
  ASSUME PathInv, PathInv', alerts' = alerts, NEW id \in Ident, NEW n \in Nat \ {0},
         \A i \in Ident :
           /\ Submitted'[i] = Submitted[i] + IF i = id THEN n ELSE 0
           /\ Owed'[i] = Owed[i] + IF i = id THEN n ELSE 0
  PROVE  Delivery!Next
<1>1. /\ Submitted' = [i \in Ident |-> Submitted'[i]] /\ Submitted = [i \in Ident |-> Submitted[i]]
      /\ Owed' = [i \in Ident |-> Owed'[i]] /\ Owed = [i \in Ident |-> Owed[i]]
  BY DEF Submitted, Owed
<1>2. \A i \in Ident : Submitted[i] \in Nat /\ Owed[i] \in Nat
  BY OwedParts
<1>3. Submitted'[id] = Submitted[id] + n /\ Submitted'[id] > Submitted[id]
      /\ Submitted'[id] - Submitted[id] = n /\ Owed'[id] = Owed[id] + n
  BY <1>2
<1>4. \A i \in Ident : i # id => Submitted'[i] = Submitted[i] /\ Owed'[i] = Owed[i]
  BY <1>2
<1>5. Submitted' = [Submitted EXCEPT ![id] = Submitted'[id]]
  BY <1>1, <1>4
<1>6. Owed' = [Owed EXCEPT ![id] = @ + (Submitted'[id] - Submitted[id])]
  BY <1>1, <1>3, <1>4
<1> QED
  BY <1>3, <1>5, <1>6 DEF Delivery!Next, Delivery!Submit

\* A step that stores: what is stored was owed.
LEMMA StoreStep ==
  ASSUME PathInv, PathInv', NEW id \in Ident, NEW n \in Nat \ {0},
         alerts' = [alerts EXCEPT ![id] = alerts[id] + n],
         \A i \in Ident : /\ Total(InCalls(i, calls')) = Total(InCalls(i, calls))
                          /\ Owed[i] = Owed'[i] + IF i = id THEN n ELSE 0
  PROVE  Delivery!Next
<1>1. Owed' = [i \in Ident |-> Owed'[i]] /\ Owed = [i \in Ident |-> Owed[i]]
  BY DEF Owed
<1>2. \A i \in Ident : Owed[i] \in Nat /\ Owed'[i] \in Nat
  BY OwedParts, OwedPartsAfter
<1>3. alerts \in [Ident -> Nat]
  BY DEF PathInv, PipelineTypeOK
<1>4. /\ alerts'[id] = alerts[id] + n /\ alerts'[id] > alerts[id] /\ alerts'[id] - alerts[id] = n
      /\ alerts' = [alerts EXCEPT ![id] = alerts'[id]]
  BY <1>3
<1>5. Owed[id] >= n /\ Owed'[id] = Owed[id] - n
  BY <1>2
<1>6. \A i \in Ident : i # id => Owed'[i] = Owed[i]
  BY <1>2
<1>7. Owed' = [Owed EXCEPT ![id] = @ - (alerts'[id] - alerts[id])]
  BY <1>1, <1>4, <1>5, <1>6
<1>8. Submitted' = Submitted
  <2>1. \A i \in Ident : Submitted'[i] = Submitted[i]
    BY OwedParts, OwedPartsAfter
  <2>2. Submitted' = [i \in Ident |-> Submitted'[i]] /\ Submitted = [i \in Ident |-> Submitted[i]]
    BY DEF Submitted
  <2> QED
    BY <2>1, <2>2
<1> QED
  BY <1>4, <1>5, <1>7, <1>8 DEF Delivery!Next, Delivery!Store

\* A step of the client by itself that submits nothing.
LEMMA DeliverySame ==
  ASSUME PathInv, PathInv', UNCHANGED <<q_data, alerts>>, underWay' = underWay,
         \A i \in Ident : Total(InCalls(i, calls')) = Total(InCalls(i, calls)),
         \A i \in Ident : Total(InInserts(i, ops')) <= Total(InInserts(i, ops))
  PROVE  Delivery!Next
<1> SUFFICES ASSUME NEW i \in Ident PROVE Owed'[i] <= Owed[i]
  BY ForgetStep
<1>1. PendingTally(i)' = PendingTally(i)
  BY DEF PendingTally
<1>2. Total(InMessages(i, underWay')) = Total(InMessages(i, underWay))
  OBVIOUS
<1> QED
  BY <1>1, <1>2, OwedParts, OwedPartsAfter

LEMMA DeliverySend ==
  ASSUME PathInv, PathInv', NEW ev \in Event, Send(ev)
  PROVE  Delivery!Next
<1> DEFINE n == Increment(ev.tally)
<1>0. /\ UNCHANGED <<ops, alerts>> /\ sendAlert(ev)
      /\ calls \in Seq(Call) /\ Len(calls) \in Nat /\ underWay \in Seq(Message)
  BY PathTypes DEF Send, serverOnly
<1>1. ev.id \in Ident /\ ev.tally \in (Nat \ {0}) \cup {NoTally} /\ n \in Nat \ {0}
  <2>1. ev.id \in Ident /\ ev.tally \in (Nat \ {0}) \cup {NoTally}
    BY TallyAssumption DEF Event
  <2> QED
    BY <2>1, IncrementType
<1>2. CASE RejectAlert(ev)
  <2> DEFINE c == [ev |-> ev, cb |-> "error", qcb |-> "error"]
  <2>1. c \in Call /\ c.qcb # "queued"
    BY DEF Call, CallbackState, Outcome
  <2>2. calls' = Append(calls, c) /\ UNCHANGED <<q_data, wire, sendBuffer>>
    BY <1>2 DEF RejectAlert
  <2>3. underWay' = underWay
    BY <2>2 DEF underWay
  <2> HIDE DEF c
  <2>4. ASSUME NEW i \in Ident PROVE Total(InCalls(i, calls')) = Total(InCalls(i, calls))
    <3>1. Total(InCalls(i, Append(calls, c))) = Total(InCalls(i, calls)) + 0
      BY <1>0, <2>1, InCallsAppend
    <3> QED
      BY <2>2, <3>1, OwedParts
  <2>5. ASSUME NEW i \in Ident PROVE Total(InInserts(i, ops')) <= Total(InInserts(i, ops))
    BY <1>0, OwedParts
  <2> QED
    BY <1>0, <2>2, <2>3, <2>4, <2>5, DeliverySame
<1>3. CASE BufferAlert(ev) \/ EmitAlert(ev)
  <2>1. PICK c \in Call : c.ev = ev /\ c.qcb = "queued" /\ calls' = Append(calls, c)
    <3>1. /\ [ev |-> ev, cb |-> "forgotten", qcb |-> "queued"] \in Call
          /\ [ev |-> ev, cb |-> "waiting", qcb |-> "queued"] \in Call
      BY DEF Call, CallbackState
    <3> QED
      BY <1>3, <3>1 DEF BufferAlert, EmitAlert
  <2> SUFFICES ASSUME NEW i \in Ident
               PROVE  /\ Submitted'[i] = Submitted[i] + IF i = ev.id THEN n ELSE 0
                      /\ Owed'[i] = Owed[i] + IF i = ev.id THEN n ELSE 0
    <3> HIDE DEF n
    <3> QED
      BY <1>0, <1>1, SubmitStep
  <2>2. Submitted'[i] = Submitted[i] + IF i = ev.id THEN n ELSE 0
    BY <1>0, <2>1, InCallsAppend, OwedParts, OwedPartsAfter
  <2>3. Total(InInserts(i, ops')) = Total(InInserts(i, ops))
    BY <1>0
  <2>4. CASE BufferAlert(ev)
    <3>1. q_data' = [j \in DOMAIN q_data \cup {ev.id} |->
                       IF j = ev.id THEN Folded(ev, Len(calls) + 1) ELSE q_data[j]]
      BY <2>4 DEF BufferAlert, addEventToQueue
    <3>2. PendingTally(i)' = PendingTally(i) + IF i = ev.id THEN n ELSE 0
      <4>1. CASE i = ev.id
        <5>1. PendingTally(i)' = QueuedTally(ev) + PendingTally(i)
          BY <3>1, <4>1 DEF PendingTally, Folded
        <5>2. QueuedTally(ev) = n
          BY DEF QueuedTally, Increment
        <5> HIDE DEF n
        <5> QED
          BY <1>1, <4>1, <5>1, <5>2, OwedParts
      <4>2. CASE i # ev.id
        <5>1. PendingTally(i)' = PendingTally(i)
          BY <3>1, <4>2 DEF PendingTally
        <5> QED
          BY <4>2, <5>1, OwedParts
      <4> QED
        BY <4>1, <4>2
    <3>3. underWay' = underWay
      BY <2>4 DEF BufferAlert, underWay
    <3>4. Total(InMessages(i, underWay')) = Total(InMessages(i, underWay))
      BY <3>3
    <3> HIDE DEF n
    <3> QED
      BY <1>1, <2>2, <2>3, <3>2, <3>4, OwedParts, OwedPartsAfter
  <2>5. CASE EmitAlert(ev)
    <3> DEFINE m == [events |-> <<ev>>, call |-> Len(calls) + 1]
    <3>1. m \in Message
      BY <1>0, EventMessageType
    <3>2. underWay' = Append(underWay, m)
      BY <2>5, <3>1, PathTypes, UnderWayEmit DEF EmitAlert, PathInv, OrderInv
    <3>3. Total(InMessage(i, m)) = IF i = ev.id THEN n ELSE 0
      BY <1>0, EventMessageTally
    <3> HIDE DEF m
    <3>4. Total(InMessages(i, underWay')) = Total(InMessages(i, underWay)) + IF i = ev.id THEN n ELSE 0
      BY <1>0, <3>1, <3>2, <3>3, InMessagesAppend
    <3>5. PendingTally(i)' = PendingTally(i)
      BY <2>5 DEF EmitAlert, PendingTally
    <3> HIDE DEF n
    <3> QED
      BY <1>1, <2>2, <2>3, <3>4, <3>5, OwedParts, OwedPartsAfter
  <2> QED
    BY <1>3, <2>4, <2>5
<1> QED
  BY <1>0, <1>2, <1>3 DEF sendAlert

LEMMA DeliveryFlush ==
  ASSUME PathInv, PathInv', Flush
  PROVE  Delivery!Next
<1> DEFINE m == [events |-> Batch, call |-> NoCall]
<1>0. /\ UNCHANGED <<ops, alerts, calls>> /\ flushBufferQueue /\ ClientInv
      /\ underWay \in Seq(Message)
  BY PathTypes DEF Flush, serverOnly, flushBufferQueue, PathInv
<1>1. m \in Message
  BY <1>0, BatchType
<1>2. underWay' = Append(underWay, m)
  BY <1>0, <1>1, PathTypes, UnderWayEmit DEF flushBufferQueue, PathInv, OrderInv
<1> SUFFICES ASSUME NEW i \in Ident PROVE Owed'[i] <= Owed[i]
  BY <1>0, ForgetStep
<1>3. Total(InMessage(i, m)) = PendingTally(i)
  BY <1>0, BatchTally
<1> HIDE DEF m
<1>4. Total(InMessages(i, underWay')) = Total(InMessages(i, underWay)) + PendingTally(i)
  BY <1>0, <1>1, <1>2, <1>3, InMessagesAppend
<1>5. PendingTally(i)' = 0
  BY <1>0 DEF flushBufferQueue, PendingTally
<1>6. Total(InInserts(i, ops')) = Total(InInserts(i, ops))
  BY <1>0
<1> QED
  BY <1>4, <1>5, <1>6, OwedParts, OwedPartsAfter

LEMMA DeliveryDisconnected ==
  ASSUME PathInv, PathInv', Disconnected
  PROVE  Delivery!Next
<1>0. /\ UNCHANGED <<q_data, alerts, calls>>
      /\ ops' = [k \in 1..Len(ops) |->
                   IF ops[k].answered THEN ops[k] ELSE [ops[k] EXCEPT !.call = NoCall]]
  BY DEF Disconnected, Disconnect
<1>1. underWay' = <<>>
  BY UnderWayDisconnect DEF Disconnected, PathInv, OrderInv
<1>2. /\ ops \in Seq(Op) /\ ops' \in Seq(Op) /\ Len(ops) \in Nat
      /\ \A k \in 1..Len(ops) : ops[k] \in Op
  BY OpType DEF PathInv, PipelineTypeOK
<1>3. /\ Len(ops') = Len(ops)
      /\ \A k \in 1..Len(ops) : /\ ops'[k].id = ops[k].id /\ ops'[k].tally = ops[k].tally
                                /\ ops'[k].part["alert"] = ops[k].part["alert"]
  BY <1>0, <1>2 DEF Op
<1> SUFFICES ASSUME NEW i \in Ident PROVE Owed'[i] <= Owed[i]
  BY <1>0, ForgetStep
<1>4. InInserts(i, ops') = InInserts(i, ops)
  BY <1>2, <1>3, InInsertsSame
<1>5. Total(InMessages(i, underWay')) = 0
  <2>1. <<>> \in Seq(Message)
    OBVIOUS
  <2>2. InMessages(i, <<>>) \in Seq(Nat) /\ Len(InMessages(i, <<>>)) = 0
    BY <2>1, InMessagesType
  <2> QED
    BY <1>1, <2>2, TotalZero
<1>6. PendingTally(i)' = PendingTally(i)
  BY <1>0 DEF PendingTally
<1> QED
  BY <1>4, <1>5, <1>6, OwedParts, OwedPartsAfter

\* What a message holds is owed by the insert it becomes, or by nobody.
LEMMA DeliveryReceive ==
  ASSUME PathInv, PathInv', Server, Receive
  PROVE  Delivery!Next
<1>0. /\ UNCHANGED <<q_data, alerts, calls, sendBuffer>> /\ wire # <<>> /\ wire' = Tail(wire)
      /\ TypeOK /\ underWay \in Seq(Message) /\ ops \in Seq(Op)
  BY PathTypes, OpType DEF Server, Receive, PathInv
<1>1. /\ underWay # <<>> /\ underWay[1] = Head(wire) /\ underWay' = Tail(underWay)
      /\ Head(wire) \in Message
  BY <1>0, UnderWayTaken
<1> SUFFICES ASSUME NEW i \in Ident PROVE Owed'[i] <= Owed[i]
  BY <1>0, ForgetStep
<1>2. Total(InMessages(i, underWay)) =
        Total(InMessages(i, underWay')) + Total(InMessage(i, Head(wire)))
  BY <1>0, <1>1, InMessagesTail
<1>3. Total(InMessage(i, Head(wire))) \in Nat
  BY <1>1, InMessageType
<1>4. Total(InInserts(i, ops')) <= Total(InInserts(i, ops)) + Total(InMessage(i, Head(wire)))
  <2>1. CASE ops' = ops
    BY <1>3, <2>1, OwedParts
  <2>2. CASE /\ Head(wire).call # NoCall
             /\ ops' = Append(ops, NewOp(Head(wire).events[1], Head(wire).call))
    <3> DEFINE n == Head(wire).call
               ev == calls[n].ev
               op == NewOp(ev, n)
               s == InMessage(i, Head(wire))
    <3>1. /\ n \in 1..Len(calls) /\ Head(wire).events[1] = ev /\ Len(Head(wire).events) = 1
      BY <1>0, <2>2, TakenCall
    <3>2. ev \in Event /\ n \in Nat
      <4>1. calls[n] \in Call /\ n \in Nat
        BY <3>1, PathTypes
      <4> QED
        BY <4>1 DEF Call
    <3>3. ev.id \in Ident /\ ev.tally \in (Nat \ {0}) \cup {NoTally}
      BY <3>2, TallyAssumption DEF Event
    <3>4. op \in Op /\ op.id = ev.id /\ op.tally = ev.tally
      BY <3>2, <3>3, NewOpFacts
    <3>5. s \in Seq(Nat) /\ Len(s) = 1 /\ s[1] = IF ev.id = i THEN Increment(ev.tally) ELSE 0
      <4>1. s \in Seq(Nat) /\ Len(s) = 1
        BY <1>1, <3>1, InMessageType
      <4>2. 1 \in 1..Len(Head(wire).events)
        BY <3>1
      <4>3. s[1] = IF Head(wire).events[1].id = i
                   THEN Increment(Head(wire).events[1].tally) ELSE 0
        BY <4>2 DEF InMessage
      <4> QED
        BY <4>1, <4>3, <3>1
    <3>6. ops' = Append(ops, op)
      BY <2>2, <3>1
    <3> HIDE DEF s, op, ev, n
    <3>7. Total(s) = IF ev.id = i THEN Increment(ev.tally) ELSE 0
      BY <3>5, TotalSingle, SMTT(30)
    <3>8. Total(InInserts(i, ops')) =
            Total(InInserts(i, ops)) +
              IF op.id = i /\ op.part["alert"] = "pending" THEN Increment(op.tally) ELSE 0
      BY <1>0, <3>4, <3>6, InInsertsAppend
    <3>9. Increment(ev.tally) \in Nat
      BY <3>3, IncrementType
    <3>10. Total(InInserts(i, ops')) <= Total(InInserts(i, ops)) + Total(s)
      BY <3>4, <3>7, <3>8, <3>9, OwedParts
    <3> QED
      BY <3>10 DEF s
  <2> QED
    BY <2>1, <2>2 DEF Receive, insert_event, insert_events
<1>5. PendingTally(i)' = PendingTally(i)
  BY <1>0 DEF PendingTally
<1> QED
  BY <1>2, <1>3, <1>4, <1>5, OwedParts, OwedPartsAfter

\* A write other than the alert's moves nothing.
LEMMA DeliveryQuietServer ==
  ASSUME PathInv, PathInv', Server, UNCHANGED <<wire, alerts>>,
         Len(ops') = Len(ops),
         \A k \in 1..Len(ops) : /\ ops'[k].id = ops[k].id /\ ops'[k].tally = ops[k].tally
                                /\ ops'[k].part["alert"] = ops[k].part["alert"]
  PROVE  Delivery!Next
<1>1. UNCHANGED <<q_data, alerts, calls, wire, sendBuffer>>
  BY DEF Server
<1>2. underWay' = underWay /\ ops \in Seq(Op) /\ ops' \in Seq(Op)
  BY <1>1 DEF underWay, PathInv, PipelineTypeOK
<1>3. \A i \in Ident : InInserts(i, ops') = InInserts(i, ops)
  BY <1>2, InInsertsSame
<1> QED
  BY <1>1, <1>2, <1>3, DeliverySame, OwedParts

LEMMA DeliveryUpsert ==
  ASSUME PathInv, PathInv', Server, NEW k \in 1..Len(ops), UpsertAlert(k)
  PROVE  Delivery!Next
<1>0. /\ UNCHANGED <<q_data, calls, wire, sendBuffer>> /\ PipelineTypeOK
      /\ ops \in Seq(Op) /\ ops' \in Seq(Op) /\ ops[k] \in Op /\ ops[k].id \in Ident
      /\ Pending(k, "alert") /\ "alert" \in Part
      /\ {"updated", "inserted", "swallowed", "failed"} \subseteq PartState
  BY OpType DEF UpsertAlert, Server, PathInv, PipelineTypeOK, Part, PartState
<1>1. underWay' = underWay
  BY <1>0 DEF underWay
<1>2. PICK s \in {"updated", "inserted", "swallowed", "failed"} : Settle(k, "alert", s)
  BY DEF UpsertAlert, UpsertError
<1>3. /\ Len(ops') = Len(ops)
      /\ \A j \in 1..Len(ops) : j # k => ops'[j] = ops[j]
      /\ ops'[k].part["alert"] = s
  BY <1>0, <1>2, SettleFacts
<1> DEFINE n == Increment(ops[k].tally)
<1>4. n \in Nat \ {0} /\ increment_tally_by(ops[k]) = n
  BY <1>0, IncrementType DEF Op, increment_tally_by, Increment
<1>5. ASSUME NEW i \in Ident
      PROVE  Total(InInserts(i, ops)) = Total(InInserts(i, ops')) + IF i = ops[k].id THEN n ELSE 0
  BY <1>0, <1>3, InInsertsSettled DEF Pending
<1>6. ASSUME NEW i \in Ident
      PROVE  Owed[i] = Owed'[i] + IF i = ops[k].id THEN n ELSE 0
  <2>1. PendingTally(i)' = PendingTally(i)
    BY <1>0 DEF PendingTally
  <2>2. Total(InMessages(i, underWay')) = Total(InMessages(i, underWay))
    BY <1>1
  <2> HIDE DEF n
  <2> QED
    BY <1>4, <1>5, <2>1, <2>2, OwedParts, OwedPartsAfter
<1>7. \A i \in Ident : Total(InCalls(i, calls')) = Total(InCalls(i, calls))
  BY <1>0
<1> HIDE DEF n
<1>8. CASE alerts' = [alerts EXCEPT ![ops[k].id] = Incremented(ops[k])]
  <2>1. alerts' = [alerts EXCEPT ![ops[k].id] = alerts[ops[k].id] + n]
    BY <1>4, <1>8 DEF Incremented
  <2> QED
    BY <1>0, <1>4, <1>6, <1>7, <2>1, StoreStep
<1>9. CASE alerts' = alerts
  <2>1. \A i \in Ident : Owed'[i] <= Owed[i]
    BY <1>4, <1>6, OwedPartsAfter
  <2> QED
    BY <1>7, <1>9, <2>1, ForgetStep
<1> QED
  BY <1>8, <1>9 DEF UpsertAlert

LEMMA DeliveryServer ==
  ASSUME PathInv, PathInv', Server
  PROVE  Delivery!Next
<1>1. ops \in Seq(Op) /\ Len(ops) \in Nat /\ PipelineTypeOK /\ \A k \in 1..Len(ops) : ops[k] \in Op
  BY OpType DEF PathInv
<1>2. CASE SetTracking
  BY <1>2, DeliveryQuietServer DEF SetTracking
<1>3. CASE Receive
  BY <1>3, DeliveryReceive
<1>4. ASSUME NEW k \in 1..Len(ops), WriteInventory(k) \/ WriteOccurrence(k) \/ WriteTracking(k)
      PROVE  Delivery!Next
  <2>1. PICK p \in {"inventory", "occurences", "tracking"}, s \in {"done", "failed"} :
          Settle(k, p, s)
    BY <1>4 DEF WriteInventory, WriteOccurrence, WriteTracking, Caught
  <2>2. p \in Part /\ s \in PartState /\ "alert" \in Part /\ p # "alert"
    BY DEF Part, PartState
  <2>3. /\ Len(ops') = Len(ops)
        /\ \A j \in 1..Len(ops) : j # k => ops'[j] = ops[j]
        /\ ops'[k].part["alert"] = ops[k].part["alert"]
        /\ \A j \in 1..Len(ops) : ops'[j].id = ops[j].id /\ ops'[j].tally = ops[j].tally
    BY <1>1, <2>1, <2>2, SettleFacts
  <2>4. UNCHANGED <<wire, alerts>>
    BY <1>4 DEF WriteInventory, WriteOccurrence, WriteTracking
  <2> QED
    BY <2>3, <2>4, DeliveryQuietServer
<1>5. ASSUME NEW k \in 1..Len(ops), UpsertAlert(k) PROVE Delivery!Next
  BY <1>5, DeliveryUpsert
<1>6. ASSUME NEW k \in 1..Len(ops), Acknowledge(k) PROVE Delivery!Next
  <2>1. /\ ops' = [ops EXCEPT ![k] = [ops[k] EXCEPT !.answered = TRUE]]
        /\ UNCHANGED <<wire, alerts>>
    BY <1>6 DEF Acknowledge
  <2>2. /\ Len(ops') = Len(ops)
        /\ \A j \in 1..Len(ops) : /\ ops'[j].id = ops[j].id /\ ops'[j].tally = ops[j].tally
                                  /\ ops'[j].part["alert"] = ops[j].part["alert"]
    BY <1>1, <2>1 DEF Op
  <2> QED
    BY <2>1, <2>2, DeliveryQuietServer
<1> QED
  BY <1>2, <1>3, <1>4, <1>5, <1>6 DEF Server, ServerStep, OpStep

\* Every step of the pipeline submits, stores what was owed, or forgets.
LEMMA DeliveryNext ==
  ASSUME PathInv, PathInv', Next
  PROVE  Delivery!Next
<1>1. CASE Connected
  <2>1. UNCHANGED <<q_data, alerts, calls, ops>> /\ underWay' = underWay
    BY <1>1, PathTypes, UnderWayConnect DEF Connected, Connect, Greetings, serverOnly, underWay
  <2> QED
    BY <2>1, DeliverySame, OwedParts
<1>2. CASE AckArrives
  <2>1. PICK a \in acks : Acknowledged(a.call, a.outcome)
    BY <1>2 DEF AckArrives
  <2>2. UNCHANGED <<q_data, alerts, ops, wire, sendBuffer>>
    BY <1>2, <2>1 DEF AckArrives, Acknowledged
  <2>3. calls \in Seq(Call) /\ calls' \in Seq(Call)
    BY DEF PathInv, ClientInv, TypeOK
  <2>4. a.call \in 1..Len(calls) /\ calls[a.call] \in Call
        /\ calls' = [calls EXCEPT ![a.call] = [calls[a.call] EXCEPT !.cb = a.outcome]]
    BY <2>1, <2>3 DEF Acknowledged
  <2>5. Len(calls') = Len(calls)
        /\ \A k \in 1..Len(calls) : calls'[k].ev = calls[k].ev /\ calls'[k].qcb = calls[k].qcb
    BY <2>3, <2>4 DEF Call
  <2>6. \A i \in Ident : InCalls(i, calls') = InCalls(i, calls)
    BY <2>3, <2>5, InCallsSame
  <2>7. underWay' = underWay
    BY <2>2 DEF underWay
  <2> QED
    BY <2>2, <2>6, <2>7, DeliverySame, OwedParts
<1> QED
  BY <1>1, <1>2, DeliverySend, DeliveryFlush, DeliveryDisconnected, DeliveryServer DEF Next

\* The pipeline implements EventDelivery: nothing is stored twice, and nothing
\* that was not sent, for any number of agents' calls, any tallies, any losses.
THEOREM PipelineDeliversAtMostOnce == Spec => AtMostOnce
<1>1. Init => Delivery!Init
  <2> SUFFICES ASSUME Init PROVE Delivery!Init
    OBVIOUS
  <2>1. alerts = [i \in Ident |-> 0]
    BY DEF Init, ServerInit
  <2>2. underWay = <<>> /\ ops = <<>> /\ calls = <<>> /\ DOMAIN q_data = {}
    BY DEF Init, ClientInit, ServerInit, underWay
  <2>3. ASSUME NEW i \in Ident PROVE Owed[i] = 0 /\ Submitted[i] = 0
    <3>1. <<>> \in Seq(Message) /\ <<>> \in Seq(Op) /\ <<>> \in Seq(Call)
      OBVIOUS
    <3>2. Total(InMessages(i, <<>>)) = 0
      <4>1. InMessages(i, <<>>) \in Seq(Nat) /\ Len(InMessages(i, <<>>)) = 0
        BY <3>1, InMessagesType
      <4> QED
        BY <4>1, TotalZero
    <3>3. Total(InInserts(i, <<>>)) = 0
      <4>1. InInserts(i, <<>>) \in Seq(Nat) /\ Len(InInserts(i, <<>>)) = 0
        BY <3>1, InInsertsType
      <4> QED
        BY <4>1, TotalZero
    <3>4. Total(InCalls(i, <<>>)) = 0
      <4>1. InCalls(i, <<>>) \in Seq(Nat) /\ Len(InCalls(i, <<>>)) = 0
        BY <3>1, InCallsType
      <4> QED
        BY <4>1, TotalZero
    <3>5. PendingTally(i) = 0
      BY <2>2 DEF PendingTally
    <3> QED
      BY <2>2, <3>2, <3>3, <3>4, <3>5 DEF Owed, Submitted
  <2>4. Owed = [i \in Ident |-> 0] /\ Submitted = [i \in Ident |-> 0]
    <3>1. Owed = [i \in Ident |-> Owed[i]] /\ Submitted = [i \in Ident |-> Submitted[i]]
      BY DEF Owed, Submitted
    <3> QED
      BY <2>3, <3>1
  <2> QED
    BY <2>1, <2>4 DEF Delivery!Init
<1>2. PathInv /\ PathInv' /\ [Next]_vars => [Delivery!Next]_(Delivery!vars)
  <2> SUFFICES ASSUME PathInv, PathInv', [Next]_vars
               PROVE  [Delivery!Next]_(Delivery!vars)
    OBVIOUS
  <2>1. CASE Next
    BY <2>1, DeliveryNext
  <2>2. CASE UNCHANGED vars
    <3>1. UNCHANGED <<q_data, alerts, calls, ops, wire, sendBuffer>>
      BY <2>2 DEF vars, clientVars, serverOnly
    <3>2. underWay' = underWay
      BY <3>1 DEF underWay
    <3> QED
      BY <3>1, <3>2, DeliverySame, OwedParts
  <2> QED
    BY <2>1, <2>2
<1> QED
  BY <1>1, <1>2, PathInvHolds, PTL DEF Spec, AtMostOnce, Delivery!Spec
=============================================================================
