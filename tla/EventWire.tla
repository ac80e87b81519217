----------------------------- MODULE EventWire -----------------------------
(* What a MonitorClient and the MonitorServer share: events, the messages  *)
(* that carry them, and the socket from the one to the other.              *)
EXTENDS Naturals, Sequences, FiniteSets

CONSTANTS
  Ident,      \* the identifiers of events
  Tally,      \* the tallies an event may carry when it reaches sendAlert
  NoTally,    \* the event carries no tally field
  NoCall      \* a message that carries no acknowledgement callback

ASSUME TallyAssumption == Tally \subseteq Nat \ {0} /\ NoTally \notin Nat
ASSUME CallAssumption == NoCall \notin Nat

VARIABLE
  wire         \* messages on their way to the server

\* How the columns of an event look to the validators: complete; a mandatory
\* column absent; a mandatory column present but null; a date that does not parse.
Form == {"complete", "missing", "null", "baddate"}

\* An event as an agent hands it to sendAlert.
Event == [id : Ident, tally : Tally \cup {NoTally}, form : Form]

\* An event on the wire: a buffered one always carries a tally.
Sent == [id : Ident, tally : (Nat \ {0}) \cup {NoTally}, form : Form]

\* One emit: its events, and the call its acknowledgement callback belongs to.
Message == [events : Seq(Sent), call : Nat \cup {NoCall}]

\* What an acknowledgement says.
Outcome == {"inserted", "updated", "dropped", "error"}
=============================================================================
