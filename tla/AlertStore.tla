----------------------------- MODULE AlertStore -----------------------------
(***************************************************************************)
(* The alerts collection as the console's operators and the automations    *)
(* share it, and the event server that writes to it.  An Event is a        *)
(* document with its _id: a fault that comes back after its document was   *)
(* removed gets another _id, and is another Event.                         *)
(*                                                                         *)
(* What is abstracted: of a document only what operators and triggers      *)
(* change or query; owner, notes, external_id and acknowledged change with *)
(* a history line, and the history stands for them.                        *)
(***************************************************************************)
EXTENDS Naturals, FiniteSets

CONSTANTS
  Event,      \* the documents that can come to be
  Up,         \* those of type "up"; the others are of type "down", same node and agent
  Request,    \* what operators ask of the console, each request once
  Severity,   \* the severities
  MaxTally,   \* bound: occurrences of an event
  MaxTime     \* bound: the times agents put on occurrences

ASSUME StoreAssumption ==
  /\ Up \subseteq Event
  /\ {0, 3} \subseteq Severity /\ Severity \subseteq Nat
  /\ MaxTally \in Nat \ {0} /\ MaxTime \in Nat

VARIABLES
  alerts,     \* alerts[e]: the document, or that it is not yet or no longer there
  latestUp    \* history: the latest time on any occurrence of an "up" so far, plus one

storeVars == <<alerts, latestUp>>

Doc == [status : {"there"}, severity : Severity, tally : 1..MaxTally,
        last_occurrence : 0..MaxTime, history : SUBSET Request]

NotThere(status) ==
  [status |-> status, severity |-> 0, tally |-> 0, last_occurrence |-> 0, history |-> {}]

NotYet == NotThere("not yet")
Gone == NotThere("gone")

Present == {e \in Event : alerts[e].status = "there"}

StoreTypeOK ==
  /\ alerts \in [Event -> Doc \cup {NotYet, Gone}]
  /\ latestUp \in 0..MaxTime + 1

StoreInit ==
  /\ alerts = [e \in Event |-> NotYet]
  /\ latestUp = 0

Occurred(e, t) == latestUp' = IF e \in Up /\ t >= latestUp THEN t + 1 ELSE latestUp

\* The upsert of a new event: all its fields are set.
Insert(e) ==
  /\ alerts[e] = NotYet
  /\ \E s \in Severity, t \in 0..MaxTime :
       /\ alerts' = [alerts EXCEPT ![e] =
            [status |-> "there", severity |-> s, tally |-> 1, last_occurrence |-> t,
             history |-> {}]]
       /\ Occurred(e, t)

\* The upsert of an event that is there counts it and sets its time, which may
\* be the agent's; its severity stays, even if it has been cleared.
Recur(e) ==
  /\ e \in Present
  /\ alerts[e].tally < MaxTally
  /\ \E t \in 0..MaxTime :
       /\ alerts' = [alerts EXCEPT ![e].tally = @ + 1, ![e].last_occurrence = t]
       /\ Occurred(e, t)

\* The updates the other modules make: the documents of docs replace those there
\* are; those of S are removed.
Updated(docs) == [e \in Event |-> IF e \in DOMAIN docs THEN docs[e] ELSE alerts[e]]
Removed(S) == [e \in Event |-> IF e \in S THEN Gone ELSE alerts[e]]
=============================================================================
