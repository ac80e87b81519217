---------------------- MODULE ConsoleOperationsProofs ----------------------
(***************************************************************************)
(* Proofs about ConsoleOperations, for any number of events, requests,     *)
(* firings and events named by a request.                                  *)
(***************************************************************************)
EXTENDS ConsoleOperations, TLAPS

----------------------------------------------------------------------------
(* The collection                                                          *)

\* What may happen to the document e: nothing, or it is set up, changed or removed.
AlertStep(e) ==
  \/ alerts'[e] = alerts[e]
  \/ alerts[e] = NotYet /\ alerts'[e] \in Doc
  \/ /\ alerts[e] \in Doc /\ alerts'[e] \in Doc
     /\ alerts[e].tally <= alerts'[e].tally
     /\ alerts[e].history \subseteq alerts'[e].history
  \/ alerts[e] \in Doc /\ alerts'[e] = Gone

\* No document gets another time.
TimesKept ==
  \A e \in Event : alerts'[e] \in Doc =>
    alerts[e] \in Doc /\ alerts'[e].last_occurrence = alerts[e].last_occurrence

AlertTypes == [Event -> Doc \cup {NotYet, Gone}]

\* A document is not one that is not there.
LEMMA DocIsThere ==
  /\ NotYet.status = "not yet" /\ Gone.status = "gone"
  /\ NotYet.severity = 0 /\ Gone.severity = 0
  /\ \A d \in Doc : d.status = "there"
  /\ NotYet \notin Doc /\ Gone \notin Doc /\ NotYet # Gone
<1>1. NotYet.status = "not yet" /\ Gone.status = "gone" BY DEF NotYet, Gone, NotThere
<1>2. NotYet.severity = 0 /\ Gone.severity = 0 BY DEF NotYet, Gone, NotThere
<1>3. \A d \in Doc : d.status = "there" BY DEF Doc
<1> QED BY <1>1, <1>2, <1>3

\* The present are those that have a document.
LEMMA PresentIsDoc ==
  ASSUME StoreTypeOK, NEW e \in Event
  PROVE  /\ e \in Present <=> alerts[e] \in Doc
         /\ e \notin Present => alerts[e] \in {NotYet, Gone}
<1>1. alerts[e] \in Doc \cup {NotYet, Gone} BY DEF StoreTypeOK
<1> QED BY <1>1, DocIsThere DEF Present

\* A removal takes documents away.
LEMMA RemovedSteps ==
  ASSUME StoreTypeOK, NEW S \in SUBSET Present, alerts' = Removed(S)
  PROVE  /\ alerts' \in AlertTypes
         /\ \A e \in Event : AlertStep(e) /\ (e \in S => alerts'[e] = Gone)
         /\ \A e \in Event \ S : alerts'[e] = alerts[e]
         /\ TimesKept
<1>1. \A e \in Event : alerts'[e] = IF e \in S THEN Gone ELSE alerts[e] BY DEF Removed
<1>2. \A e \in S : e \in Event /\ alerts[e] \in Doc BY PresentIsDoc DEF Present
<1>3. alerts' \in AlertTypes BY DEF Removed, AlertTypes, StoreTypeOK
<1>4. TimesKept BY <1>1, DocIsThere DEF TimesKept
<1> QED BY <1>1, <1>2, <1>3, <1>4 DEF AlertStep

\* An update that keeps the tally and the history changes documents.
LEMMA UpdatedSteps ==
  ASSUME StoreTypeOK, NEW S \in SUBSET Present, NEW docs,
         DOMAIN docs = S, alerts' = Updated(docs),
         \A e \in S : /\ docs[e] \in Doc
                      /\ alerts[e].tally <= docs[e].tally
                      /\ alerts[e].history \subseteq docs[e].history
                      /\ docs[e].last_occurrence = alerts[e].last_occurrence
  PROVE  /\ alerts' \in AlertTypes
         /\ \A e \in Event : AlertStep(e) /\ (e \in S => alerts'[e] = docs[e])
         /\ \A e \in Event \ S : alerts'[e] = alerts[e]
         /\ TimesKept
<1>1. \A e \in Event : alerts'[e] = IF e \in S THEN docs[e] ELSE alerts[e] BY DEF Updated
<1>2. \A e \in S : e \in Event /\ alerts[e] \in Doc BY PresentIsDoc DEF Present
<1>3. alerts' \in AlertTypes BY DEF Updated, AlertTypes, StoreTypeOK
<1>4. TimesKept BY <1>1, <1>2 DEF TimesKept
<1> QED BY <1>1, <1>2, <1>3, <1>4 DEF AlertStep

\* A document with one more occurrence.
LEMMA CountedDoc ==
  ASSUME NEW d \in Doc, d.tally < MaxTally, NEW t \in 0..MaxTime
  PROVE  LET c == [d EXCEPT !.tally = @ + 1, !.last_occurrence = t] IN
         c \in Doc /\ c.last_occurrence = t /\ d.tally <= c.tally /\ c.history = d.history
<1> DEFINE c == [d EXCEPT !.tally = @ + 1, !.last_occurrence = t]
<1>1. c = [status |-> d.status, severity |-> d.severity, tally |-> d.tally + 1,
           last_occurrence |-> t, history |-> d.history]
  <2>1. d = [status |-> d.status, severity |-> d.severity, tally |-> d.tally,
             last_occurrence |-> d.last_occurrence, history |-> d.history]
    BY DEF Doc
  <2> DEFINE b == [d EXCEPT !.tally = d.tally + 1]
  <2>2. c = [b EXCEPT !.last_occurrence = t] OBVIOUS
  <2>3. b = [status |-> d.status, severity |-> d.severity, tally |-> d.tally + 1,
             last_occurrence |-> d.last_occurrence, history |-> d.history]
    BY <2>1
  <2> HIDE DEF b, c
  <2> QED BY <2>2, <2>3
<1>2. /\ d.status = "there" /\ d.severity \in Severity /\ d.tally \in 1..MaxTally
      /\ d.history \subseteq Request
  BY DEF Doc
<1>3. d.tally + 1 \in 1..MaxTally /\ d.tally <= d.tally + 1 BY <1>2, StoreAssumption
<1> HIDE DEF c
<1>4. c \in Doc BY <1>1, <1>2, <1>3 DEF Doc
<1>5. c.last_occurrence = t /\ c.tally = d.tally + 1 /\ c.history = d.history BY <1>1
<1> QED BY <1>3, <1>4, <1>5 DEF c

\* The event server sets documents up and counts occurrences; the time of every
\* up is remembered.
LEMMA EventServerSteps ==
  ASSUME StoreTypeOK, NEW e \in Event, Insert(e) \/ Recur(e)
  PROVE  /\ StoreTypeOK'
         /\ \A d \in Event : AlertStep(d)
         /\ latestUp <= latestUp'
         /\ \A d \in Event \ {e} : alerts'[d] = alerts[d]
         /\ e \in Up => alerts'[e].last_occurrence < latestUp'
<1>1. CASE Insert(e)
  <2>1. PICK s \in Severity, t \in 0..MaxTime :
          /\ alerts' = [alerts EXCEPT ![e] =
               [status |-> "there", severity |-> s, tally |-> 1, last_occurrence |-> t,
                history |-> {}]]
          /\ Occurred(e, t)
    BY <1>1 DEF Insert
  <2> DEFINE doc == [status |-> "there", severity |-> s, tally |-> 1, last_occurrence |-> t,
                     history |-> {}]
  <2>2. doc \in Doc /\ doc.last_occurrence = t BY StoreAssumption DEF Doc
  <2>3. alerts'[e] = doc /\ \A d \in Event \ {e} : alerts'[d] = alerts[d]
    BY <2>1 DEF StoreTypeOK
  <2>4. alerts[e] = NotYet BY <1>1 DEF Insert
  <2>5. alerts' \in AlertTypes BY <2>1, <2>2 DEF StoreTypeOK, AlertTypes
  <2>6. latestUp' \in 0..MaxTime + 1 /\ latestUp <= latestUp' /\ (e \in Up => t < latestUp')
    BY <2>1, StoreAssumption DEF Occurred, StoreTypeOK
  <2> HIDE DEF doc
  <2> QED BY <2>2, <2>3, <2>4, <2>5, <2>6 DEF StoreTypeOK, AlertStep, AlertTypes
<1>2. CASE Recur(e)
  <2>1. PICK t \in 0..MaxTime :
          /\ alerts' = [alerts EXCEPT ![e].tally = @ + 1, ![e].last_occurrence = t]
          /\ Occurred(e, t)
    BY <1>2 DEF Recur
  <2> DEFINE doc == [alerts[e] EXCEPT !.tally = @ + 1, !.last_occurrence = t]
  <2>2. alerts[e] \in Doc /\ alerts[e].tally < MaxTally BY <1>2, PresentIsDoc DEF Recur
  <2>3. /\ doc \in Doc /\ doc.last_occurrence = t /\ alerts[e].tally <= doc.tally
        /\ doc.history = alerts[e].history
    BY <2>2, CountedDoc
  <2>4. alerts'[e] = doc /\ \A d \in Event \ {e} : alerts'[d] = alerts[d]
    BY <2>1 DEF StoreTypeOK
  <2>5. alerts' \in AlertTypes
    <3>1. alerts' = [alerts EXCEPT ![e] = doc] BY <2>1 DEF StoreTypeOK
    <3> QED BY <3>1, <2>3 DEF StoreTypeOK, AlertTypes
  <2>6. latestUp' \in 0..MaxTime + 1 /\ latestUp <= latestUp' /\ (e \in Up => t < latestUp')
    BY <2>1, StoreAssumption DEF Occurred, StoreTypeOK
  <2> HIDE DEF doc
  <2> QED BY <2>2, <2>3, <2>4, <2>5, <2>6 DEF StoreTypeOK, AlertStep, AlertTypes
<1> QED BY <1>1, <1>2

----------------------------------------------------------------------------
(* The automations                                                         *)

\* Every time of an up that is stored or was found is a time of an up.
UpTimes ==
  /\ \A e \in Ups : alerts[e].last_occurrence < latestUp
  /\ \A f \in Firing : firings[f].trigger = "find_ups" =>
       \A e \in DOMAIN firings[f].rows : firings[f].rows[e] < latestUp

\* Steps that keep the times, and firings as they were, keep UpTimes.
LEMMA TimesKeptKeepUps ==
  ASSUME StoreTypeOK, StoreTypeOK', UpTimes, TimesKept, latestUp' = latestUp
  PROVE  \A e \in Ups' : alerts'[e].last_occurrence < latestUp'
<1> SUFFICES ASSUME NEW e \in Up, e \in Present'
             PROVE  alerts'[e].last_occurrence < latestUp'
  BY DEF Ups
<1>1. e \in Event /\ alerts'[e] \in Doc BY DocIsThere, StoreAssumption DEF Present, StoreTypeOK
<1>2. alerts[e] \in Doc /\ alerts'[e].last_occurrence = alerts[e].last_occurrence
  BY <1>1 DEF TimesKept
<1>3. e \in Ups BY <1>1, <1>2, PresentIsDoc DEF Ups
<1> QED BY <1>2, <1>3 DEF UpTimes

\* Setting a severity is an update of documents.
LEMMA SeverityDoc ==
  ASSUME NEW d \in Doc, NEW s \in Severity
  PROVE  LET c == [d EXCEPT !.severity = s] IN
         /\ c \in Doc /\ c.severity = s /\ c.tally = d.tally /\ c.history = d.history
         /\ c.last_occurrence = d.last_occurrence
BY DEF Doc

\* Types of rows.
LEMMA RowsType ==
  ASSUME StoreTypeOK, NEW S \in SUBSET Present
  PROVE  Rows(S) \in UNION {[T -> 0..MaxTime] : T \in SUBSET Event}
<1>1. S \in SUBSET Event BY DEF Present
<1>2. \A e \in S : alerts[e] \in Doc BY <1>1, PresentIsDoc
<1>3. \A e \in S : alerts[e].last_occurrence \in 0..MaxTime BY <1>2 DEF Doc
<1>4. Rows(S) \in [S -> 0..MaxTime] BY <1>3 DEF Rows
<1> QED BY <1>1, <1>4

\* A firing keeps its type when it goes on with rows.
LEMMA ActsOnType ==
  ASSUME AutomationsTypeOK, NEW f \in Firing, NEW trigger \in Trigger,
         NEW rows \in UNION {[T -> 0..MaxTime] : T \in SUBSET Event},
         ActsOn(f, trigger, rows)
  PROVE  /\ AutomationsTypeOK'
         /\ firings'[f].trigger \in {"none", trigger}
         /\ firings'[f].trigger # "none" => firings'[f].rows = rows
         /\ \A g \in Firing \ {f} : firings'[g] = firings[g]
<1> DEFINE next == IF DOMAIN rows = {} THEN Waiting ELSE [trigger |-> trigger, rows |-> rows]
<1>1. Waiting \in FiringState /\ Waiting.trigger = "none"
  <2>1. [e \in {} |-> 0] \in [{} -> 0..MaxTime] OBVIOUS
  <2> QED BY <2>1 DEF Waiting, FiringState
<1>2. next \in FiringState BY <1>1 DEF FiringState
<1>3. next.trigger \in {"none", trigger} /\ (next.trigger # "none" => next.rows = rows)
  BY <1>1
<1>4. firings' = [firings EXCEPT ![f] = next] BY DEF ActsOn
<1> HIDE DEF next
<1> QED BY <1>2, <1>3, <1>4 DEF AutomationsTypeOK

\* A firing that ends waits.
LEMMA EndsType ==
  ASSUME AutomationsTypeOK, NEW f \in Firing, firings' = [firings EXCEPT ![f] = Waiting]
  PROVE  /\ AutomationsTypeOK'
         /\ firings'[f].trigger = "none"
         /\ \A g \in Firing \ {f} : firings'[g] = firings[g]
<1>1. Waiting \in FiringState /\ Waiting.trigger = "none"
  <2>1. [e \in {} |-> 0] \in [{} -> 0..MaxTime] OBVIOUS
  <2> QED BY <2>1 DEF Waiting, FiringState
<1> QED BY <1>1 DEF AutomationsTypeOK

\* Setting the severity of present documents.
LEMMA SetSeveritySteps ==
  ASSUME StoreTypeOK, NEW S \in SUBSET Present, NEW s \in Severity,
         alerts' = SetSeverity(S, s)
  PROVE  /\ alerts' \in AlertTypes
         /\ \A e \in Event : AlertStep(e) /\ (e \in S => alerts'[e] # Gone /\ alerts'[e].severity = s)
         /\ \A e \in Event \ S : alerts'[e] = alerts[e]
         /\ TimesKept
<1> DEFINE docs == [e \in S |-> [alerts[e] EXCEPT !.severity = s]]
<1>1. \A e \in S : e \in Event /\ alerts[e] \in Doc BY PresentIsDoc DEF Present
<1>2. \A e \in S : docs[e] = [alerts[e] EXCEPT !.severity = s] OBVIOUS
<1>3. \A e \in S :
        /\ docs[e] \in Doc /\ docs[e].severity = s
        /\ docs[e].tally = alerts[e].tally /\ docs[e].history = alerts[e].history
        /\ docs[e].last_occurrence = alerts[e].last_occurrence
  BY <1>1, <1>2, SeverityDoc
<1>4. \A e \in S : alerts[e].tally \in Nat BY <1>1 DEF Doc
<1>5. DOMAIN docs = S /\ alerts' = Updated(docs) BY DEF SetSeverity
<1> HIDE DEF docs
<1>6. \A e \in S : /\ docs[e] \in Doc
                   /\ alerts[e].tally <= docs[e].tally
                   /\ alerts[e].history \subseteq docs[e].history
                   /\ docs[e].last_occurrence = alerts[e].last_occurrence
  BY <1>3, <1>4
<1>7. /\ alerts' \in AlertTypes
      /\ \A e \in Event : AlertStep(e) /\ (e \in S => alerts'[e] = docs[e])
      /\ \A e \in Event \ S : alerts'[e] = alerts[e]
      /\ TimesKept
  BY <1>5, <1>6, UpdatedSteps
<1> QED BY <1>1, <1>3, <1>7, DocIsThere

\* What a step of the automations does to the alerts and their times, and what it
\* spares.
LEMMA AutomationsSteps ==
  ASSUME StoreTypeOK, AutomationsTypeOK, UpTimes, AutomationsNext
  PROVE  /\ StoreTypeOK' /\ AutomationsTypeOK' /\ UpTimes'
         /\ \A e \in Event : AlertStep(e)
         /\ SparesRaised
<1> USE DEF AlertTypes
<1>0. {0, 3} \subseteq Severity /\ {0, 3} \subseteq Nat BY StoreAssumption
<1>1. ASSUME NEW f \in Firing, Fire(f) PROVE StoreTypeOK' /\ AutomationsTypeOK' /\ UpTimes'
  <2>1. Cleared \in SUBSET Present /\ Ups \in SUBSET Present BY DEF Cleared, Ups
  <2>2. alerts' = alerts /\ latestUp' = latestUp BY <1>1 DEF Fire, storeVars
  <2>3. StoreTypeOK' BY <2>2 DEF StoreTypeOK
  <2>4. Ups' = Ups BY <2>2 DEF Ups, Present
  <2>5. CASE ActsOn(f, "find_and_delete_clears", Rows(Cleared))
    <3>1. /\ AutomationsTypeOK'
          /\ firings'[f].trigger \in {"none", "find_and_delete_clears"}
          /\ \A g \in Firing \ {f} : firings'[g] = firings[g]
      BY <2>1, <2>5, RowsType, ActsOnType DEF Trigger
    <3>2. UpTimes' BY <3>1, <2>2, <2>4 DEF UpTimes
    <3> QED BY <3>1, <3>2, <2>3
  <2>6. CASE ActsOn(f, "find_ups", Rows(Ups))
    <3>1. /\ AutomationsTypeOK'
          /\ firings'[f].trigger # "none" => firings'[f].rows = Rows(Ups)
          /\ \A g \in Firing \ {f} : firings'[g] = firings[g]
      BY <2>1, <2>6, RowsType, ActsOnType DEF Trigger
    <3>2. \A e \in DOMAIN Rows(Ups) : Rows(Ups)[e] < latestUp BY DEF Rows, UpTimes
    <3>3. UpTimes' BY <3>1, <3>2, <2>2, <2>4 DEF UpTimes
    <3> QED BY <3>1, <3>3, <2>3
  <2> QED BY <1>1, <2>5, <2>6 DEF Fire
<1>2. ASSUME NEW f \in Firing, RemoveMatching(f)
      PROVE  /\ StoreTypeOK' /\ AutomationsTypeOK' /\ UpTimes'
             /\ \A e \in Event : AlertStep(e)
             /\ SparesRaised
  <2>1. /\ AutomationsTypeOK' /\ firings'[f].trigger = "none"
        /\ \A g \in Firing \ {f} : firings'[g] = firings[g]
    BY <1>2, EndsType DEF RemoveMatching
  <2>2. latestUp' = latestUp BY <1>2 DEF RemoveMatching
  <2>3. Cleared \in SUBSET Present BY DEF Cleared
  <2>4. /\ alerts' \in AlertTypes /\ TimesKept
        /\ \A e \in Event : AlertStep(e)
        /\ \A e \in Event \ Cleared : alerts'[e] = alerts[e]
        /\ \A e \in Cleared : alerts'[e] \in {Gone, alerts[e]}
    <3>1. CASE alerts' = Removed(Cleared) BY <3>1, <2>3, RemovedSteps DEF Present
    <3>2. CASE alerts' = alerts BY <3>2 DEF AlertStep, StoreTypeOK, TimesKept
    <3> QED BY <1>2, <3>1, <3>2 DEF RemoveMatching, Deleted
  <2>5. StoreTypeOK' BY <2>2, <2>4 DEF StoreTypeOK
  <2>6. UpTimes'
    <3>1. \A e \in Ups' : alerts'[e].last_occurrence < latestUp' BY <2>2, <2>4, <2>5, TimesKeptKeepUps
    <3> QED BY <3>1, <2>1, <2>2 DEF UpTimes
  <2>7. SparesRaised BY <2>4 DEF SparesRaised, Cleared
  <2> QED BY <2>1, <2>4, <2>5, <2>6, <2>7
<1>3. ASSUME NEW f \in Firing, ActOnRow(f)
      PROVE  /\ StoreTypeOK' /\ AutomationsTypeOK' /\ UpTimes'
             /\ \A e \in Event : AlertStep(e)
             /\ SparesRaised
  <2>1. latestUp' = latestUp /\ firings[f].trigger = "find_ups" BY <1>3 DEF ActOnRow
  <2>2. firings[f].rows \in UNION {[T -> 0..MaxTime] : T \in SUBSET Event}
    BY DEF AutomationsTypeOK, FiringState
  <2>3. \A d \in DOMAIN firings[f].rows : firings[f].rows[d] < latestUp /\ firings[f].rows[d] \in Nat
    BY <2>1, <2>2 DEF UpTimes
  <2>4. CASE UNCHANGED alerts /\ firings' = [firings EXCEPT ![f] = Waiting]
    <3>1. /\ AutomationsTypeOK' /\ firings'[f].trigger = "none"
          /\ \A g \in Firing \ {f} : firings'[g] = firings[g]
      BY <2>4, EndsType
    <3>2. StoreTypeOK' /\ Ups' = Ups BY <2>1, <2>4 DEF StoreTypeOK, Ups, Present
    <3>3. UpTimes' BY <3>1, <3>2, <2>1, <2>4 DEF UpTimes
    <3> QED BY <3>1, <3>2, <3>3, <2>4 DEF AlertStep, SparesRaised
  <2>5. ASSUME NEW e \in DOMAIN firings[f].rows,
               alerts' = SetSeverity(OlderDowns(firings[f].rows[e]), 0),
               ActsOn(f, "find_ups", [d \in DOMAIN firings[f].rows \ {e} |-> firings[f].rows[d]])
        PROVE  /\ StoreTypeOK' /\ AutomationsTypeOK' /\ UpTimes'
               /\ \A d \in Event : AlertStep(d)
               /\ SparesRaised
    <3> DEFINE rest == [d \in DOMAIN firings[f].rows \ {e} |-> firings[f].rows[d]]
               S == OlderDowns(firings[f].rows[e])
    <3>1. rest \in UNION {[T -> 0..MaxTime] : T \in SUBSET Event}
      <4>1. PICK T \in SUBSET Event : firings[f].rows \in [T -> 0..MaxTime] BY <2>2
      <4>2. rest \in [T \ {e} -> 0..MaxTime] BY <4>1
      <4> QED BY <4>2
    <3>2. /\ AutomationsTypeOK'
          /\ firings'[f].trigger # "none" => firings'[f].rows = rest
          /\ \A g \in Firing \ {f} : firings'[g] = firings[g]
      BY <2>5, <3>1, ActsOnType DEF Trigger
    <3>3. \A d \in DOMAIN rest : rest[d] < latestUp BY <2>3
    <3>4. S \in SUBSET Present BY DEF OlderDowns
    <3>5. /\ alerts' \in AlertTypes
          /\ \A d \in Event : AlertStep(d) /\ (d \in S => alerts'[d] # Gone)
          /\ \A d \in Event \ S : alerts'[d] = alerts[d]
          /\ TimesKept
      <4> HIDE DEF S
      <4>1. alerts' = SetSeverity(S, 0) BY <2>5 DEF S
      <4> QED BY <4>1, <3>4, <1>0, SetSeveritySteps
    <3>6. StoreTypeOK' BY <3>5, <2>1 DEF StoreTypeOK
    <3>7. UpTimes'
      <4>1. \A d \in Ups' : alerts'[d].last_occurrence < latestUp'
        BY <2>1, <3>5, <3>6, TimesKeptKeepUps
      <4> HIDE DEF rest
      <4> QED BY <4>1, <3>2, <3>3, <2>1 DEF UpTimes
    <3>8. \A d \in S : d \notin Up /\ alerts[d].last_occurrence + 1 < latestUp
      <4>1. \A d \in S : d \in Event /\ alerts[d] \in Doc /\ d \notin Up
        BY PresentIsDoc DEF OlderDowns, Present
      <4>2. \A d \in S : alerts[d].last_occurrence \in Nat BY <4>1 DEF Doc
      <4>3. \A d \in S : alerts[d].last_occurrence < firings[f].rows[e] BY DEF OlderDowns
      <4>4. latestUp \in Nat BY StoreAssumption DEF StoreTypeOK
      <4> QED BY <4>1, <4>2, <4>3, <4>4, <2>3
    <3>9. SparesRaised BY <3>5, <3>8 DEF SparesRaised
    <3> QED BY <3>2, <3>5, <3>6, <3>7, <3>9
  <2> QED BY <1>3, <2>4, <2>5 DEF ActOnRow
<1>4. ASSUME UpdateMatching
      PROVE  /\ StoreTypeOK' /\ AutomationsTypeOK' /\ UpTimes'
             /\ \A e \in Event : AlertStep(e)
             /\ SparesRaised
  <2>1. /\ alerts' = SetSeverity(Often, 3) /\ latestUp' = latestUp /\ firings' = firings
    BY <1>4 DEF UpdateMatching
  <2>2. Often \in SUBSET Present BY DEF Often
  <2>3. /\ alerts' \in AlertTypes /\ TimesKept
        /\ \A e \in Event : AlertStep(e) /\ (e \in Often => alerts'[e] # Gone /\ alerts'[e].severity = 3)
        /\ \A e \in Event \ Often : alerts'[e] = alerts[e]
    BY <2>1, <2>2, <1>0, SetSeveritySteps
  <2>4. StoreTypeOK' BY <2>1, <2>3 DEF StoreTypeOK
  <2>5. \A e \in Ups' : alerts'[e].last_occurrence < latestUp' BY <2>1, <2>3, <2>4, TimesKeptKeepUps
  <2>6. UpTimes' BY <2>1, <2>5 DEF UpTimes
  <2>7. SparesRaised BY <2>3 DEF SparesRaised
  <2> QED BY <2>1, <2>3, <2>4, <2>6, <2>7 DEF AutomationsTypeOK
<1>5. ASSUME NEW f \in Firing, Fire(f) PROVE (\A e \in Event : AlertStep(e)) /\ SparesRaised
  BY <1>5 DEF Fire, storeVars, AlertStep, SparesRaised
<1> QED BY <1>1, <1>2, <1>3, <1>4, <1>5 DEF AutomationsNext

----------------------------------------------------------------------------
(* The requests                                                            *)

\* A copy of e that request r made, with all that was there when it came in.
Archived(r, e) ==
  \E c \in archive :
    /\ c.request = r /\ c.event = e
    /\ c.doc.tally >= requests[r].seen[e].tally
    /\ requests[r].seen[e].history \subseteq c.doc.history

Archives(r) == requests[r].op \in {"clear", "delete"}

\* What request r saw of the events it names is still there, or the event is gone.
Lasting(r) ==
  /\ \A e \in requests[r].ids : alerts[e] # NotYet
  /\ Archives(r) =>
       \A e \in requests[r].ids \cap Present :
         /\ e \in DOMAIN requests[r].seen
         /\ requests[r].seen[e].tally <= alerts[e].tally
         /\ requests[r].seen[e].history \subseteq alerts[e].history

\* Between the two calls of a copy, which replace a lookup, the documents found are
\* as good as those seen.
Holding(r) ==
  Archives(r) =>
    /\ ~ at(r, "lookup")
    /\ at(r, "copy") =>
         \A e \in requests[r].ids \cap Present :
           /\ e \in DOMAIN requests[r].docs
           /\ requests[r].seen[e].tally <= requests[r].docs[e].tally
           /\ requests[r].seen[e].history \subseteq requests[r].docs[e].history

\* What is about to be changed or removed has been copied, and so has what was.
Copied(r) ==
  Archives(r) =>
    /\ at(r, "write") => \A e \in requests[r].ids \cap Present : Archived(r, e)
    /\ \A e \in requests[r].took : Archived(r, e)

\* Success is answered when all has been done.
Succeeded(r) ==
  requests[r].answer = "ok" =>
    /\ at(r, "done")
    /\ requests[r].op \notin {"assign", "delete::all"} =>
         \A e \in requests[r].ids \cap Present :
           requests[r].op # "delete" /\ r \in alerts[e].history

Sound(r) ==
  /\ at(r, "idle") => requests[r] = Idle
  /\ Lasting(r) /\ Holding(r) /\ Copied(r) /\ Succeeded(r)

\* An event named by a request that is there was there before, with no more than now.
LEMMA StillThere ==
  ASSUME StoreTypeOK, StoreTypeOK', OpsTypeOK, NEW r \in Request, Lasting(r),
         NEW e \in requests[r].ids, AlertStep(e)
  PROVE  /\ alerts'[e] # NotYet
         /\ e \in Present' =>
              /\ e \in Present
              /\ alerts[e].tally \in Nat /\ alerts'[e].tally \in Nat
              /\ alerts[e].tally <= alerts'[e].tally
              /\ alerts[e].history \subseteq alerts'[e].history
<1>1. e \in Event BY DEF OpsTypeOK, RequestState
<1>2. alerts[e] # NotYet BY DEF Lasting
<1>3. e \in Present' => alerts'[e] \in Doc
  <2>1. alerts'[e] \in Doc \cup {NotYet, Gone} BY <1>1 DEF StoreTypeOK
  <2> QED BY <2>1, DocIsThere DEF Present
<1>4. alerts'[e] # NotYet BY <1>2, DocIsThere DEF AlertStep
<1>5. \A d \in Doc : d.tally \in Nat BY StoreAssumption DEF Doc
<1>6. ASSUME e \in Present'
      PROVE  /\ alerts[e] \in Doc /\ alerts'[e] \in Doc
             /\ alerts[e].tally <= alerts'[e].tally
             /\ alerts[e].history \subseteq alerts'[e].history
  <2>1. alerts'[e] \in Doc /\ alerts'[e] # Gone BY <1>3, <1>6, DocIsThere
  <2>2. CASE alerts'[e] = alerts[e] BY <2>1, <2>2, <1>5
  <2>3. CASE alerts'[e] # alerts[e] BY <2>1, <2>3, <1>2 DEF AlertStep
  <2> QED BY <2>2, <2>3
<1> QED BY <1>1, <1>4, <1>5, <1>6, PresentIsDoc

\* What is lasting stays so while the request is the same in what it names and saw,
\* and what has been archived stays archived.
LEMMA LastingSteps ==
  ASSUME StoreTypeOK, StoreTypeOK', OpsTypeOK, NEW r \in Request, Lasting(r),
         \A e \in Event : AlertStep(e), archive \subseteq archive',
         requests'[r].op = requests[r].op, requests'[r].ids = requests[r].ids,
         requests'[r].seen = requests[r].seen
  PROVE  /\ Lasting(r)'
         /\ (requests[r].ids \cap Present)' \subseteq requests[r].ids \cap Present
         /\ \A e \in Event : Archived(r, e) => Archived(r, e)'
<1>1. requests[r].ids \subseteq Event BY DEF OpsTypeOK, RequestState
<1>2. \A e \in requests[r].ids :
        /\ alerts'[e] # NotYet
        /\ e \in Present' =>
             /\ e \in Present
             /\ alerts[e].tally \in Nat /\ alerts'[e].tally \in Nat
             /\ alerts[e].tally <= alerts'[e].tally
             /\ alerts[e].history \subseteq alerts'[e].history
  BY <1>1, StillThere
<1>3. \A e \in DOMAIN requests[r].seen : requests[r].seen[e].tally \in Nat
  <2>1. requests[r].seen \in Snapshots BY DEF OpsTypeOK, RequestState
  <2>2. PICK S \in SUBSET Event : requests[r].seen \in [S -> Snapshot] BY <2>1 DEF Snapshots
  <2> QED BY <2>2, StoreAssumption DEF Snapshot
<1>4. (requests[r].ids \cap Present)' \subseteq requests[r].ids \cap Present BY <1>2
<1>5. ASSUME Archives(r), NEW e \in requests[r].ids, e \in Present'
      PROVE  /\ e \in DOMAIN requests[r].seen
             /\ requests[r].seen[e].tally <= alerts'[e].tally
             /\ requests[r].seen[e].history \subseteq alerts'[e].history
  <2>1. /\ e \in Present /\ alerts[e].tally \in Nat /\ alerts'[e].tally \in Nat
        /\ alerts[e].tally <= alerts'[e].tally
        /\ alerts[e].history \subseteq alerts'[e].history
    BY <1>2, <1>5
  <2>2. /\ e \in DOMAIN requests[r].seen
        /\ requests[r].seen[e].tally <= alerts[e].tally
        /\ requests[r].seen[e].history \subseteq alerts[e].history
    BY <1>5, <2>1 DEF Lasting
  <2> QED BY <2>1, <2>2, <1>3
<1>6. Lasting(r)' BY <1>2, <1>5 DEF Lasting, Archives
<1>7. ASSUME NEW e \in Event, Archived(r, e) PROVE Archived(r, e)' BY <1>7 DEF Archived
<1> QED BY <1>4, <1>6, <1>7

\* A step of others keeps a request sound.
LEMMA OthersKeepSound ==
  ASSUME StoreTypeOK, StoreTypeOK', OpsTypeOK, NEW r \in Request, Sound(r),
         \A e \in Event : AlertStep(e), archive \subseteq archive',
         requests'[r] = requests[r]
  PROVE  Sound(r)'
<1>1. /\ Lasting(r)'
      /\ (requests[r].ids \cap Present)' \subseteq requests[r].ids \cap Present
      /\ \A e \in Event : Archived(r, e) => Archived(r, e)'
  BY LastingSteps DEF Sound
<1>2. requests[r].ids \subseteq Event /\ requests[r].took \subseteq Event BY DEF OpsTypeOK, RequestState
<1>3. (at(r, "idle") => requests[r] = Idle)' BY DEF Sound, at
<1>4. Holding(r)' BY <1>1 DEF Sound, Holding, Archives, at
<1>5. Copied(r)' BY <1>1, <1>2 DEF Sound, Copied, Archives, at
<1>6. Succeeded(r)'
  <2>1. \A e \in (requests[r].ids \cap Present)' : alerts[e].history \subseteq alerts'[e].history
    BY <1>2, StillThere DEF Sound
  <2> QED BY <2>1, <1>1 DEF Sound, Succeeded, at
<1> QED BY <1>1, <1>3, <1>4, <1>5, <1>6 DEF Sound

\* A request that goes on, with its types.
LEMMA GoesType ==
  ASSUME OpsTypeOK, NEW r \in Request, NEW q \in RequestState, Goes(r, q)
  PROVE  /\ requests' \in [Request -> RequestState]
         /\ requests'[r] = q
         /\ \A s \in Request \ {r} : requests'[s] = requests[s]
BY DEF OpsTypeOK, Goes

\* An idle request is one.
LEMMA IdleType == Idle \in RequestState
<1>1. 0 \in Severity BY StoreAssumption
<1>2. NoDocs \in Snapshots
  <2>1. NoDocs \in [{} -> Snapshot] BY DEF NoDocs
  <2> QED BY <2>1 DEF Snapshots
<1> QED BY <1>1, <1>2 DEF Idle, RequestState, Stage, Operation

\* What the handlers do, one lemma for each.  In each the other requests are as they
\* were.
OthersSame(r) == \A s \in Request \ {r} : requests'[s] = requests[s]

\* What is found is of the type of what is kept.
LEMMA FoundType ==
  ASSUME StoreTypeOK, NEW ids \in SUBSET Event
  PROVE  /\ FoundNow(ids) \in Snapshots /\ DOMAIN FoundNow(ids) = ids \cap Present
         /\ \A e \in ids \cap Present :
              FoundNow(ids)[e].tally = alerts[e].tally /\ FoundNow(ids)[e].history = alerts[e].history
<1>1. \A e \in ids \cap Present : alerts[e] \in Doc BY PresentIsDoc
<1>2. \A e \in ids \cap Present : alerts[e].tally \in 1..MaxTally /\ alerts[e].history \in SUBSET Request
  BY <1>1 DEF Doc
<1>3. FoundNow(ids) \in [ids \cap Present -> Snapshot] BY <1>2 DEF FoundNow, Snapshot
<1>4. \A e \in ids \cap Present :
        FoundNow(ids)[e].tally = alerts[e].tally /\ FoundNow(ids)[e].history = alerts[e].history
  BY DEF FoundNow
<1>5. ids \cap Present \in SUBSET Event OBVIOUS
<1> HIDE DEF FoundNow
<1> QED BY <1>3, <1>4, <1>5 DEF Snapshots

\* A request comes in with what it sees.
LEMMA AskSound ==
  ASSUME StoreTypeOK, OpsTypeOK, NEW r \in Request, Sound(r), Ask(r)
  PROVE  StoreTypeOK' /\ OpsTypeOK' /\ Sound(r)' /\ OthersSame(r)
<1>0. alerts' = alerts /\ latestUp' = latestUp /\ archive' = archive BY DEF Ask, storeVars
<1>1. StoreTypeOK' /\ Present' = Present BY <1>0 DEF StoreTypeOK, Present
<1>2. PICK op \in Operation, s \in Severity, ids \in SUBSET {e \in Event : alerts[e] # NotYet} :
        /\ op # "severity" => s = 0
        /\ op = "delete::all" => ids = {}
        /\ IF ids = {} /\ op \in {"clear", "delete"}
           THEN Goes(r, [Idle EXCEPT !.stage = "done", !.op = op])
           ELSE Goes(r, [Idle EXCEPT !.stage = FirstStage(op), !.op = op, !.severity = s,
                                     !.ids = ids, !.seen = SeenBy(op, ids)])
  BY DEF Ask
<1> DEFINE q1 == [Idle EXCEPT !.stage = "done", !.op = op]
           q2 == [Idle EXCEPT !.stage = FirstStage(op), !.op = op, !.severity = s,
                              !.ids = ids, !.seen = SeenBy(op, ids)]
<1>3. Idle.ids = {} /\ Idle.took = {} /\ Idle.answer = "none" BY DEF Idle
<1>4. CASE ids = {} /\ op \in {"clear", "delete"}
  <2>1. /\ q1 \in RequestState
        /\ q1.ids = {} /\ q1.took = {} /\ q1.answer = "none" /\ q1.stage = "done"
    BY <1>3, IdleType DEF RequestState, Stage
  <2> HIDE DEF q1
  <2>2. /\ requests' \in [Request -> RequestState] /\ requests'[r] = q1 /\ OthersSame(r)
    BY <1>2, <1>4, <2>1, GoesType DEF OthersSame, q1
  <2>3. Sound(r)' BY <2>1, <2>2 DEF Sound, Lasting, Holding, Copied, Succeeded, at
  <2> QED BY <1>0, <1>1, <2>2, <2>3 DEF OpsTypeOK
<1>5. CASE ~ (ids = {} /\ op \in {"clear", "delete"})
  <2>1. FirstStage(op) \in {"find", "lookup", "write"}
        /\ (op \in {"clear", "delete"} => FirstStage(op) = "find")
    BY DEF FirstStage, Operation
  <2>2. SeenBy(op, ids) \in Snapshots
    <3>1. NoDocs \in Snapshots BY IdleType DEF Idle, RequestState
    <3> QED BY <3>1, FoundType DEF SeenBy
  <2>3. /\ q2 \in RequestState
        /\ q2.ids = ids /\ q2.took = {} /\ q2.answer = "none" /\ q2.stage = FirstStage(op)
        /\ q2.op = op /\ q2.seen = SeenBy(op, ids)
    BY <1>3, <2>1, <2>2, IdleType DEF RequestState, Stage
  <2> HIDE DEF q2
  <2>4. /\ requests' \in [Request -> RequestState] /\ requests'[r] = q2 /\ OthersSame(r)
    BY <1>2, <1>5, <2>3, GoesType DEF OthersSame, q2
  <2>5. Lasting(r)'
    <3>1. op \in {"clear", "delete"} => SeenBy(op, ids) = FoundNow(ids) BY DEF SeenBy
    <3>2. \A e \in ids \cap Present : alerts[e].tally \in Nat
      <4>1. \A e \in ids \cap Present : alerts[e] \in Doc BY PresentIsDoc
      <4> QED BY <4>1 DEF Doc
    <3>3. ASSUME op \in {"clear", "delete"}, NEW e \in ids \cap Present
          PROVE  /\ e \in DOMAIN SeenBy(op, ids)
                 /\ SeenBy(op, ids)[e].tally <= alerts[e].tally
                 /\ SeenBy(op, ids)[e].history \subseteq alerts[e].history
      <4>1. /\ e \in DOMAIN FoundNow(ids)
            /\ FoundNow(ids)[e].tally = alerts[e].tally
            /\ FoundNow(ids)[e].history = alerts[e].history
        <5>1. ids \in SUBSET Event OBVIOUS
        <5> QED BY <5>1, FoundType
      <4> QED BY <3>1, <3>2, <3>3, <4>1
    <3> QED BY <3>3, <1>0, <1>1, <2>3, <2>4 DEF Lasting, Archives
  <2>6. Holding(r)' /\ Copied(r)' /\ Succeeded(r)' /\ (at(r, "idle") => requests[r] = Idle)'
    BY <2>1, <2>3, <2>4 DEF Holding, Copied, Succeeded, Archives, at
  <2> QED BY <1>0, <1>1, <2>4, <2>5, <2>6 DEF OpsTypeOK, Sound
<1> QED BY <1>2, <1>4, <1>5

\* A step of a handler of r keeps r sound, if what it holds, has copied and answers
\* is right.
LEMMA OwnSound ==
  ASSUME StoreTypeOK, StoreTypeOK', OpsTypeOK, NEW r \in Request, Sound(r),
         \A e \in Event : AlertStep(e), archive' \in SUBSET Copy, archive \subseteq archive',
         NEW q \in RequestState, Goes(r, q),
         q.op = requests[r].op, q.ids = requests[r].ids, q.seen = requests[r].seen,
         q.stage # "idle", Holding(r)', Copied(r)', Succeeded(r)'
  PROVE  OpsTypeOK' /\ Sound(r)' /\ OthersSame(r)
<1>1. requests' \in [Request -> RequestState] /\ requests'[r] = q /\ OthersSame(r)
  BY GoesType DEF OthersSame
<1>2. Lasting(r)' BY <1>1, LastingSteps DEF Sound
<1> QED BY <1>1, <1>2 DEF Sound, OpsTypeOK, at

\* The state of a request whose call failed.
LEMMA FailsState ==
  ASSUME OpsTypeOK, NEW r \in Request, NEW S \in SUBSET Event, Fails(r, S)
  PROVE  \E q \in RequestState :
           /\ Goes(r, q)
           /\ q.op = requests[r].op /\ q.ids = requests[r].ids /\ q.seen = requests[r].seen
           /\ q.stage = "done" /\ q.took = S
           /\ q.answer = Answer(r, OnFailure(requests[r].op))
<1> DEFINE a == Answer(r, OnFailure(requests[r].op))
           q == [requests[r] EXCEPT !.stage = "done", !.answer = a, !.failed = TRUE, !.took = S,
                                    !.docs = NoDocs]
<1>1. requests[r] \in RequestState BY DEF OpsTypeOK
<1>2. a \in {"none", "ok", "error", "timeout"} BY <1>1 DEF Answer, OnFailure, RequestState, Operation
<1>3. NoDocs \in Snapshots /\ "done" \in Stage BY IdleType DEF Idle, RequestState, Stage
<1>4. Goes(r, q) BY DEF Fails
<1> HIDE DEF a
<1>5. /\ q \in RequestState
      /\ q.op = requests[r].op /\ q.ids = requests[r].ids /\ q.seen = requests[r].seen
      /\ q.stage = "done" /\ q.took = S /\ q.answer = a
  BY <1>1, <1>2, <1>3 DEF RequestState
<1> HIDE DEF q
<1> QED BY <1>4, <1>5 DEF a

\* A failure that has changed only what was archived keeps a request sound.
LEMMA FailsSound ==
  ASSUME StoreTypeOK, StoreTypeOK', OpsTypeOK, NEW r \in Request, Sound(r), ~ at(r, "done"),
         \A e \in Event : AlertStep(e), archive' \in SUBSET Copy, archive \subseteq archive',
         NEW S \in SUBSET Event, Fails(r, S),
         Archives(r) => \A e \in S : Archived(r, e)
  PROVE  OpsTypeOK' /\ Sound(r)' /\ OthersSame(r)
<1>1. PICK q \in RequestState :
        /\ Goes(r, q)
        /\ q.op = requests[r].op /\ q.ids = requests[r].ids /\ q.seen = requests[r].seen
        /\ q.stage = "done" /\ q.took = S
        /\ q.answer = Answer(r, OnFailure(requests[r].op))
  BY FailsState
<1>2. requests'[r] = q BY <1>1, GoesType
<1>3. \A e \in S : Archived(r, e) => Archived(r, e)' BY <1>1, <1>2, LastingSteps DEF Sound
<1>4. Holding(r)' BY <1>1, <1>2 DEF Holding, at
<1>5. Copied(r)' BY <1>1, <1>2, <1>3 DEF Copied, Archives, at
<1>6. requests[r].answer # "ok" BY DEF Sound, Succeeded
<1>7. q.answer = "ok" => q.op \in {"assign", "delete::all"}
  BY <1>1, <1>6 DEF Answer, OnFailure
<1>8. Succeeded(r)' BY <1>1, <1>2, <1>7 DEF Succeeded, at
<1> QED BY <1>1, <1>4, <1>5, <1>8, OwnSound

\* The alerts are as they were.
LEMMA SameAlerts ==
  ASSUME StoreTypeOK, UNCHANGED storeVars
  PROVE  StoreTypeOK' /\ Present' = Present /\ (\A e \in Event : AlertStep(e)) /\ alerts' = alerts
BY DEF StoreTypeOK, storeVars, AlertStep, Present

\* The first call of a copy holds what it found.
LEMMA CopyFindSound ==
  ASSUME StoreTypeOK, OpsTypeOK, NEW r \in Request, Sound(r), CopyFind(r)
  PROVE  StoreTypeOK' /\ OpsTypeOK' /\ Sound(r)' /\ OthersSame(r)
<1>1. /\ StoreTypeOK' /\ Present' = Present /\ alerts' = alerts
      /\ \A e \in Event : AlertStep(e)
      /\ archive' = archive
  BY SameAlerts DEF CopyFind
<1>2. archive' \in SUBSET Copy /\ archive \subseteq archive' BY <1>1 DEF OpsTypeOK
<1>3. at(r, "find") BY DEF CopyFind
<1>4. CASE Fails(r, {}) BY <1>1, <1>2, <1>3, <1>4, FailsSound DEF at
<1>5. CASE ~ Fails(r, {})
  <2> DEFINE docs == FoundNow(requests[r].ids)
             q == [requests[r] EXCEPT !.stage = AfterFind(docs), !.docs = docs]
  <2>1. Goes(r, q) BY <1>5 DEF CopyFind
  <2>2. requests[r] \in RequestState /\ requests[r].ids \in SUBSET Event BY DEF OpsTypeOK, RequestState
  <2>3. /\ docs \in Snapshots /\ DOMAIN docs = requests[r].ids \cap Present
        /\ \A e \in requests[r].ids \cap Present :
             docs[e].tally = alerts[e].tally /\ docs[e].history = alerts[e].history
    BY <2>2, FoundType
  <2>4. AfterFind(docs) \in {"write", "copy"} /\ (AfterFind(docs) = "write" => DOMAIN docs = {})
    BY DEF AfterFind
  <2> HIDE DEF docs
  <2>5. /\ q \in RequestState
        /\ q.op = requests[r].op /\ q.ids = requests[r].ids /\ q.seen = requests[r].seen
        /\ q.stage = AfterFind(docs) /\ q.took = requests[r].took /\ q.docs = docs
        /\ q.answer = requests[r].answer
    BY <2>2, <2>3, <2>4 DEF RequestState, Stage
  <2> HIDE DEF q
  <2>6. requests'[r] = q BY <2>1, <2>5, GoesType
  <2>7. \A e \in Event : Archived(r, e) => Archived(r, e)'
    BY <1>1, <1>2, <2>5, <2>6, LastingSteps DEF Sound
  <2>8. Holding(r)'
    <3>1. ~ at(r, "lookup")' BY <2>4, <2>5, <2>6 DEF at
    <3> QED BY <1>1, <2>3, <2>5, <2>6, <3>1 DEF Sound, Lasting, Holding, Archives, at
  <2>9. Copied(r)'
    <3>1. requests[r].took \subseteq Event BY <2>2 DEF RequestState
    <3>2. at(r, "write")' => requests[r].ids \cap Present = {} BY <2>3, <2>4, <2>5, <2>6 DEF at
    <3> QED BY <1>1, <2>5, <2>6, <2>7, <3>1, <3>2 DEF Sound, Copied, Archives
  <2>10. Succeeded(r)' BY <1>3, <2>5, <2>6 DEF Sound, Succeeded, at
  <2> QED BY <1>1, <1>2, <2>1, <2>4, <2>5, <2>8, <2>9, <2>10, OwnSound
<1> QED BY <1>4, <1>5

\* The second call of a copy leaves what was held in the archive.
LEMMA CopyExecuteSound ==
  ASSUME StoreTypeOK, OpsTypeOK, NEW r \in Request, Sound(r), CopyExecute(r)
  PROVE  StoreTypeOK' /\ OpsTypeOK' /\ Sound(r)' /\ OthersSame(r)
<1>1. /\ StoreTypeOK' /\ Present' = Present /\ alerts' = alerts
      /\ \A e \in Event : AlertStep(e)
  BY SameAlerts DEF CopyExecute
<1>2. at(r, "copy") BY DEF CopyExecute
<1>3. requests[r] \in RequestState BY DEF OpsTypeOK
<1>4. PICK T \in SUBSET Event : requests[r].docs \in [T -> Snapshot]
  <2>1. requests[r].docs \in Snapshots BY <1>3 DEF RequestState
  <2> QED BY <2>1 DEF Snapshots
<1>5. \A S \in SUBSET DOMAIN requests[r].docs : Copies(r, S) \in SUBSET Copy
  BY <1>4 DEF Copies, Copy
<1>6. ASSUME NEW S \in SUBSET DOMAIN requests[r].docs, archive' = archive \cup Copies(r, S),
             Fails(r, {})
      PROVE  OpsTypeOK' /\ Sound(r)' /\ OthersSame(r)
  <2>1. archive' \in SUBSET Copy /\ archive \subseteq archive' BY <1>5, <1>6 DEF OpsTypeOK
  <2> QED BY <1>1, <1>2, <1>6, <2>1, FailsSound DEF at
<1>7. ASSUME archive' = archive \cup Copies(r, DOMAIN requests[r].docs),
             Goes(r, [requests[r] EXCEPT !.stage = "write", !.docs = NoDocs])
      PROVE  OpsTypeOK' /\ Sound(r)' /\ OthersSame(r)
  <2> DEFINE q == [requests[r] EXCEPT !.stage = "write", !.docs = NoDocs]
  <2>1. archive' \in SUBSET Copy /\ archive \subseteq archive' BY <1>5, <1>7 DEF OpsTypeOK
  <2>2. NoDocs \in Snapshots BY IdleType DEF Idle, RequestState
  <2>3. /\ q \in RequestState
        /\ q.op = requests[r].op /\ q.ids = requests[r].ids /\ q.seen = requests[r].seen
        /\ q.stage = "write" /\ q.took = requests[r].took /\ q.answer = requests[r].answer
    BY <1>3, <2>2 DEF RequestState, Stage
  <2>4. Goes(r, q) BY <1>7
  <2> HIDE DEF q
  <2>5. requests'[r] = q BY <2>3, <2>4, GoesType
  <2>6. \A e \in Event : Archived(r, e) => Archived(r, e)'
    BY <1>1, <2>1, <2>3, <2>5, LastingSteps DEF Sound
  <2>7. ASSUME Archives(r), NEW e \in requests[r].ids \cap Present PROVE Archived(r, e)'
    <3> DEFINE c == [request |-> r, event |-> e, doc |-> requests[r].docs[e]]
    <3>1. /\ e \in DOMAIN requests[r].docs
          /\ requests[r].seen[e].tally <= requests[r].docs[e].tally
          /\ requests[r].seen[e].history \subseteq requests[r].docs[e].history
      BY <1>2, <2>7 DEF Sound, Holding
    <3>2. c \in archive' BY <1>7, <3>1 DEF Copies
    <3>3. c.request = r /\ c.event = e /\ c.doc = requests[r].docs[e] OBVIOUS
    <3> HIDE DEF c
    <3>4. requests'[r].seen = requests[r].seen BY <2>3, <2>5
    <3>5. c.doc.tally >= requests[r].seen[e].tally BY <3>1, <3>3
    <3>6. /\ c.request = r /\ c.event = e
          /\ c.doc.tally >= requests'[r].seen[e].tally
          /\ requests'[r].seen[e].history \subseteq c.doc.history
      BY <3>1, <3>3, <3>4, <3>5
    <3> QED BY <3>2, <3>6 DEF Archived
  <2>8. Holding(r)' BY <2>3, <2>5 DEF Holding, at
  <2>9. Copied(r)'
    <3>1. requests[r].took \subseteq Event BY <1>3 DEF RequestState
    <3> QED BY <1>1, <2>3, <2>5, <2>6, <2>7, <3>1 DEF Sound, Copied, Archives, at
  <2>10. Succeeded(r)' BY <1>2, <2>3, <2>5 DEF Sound, Succeeded, at
  <2> QED BY <1>1, <2>1, <2>3, <2>4, <2>8, <2>9, <2>10, OwnSound
<1> QED BY <1>1, <1>6, <1>7 DEF CopyExecute

\* A lookup leaves all that the request knows.
LEMMA LookupSound ==
  ASSUME StoreTypeOK, OpsTypeOK, NEW r \in Request, Sound(r), Lookup(r)
  PROVE  StoreTypeOK' /\ OpsTypeOK' /\ Sound(r)' /\ OthersSame(r)
<1>1. /\ StoreTypeOK' /\ Present' = Present /\ alerts' = alerts
      /\ \A e \in Event : AlertStep(e)
      /\ archive' = archive
  BY SameAlerts DEF Lookup
<1>2. archive' \in SUBSET Copy /\ archive \subseteq archive' BY <1>1 DEF OpsTypeOK
<1>3. at(r, "lookup") /\ ~ Archives(r) BY DEF Lookup, Sound, Holding
<1>4. CASE Fails(r, {}) BY <1>1, <1>2, <1>3, <1>4, FailsSound DEF at
<1>5. CASE Goes(r, [requests[r] EXCEPT !.stage = "write"])
  <2> DEFINE q == [requests[r] EXCEPT !.stage = "write"]
  <2>1. requests[r] \in RequestState BY DEF OpsTypeOK
  <2>2. /\ q \in RequestState
        /\ q.op = requests[r].op /\ q.ids = requests[r].ids /\ q.seen = requests[r].seen
        /\ q.stage = "write" /\ q.answer = requests[r].answer
    BY <2>1 DEF RequestState, Stage
  <2>3. Goes(r, q) BY <1>5
  <2> HIDE DEF q
  <2>4. requests'[r] = q BY <2>2, <2>3, GoesType
  <2>5. Holding(r)' /\ Copied(r)' BY <1>3, <2>2, <2>4 DEF Holding, Copied, Archives, at
  <2>6. Succeeded(r)' BY <1>3, <2>2, <2>4 DEF Sound, Succeeded, at
  <2> QED BY <1>1, <1>2, <2>2, <2>3, <2>5, <2>6, OwnSound
<1> QED BY <1>4, <1>5 DEF Lookup

\* The state of a request whose last call has been made.
LEMMA CompletesState ==
  ASSUME OpsTypeOK, NEW r \in Request, NEW S \in SUBSET Event, Completes(r, S)
  PROVE  \E q \in RequestState :
           /\ Goes(r, q)
           /\ q.op = requests[r].op /\ q.ids = requests[r].ids /\ q.seen = requests[r].seen
           /\ q.stage = "done" /\ q.took = S
<1> DEFINE a == Answer(r, "ok")
           q == [requests[r] EXCEPT !.stage = "done", !.answer = a, !.took = S]
<1>1. requests[r] \in RequestState BY DEF OpsTypeOK
<1>2. a \in {"none", "ok", "error", "timeout"} BY <1>1 DEF Answer, RequestState
<1>3. Goes(r, q) BY DEF Completes
<1> HIDE DEF a
<1>4. /\ q \in RequestState
      /\ q.op = requests[r].op /\ q.ids = requests[r].ids /\ q.seen = requests[r].seen
      /\ q.stage = "done" /\ q.took = S
  BY <1>1, <1>2 DEF RequestState, Stage
<1> HIDE DEF q
<1> QED BY <1>3, <1>4

\* A last call that did what was asked keeps a request sound.
LEMMA CompletesSound ==
  ASSUME StoreTypeOK, StoreTypeOK', OpsTypeOK, NEW r \in Request, Sound(r),
         \A e \in Event : AlertStep(e), archive' = archive,
         NEW S \in SUBSET Event, Completes(r, S),
         Archives(r) => \A e \in S : Archived(r, e),
         requests[r].op \notin {"assign", "delete::all"} =>
           \A e \in requests[r].ids \cap Present' :
             requests[r].op # "delete" /\ r \in alerts'[e].history
  PROVE  OpsTypeOK' /\ Sound(r)' /\ OthersSame(r)
<1>1. PICK q \in RequestState :
        /\ Goes(r, q)
        /\ q.op = requests[r].op /\ q.ids = requests[r].ids /\ q.seen = requests[r].seen
        /\ q.stage = "done" /\ q.took = S
  BY CompletesState
<1>2. archive' \in SUBSET Copy /\ archive \subseteq archive' BY DEF OpsTypeOK
<1>3. requests'[r] = q BY <1>1, GoesType
<1>4. \A e \in S : Archived(r, e) => Archived(r, e)' BY <1>1, <1>2, <1>3, LastingSteps DEF Sound
<1>5. Holding(r)' BY <1>1, <1>3 DEF Holding, at
<1>6. Copied(r)' BY <1>1, <1>3, <1>4 DEF Copied, Archives, at
<1>7. Succeeded(r)' BY <1>1, <1>3 DEF Succeeded, at
<1> QED BY <1>1, <1>2, <1>5, <1>6, <1>7, OwnSound

\* What an update writes is a document with a line more.
LEMMA WrittenType ==
  ASSUME OpsTypeOK, NEW r \in Request, NEW d \in Doc
  PROVE  /\ Written(r, d) \in Doc /\ r \in Written(r, d).history
         /\ Written(r, d).tally = d.tally /\ d.history \subseteq Written(r, d).history
         /\ Written(r, d).last_occurrence = d.last_occurrence
<1> DEFINE s == CASE requests[r].op = "clear" -> 0
                  [] requests[r].op = "severity" -> requests[r].severity
                  [] OTHER -> d.severity
           h == d.history \cup {r}
           w == [d EXCEPT !.history = h, !.severity = s]
<1>1. requests[r].severity \in Severity /\ 0 \in Severity /\ d.severity \in Severity
  BY StoreAssumption DEF OpsTypeOK, RequestState, Doc
<1>2. s \in Severity BY <1>1
<1>3. h \in SUBSET Request /\ r \in h /\ d.history \subseteq h BY DEF Doc
<1>4. Written(r, d) = w BY DEF Written
<1> HIDE DEF s, h
<1>5. /\ w \in Doc /\ w.history = h /\ w.tally = d.tally
      /\ w.last_occurrence = d.last_occurrence
  BY <1>2, <1>3 DEF Doc
<1> HIDE DEF w
<1> QED BY <1>3, <1>4, <1>5

\* The call that updates.
LEMMA UpdateManySound ==
  ASSUME StoreTypeOK, OpsTypeOK, NEW r \in Request, Sound(r), UpdateMany(r)
  PROVE  /\ StoreTypeOK' /\ OpsTypeOK' /\ Sound(r)' /\ OthersSame(r)
         /\ TimesKept /\ \A e \in Event : AlertStep(e)
<1> DEFINE ids == requests[r].ids \cap Present
<1>1. PICK S \in SUBSET ids :
        /\ alerts' = Updated([e \in S |-> Written(r, alerts[e])])
        /\ (S = ids /\ Completes(r, S)) \/ Fails(r, S)
  BY DEF UpdateMany
<1>2. /\ at(r, "write") /\ requests[r].op \notin {"delete", "delete::all"}
      /\ latestUp' = latestUp /\ archive' = archive
  BY DEF UpdateMany
<1> DEFINE docs == [e \in S |-> Written(r, alerts[e])]
<1>3. \A e \in S : e \in Event /\ alerts[e] \in Doc BY PresentIsDoc DEF Present
<1>4. \A e \in S : docs[e] = Written(r, alerts[e]) /\ alerts[e].tally \in Nat BY <1>3 DEF Doc
<1>5. DOMAIN docs = S /\ alerts' = Updated(docs) BY <1>1
<1> HIDE DEF docs
<1>6. \A e \in S : /\ docs[e] \in Doc /\ r \in docs[e].history
                   /\ alerts[e].tally <= docs[e].tally
                   /\ alerts[e].history \subseteq docs[e].history
                   /\ docs[e].last_occurrence = alerts[e].last_occurrence
  BY <1>3, <1>4, WrittenType
<1>7. S \in SUBSET Present OBVIOUS
<1>8. /\ alerts' \in AlertTypes
      /\ \A e \in Event : AlertStep(e) /\ (e \in S => alerts'[e] = docs[e])
      /\ \A e \in Event \ S : alerts'[e] = alerts[e]
      /\ TimesKept
  BY <1>5, <1>6, <1>7, UpdatedSteps
<1>9. StoreTypeOK' BY <1>2, <1>8 DEF StoreTypeOK, AlertTypes
<1>10. S \in SUBSET Event BY <1>7 DEF Present
<1>11. Archives(r) => \A e \in S : Archived(r, e) BY <1>2 DEF Sound, Copied
<1>12. CASE Fails(r, S)
  <2>1. archive' \in SUBSET Copy /\ archive \subseteq archive' /\ ~ at(r, "done")
    BY <1>2 DEF OpsTypeOK, at
  <2> QED BY <1>8, <1>9, <1>10, <1>11, <1>12, <2>1, FailsSound
<1>13. CASE S = ids /\ Completes(r, S)
  <2>1. ASSUME NEW e \in requests[r].ids, e \in Present'
        PROVE  r \in alerts'[e].history
    <3>1. e \in Event BY DEF OpsTypeOK, RequestState
    <3>2. e \in Present BY <1>8, <1>9, <2>1, StillThere, <3>1 DEF Sound
    <3> QED BY <1>6, <1>8, <1>13, <3>1, <3>2
  <2> QED BY <1>2, <1>8, <1>9, <1>10, <1>11, <1>13, <2>1, CompletesSound
<1> QED BY <1>1, <1>8, <1>9, <1>12, <1>13

\* The call that deletes.
LEMMA DeleteManySound ==
  ASSUME StoreTypeOK, OpsTypeOK, NEW r \in Request, Sound(r), DeleteMany(r)
  PROVE  /\ StoreTypeOK' /\ OpsTypeOK' /\ Sound(r)' /\ OthersSame(r)
         /\ TimesKept /\ \A e \in Event : AlertStep(e)
<1> DEFINE ids == IF requests[r].op = "delete" THEN requests[r].ids \cap Present ELSE Present
<1>1. PICK S \in SUBSET ids :
        /\ alerts' = Removed(S)
        /\ (S = ids /\ Completes(r, S)) \/ Fails(r, S)
  BY DEF DeleteMany
<1>2. /\ at(r, "write") /\ requests[r].op \in {"delete", "delete::all"}
      /\ latestUp' = latestUp /\ archive' = archive
  BY DEF DeleteMany
<1>3. S \in SUBSET Present OBVIOUS
<1>4. /\ alerts' \in AlertTypes
      /\ \A e \in Event : AlertStep(e) /\ (e \in S => alerts'[e] = Gone)
      /\ TimesKept
  BY <1>1, <1>3, RemovedSteps
<1>5. StoreTypeOK' BY <1>2, <1>4 DEF StoreTypeOK, AlertTypes
<1>6. S \in SUBSET Event BY <1>3 DEF Present
<1>7. Archives(r) => \A e \in S : Archived(r, e) BY <1>2 DEF Sound, Copied, Archives
<1>8. CASE Fails(r, S)
  <2>1. archive' \in SUBSET Copy /\ archive \subseteq archive' /\ ~ at(r, "done")
    BY <1>2 DEF OpsTypeOK, at
  <2> QED BY <1>4, <1>5, <1>6, <1>7, <1>8, <2>1, FailsSound
<1>9. CASE S = ids /\ Completes(r, S)
  <2>1. ASSUME requests[r].op = "delete", NEW e \in requests[r].ids, e \in Present' PROVE FALSE
    <3>1. e \in Event BY DEF OpsTypeOK, RequestState
    <3>2. e \in Present BY <1>4, <1>5, <2>1, <3>1, StillThere DEF Sound
    <3>3. alerts'[e] = Gone BY <1>4, <1>9, <2>1, <3>1, <3>2
    <3> QED BY <2>1, <3>3, DocIsThere DEF Present
  <2>2. requests[r].op \notin {"assign", "delete::all"} => requests[r].op = "delete" BY <1>2
  <2> QED BY <1>2, <1>4, <1>5, <1>6, <1>7, <1>9, <2>1, <2>2, CompletesSound
<1> QED BY <1>1, <1>4, <1>5, <1>8, <1>9

\* The route answers for its handler.
LEMMA TimeoutSound ==
  ASSUME StoreTypeOK, OpsTypeOK, NEW r \in Request, Sound(r), Timeout(r)
  PROVE  StoreTypeOK' /\ OpsTypeOK' /\ Sound(r)' /\ OthersSame(r)
<1>1. /\ StoreTypeOK' /\ Present' = Present /\ alerts' = alerts
      /\ \A e \in Event : AlertStep(e)
      /\ archive' = archive
  BY SameAlerts DEF Timeout
<1>2. archive' \in SUBSET Copy /\ archive \subseteq archive' BY <1>1 DEF OpsTypeOK
<1> DEFINE q == [requests[r] EXCEPT !.answer = "timeout"]
<1>3. requests[r] \in RequestState /\ requests[r].stage # "idle" BY DEF OpsTypeOK, Timeout
<1>4. /\ q \in RequestState
      /\ q.op = requests[r].op /\ q.ids = requests[r].ids /\ q.seen = requests[r].seen
      /\ q.stage = requests[r].stage /\ q.took = requests[r].took /\ q.docs = requests[r].docs
      /\ q.answer = "timeout"
  BY <1>3 DEF RequestState
<1>5. Goes(r, q) BY DEF Timeout
<1> HIDE DEF q
<1>6. requests'[r] = q BY <1>4, <1>5, GoesType
<1>7. \A e \in Event : Archived(r, e) => Archived(r, e)'
  BY <1>1, <1>2, <1>4, <1>6, LastingSteps DEF Sound
<1>8. Holding(r)' BY <1>1, <1>4, <1>6 DEF Sound, Holding, Archives, at
<1>9. requests[r].ids \subseteq Event /\ requests[r].took \subseteq Event BY <1>3 DEF RequestState
<1>10. Copied(r)' BY <1>1, <1>4, <1>6, <1>7, <1>9 DEF Sound, Copied, Archives, at
<1>11. Succeeded(r)' BY <1>4, <1>6 DEF Succeeded
<1> QED BY <1>1, <1>2, <1>3, <1>4, <1>5, <1>8, <1>10, <1>11, OwnSound

----------------------------------------------------------------------------
(* The specification                                                       *)

\* The inductive invariant.
Inv == TypeOK /\ UpTimes /\ \A r \in Request : Sound(r)

\* It holds at the start: nothing is stored, asked for or found.
LEMMA InitInv == Init => Inv
<1> SUFFICES ASSUME Init PROVE Inv OBVIOUS
<1>1. automations \in Enabled BY EnabledAssumption DEF Init
<1>2. StoreTypeOK BY StoreAssumption DEF Init, StoreInit, StoreTypeOK
<1>3. OpsTypeOK BY IdleType DEF Init, OpsInit, OpsTypeOK
<1>4. AutomationsTypeOK
  <2>1. [e \in {} |-> 0] \in [{} -> 0..MaxTime] OBVIOUS
  <2>2. Waiting \in FiringState BY <2>1 DEF Waiting, FiringState
  <2> QED BY <2>2 DEF Init, AutomationsInit, AutomationsTypeOK
<1>5. Present = {} BY DocIsThere DEF Init, StoreInit, Present
<1>6. UpTimes
  <2>1. \A f \in Firing : firings[f].trigger = "none" BY DEF Init, AutomationsInit, Waiting
  <2> QED BY <1>5, <2>1 DEF UpTimes, Ups
<1>7. ASSUME NEW r \in Request PROVE Sound(r)
  <2>1. requests[r] = Idle BY <1>7 DEF Init, OpsInit
  <2>2. /\ Idle.ids = {} /\ Idle.took = {} /\ Idle.answer = "none" /\ Idle.stage = "idle"
        /\ Idle.op = "update"
    BY DEF Idle
  <2> QED BY <2>1, <2>2 DEF Sound, Lasting, Holding, Copied, Succeeded, Archives, at
<1> QED BY <1>1, <1>2, <1>3, <1>4, <1>6, <1>7 DEF Inv, TypeOK

\* A step of the event server keeps it.
LEMMA EventServerInv == Inv /\ EventServer => Inv'
<1> SUFFICES ASSUME Inv, EventServer PROVE Inv' OBVIOUS
<1>1. StoreTypeOK /\ OpsTypeOK /\ AutomationsTypeOK /\ automations \in Enabled /\ UpTimes
  BY DEF Inv, TypeOK
<1>2. PICK e \in Event : Insert(e) \/ Recur(e) BY DEF EventServer
<1>3. /\ StoreTypeOK'
      /\ \A d \in Event : AlertStep(d)
      /\ latestUp <= latestUp'
      /\ \A d \in Event \ {e} : alerts'[d] = alerts[d]
      /\ e \in Up => alerts'[e].last_occurrence < latestUp'
  BY <1>1, <1>2, EventServerSteps
<1>4. requests' = requests /\ archive' = archive /\ firings' = firings /\ automations' = automations
  BY DEF EventServer, opsVars
<1>5. \A r \in Request : Sound(r)' BY <1>1, <1>3, <1>4, OthersKeepSound DEF Inv
<1>6. latestUp \in Nat /\ latestUp' \in Nat BY <1>1, <1>3, StoreAssumption DEF StoreTypeOK
<1>7. ASSUME NEW d \in Ups' PROVE alerts'[d].last_occurrence < latestUp'
  <2>1. d \in Event /\ d \in Up /\ d \in Present' BY <1>7, StoreAssumption DEF Ups, Present
  <2>2. CASE d = e BY <1>3, <2>1, <2>2
  <2>3. CASE d # e
    <3>1. alerts'[d] = alerts[d] BY <1>3, <2>1, <2>3
    <3>2. d \in Ups BY <2>1, <3>1 DEF Ups, Present
    <3>3. alerts[d].last_occurrence \in Nat
      <4>1. alerts[d] \in Doc BY <1>1, <2>1, <3>2, PresentIsDoc DEF Ups
      <4> QED BY <4>1 DEF Doc
    <3> QED BY <1>1, <1>3, <1>6, <3>1, <3>2, <3>3 DEF UpTimes
  <2> QED BY <2>2, <2>3
<1>8. ASSUME NEW f \in Firing, firings[f].trigger = "find_ups", NEW d \in DOMAIN firings[f].rows
      PROVE  firings[f].rows[d] < latestUp'
  <2>1. firings[f].rows \in UNION {[T -> 0..MaxTime] : T \in SUBSET Event}
    BY <1>1 DEF AutomationsTypeOK, FiringState
  <2>2. firings[f].rows[d] \in Nat BY <2>1
  <2> QED BY <1>1, <1>3, <1>6, <1>8, <2>2 DEF UpTimes
<1>9. UpTimes' BY <1>4, <1>7, <1>8 DEF UpTimes
<1> QED BY <1>1, <1>3, <1>4, <1>5, <1>9 DEF Inv, TypeOK, OpsTypeOK, AutomationsTypeOK

\* What a step of request r does to the types, to r and to the times.
LEMMA OpsSteps ==
  ASSUME StoreTypeOK, OpsTypeOK, NEW r \in Request, Sound(r), OpsNext(r)
  PROVE  /\ StoreTypeOK' /\ OpsTypeOK' /\ Sound(r)' /\ OthersSame(r)
         /\ TimesKept /\ latestUp' = latestUp
         /\ \A e \in Event : AlertStep(e)
         /\ archive \subseteq archive'
<1>1. /\ StoreTypeOK' /\ OpsTypeOK' /\ Sound(r)' /\ OthersSame(r)
  BY AskSound, CopyFindSound, CopyExecuteSound, LookupSound, UpdateManySound, DeleteManySound,
     TimeoutSound
  DEF OpsNext, Handler
<1>2. archive \subseteq archive'
  BY DEF OpsNext, Handler, Ask, CopyFind, CopyExecute, Lookup, UpdateMany, DeleteMany, Timeout
<1>3. CASE UNCHANGED storeVars
  <2>1. alerts' = alerts /\ latestUp' = latestUp BY <1>3 DEF storeVars
  <2>2. TimesKept BY <2>1 DEF TimesKept
  <2>3. \A e \in Event : AlertStep(e) BY <2>1 DEF AlertStep
  <2> QED BY <1>1, <1>2, <2>1, <2>2, <2>3
<1>4. CASE UpdateMany(r) \/ DeleteMany(r)
  <2>1. latestUp' = latestUp BY <1>4 DEF UpdateMany, DeleteMany
  <2>2. TimesKept /\ \A e \in Event : AlertStep(e) BY <1>4, UpdateManySound, DeleteManySound
  <2> QED BY <1>1, <1>2, <2>1, <2>2
<1>5. OpsNext(r) => UNCHANGED storeVars \/ UpdateMany(r) \/ DeleteMany(r)
  BY DEF OpsNext, Handler, Ask, CopyFind, CopyExecute, Lookup, Timeout
<1> QED BY <1>3, <1>4, <1>5

\* A step of an operator's request keeps it.
LEMMA OperatorsInv == Inv /\ Operators => Inv'
<1> SUFFICES ASSUME Inv, Operators PROVE Inv' OBVIOUS
<1>1. StoreTypeOK /\ OpsTypeOK /\ AutomationsTypeOK /\ automations \in Enabled /\ UpTimes
  BY DEF Inv, TypeOK
<1>2. PICK r \in Request : OpsNext(r) BY <1>1, EnabledAssumption DEF Operators
<1>3. firings' = firings /\ automations' = automations BY DEF Operators
<1>4. Sound(r) BY DEF Inv
<1>5. /\ StoreTypeOK' /\ OpsTypeOK' /\ Sound(r)' /\ OthersSame(r)
      /\ TimesKept /\ latestUp' = latestUp
      /\ \A e \in Event : AlertStep(e)
      /\ archive \subseteq archive'
  BY <1>1, <1>2, <1>4, OpsSteps
<1>6. ASSUME NEW s \in Request PROVE Sound(s)'
  <2>1. CASE s = r BY <1>5, <2>1
  <2>2. CASE s # r
    <3>1. requests'[s] = requests[s] BY <1>5, <2>2 DEF OthersSame
    <3>2. Sound(s) BY DEF Inv
    <3> QED BY <1>1, <1>5, <3>1, <3>2, OthersKeepSound
  <2> QED BY <2>1, <2>2
<1>7. \A e \in Ups' : alerts'[e].last_occurrence < latestUp' BY <1>1, <1>5, TimesKeptKeepUps
<1>8. UpTimes' BY <1>1, <1>3, <1>5, <1>7 DEF UpTimes
<1> QED BY <1>1, <1>3, <1>5, <1>6, <1>8 DEF Inv, TypeOK, AutomationsTypeOK

\* A step of the automations keeps it.
LEMMA TriggersInv == Inv /\ Triggers => Inv'
<1> SUFFICES ASSUME Inv, Triggers PROVE Inv' OBVIOUS
<1>1. StoreTypeOK /\ OpsTypeOK /\ AutomationsTypeOK /\ automations \in Enabled /\ UpTimes
  BY DEF Inv, TypeOK
<1>2. AutomationsNext /\ requests' = requests /\ archive' = archive /\ automations' = automations
  BY DEF Triggers, opsVars
<1>3. /\ StoreTypeOK' /\ AutomationsTypeOK' /\ UpTimes'
      /\ \A e \in Event : AlertStep(e)
  BY <1>1, <1>2, AutomationsSteps
<1>4. \A r \in Request : Sound(r)' BY <1>1, <1>2, <1>3, OthersKeepSound DEF Inv
<1> QED BY <1>1, <1>2, <1>3, <1>4 DEF Inv, TypeOK, OpsTypeOK

\* A step that changes nothing keeps it.
LEMMA StutterInv == Inv /\ UNCHANGED vars => Inv'
<1> SUFFICES ASSUME Inv, UNCHANGED vars PROVE Inv' OBVIOUS
<1>1. /\ alerts' = alerts /\ latestUp' = latestUp /\ requests' = requests /\ archive' = archive
      /\ firings' = firings /\ automations' = automations
  BY DEF vars, storeVars, opsVars
<1>2. TypeOK' BY <1>1 DEF Inv, TypeOK, StoreTypeOK, OpsTypeOK, AutomationsTypeOK
<1>3. UpTimes' BY <1>1 DEF Inv, UpTimes, Ups, Present
<1>4. ASSUME NEW r \in Request PROVE Sound(r)'
  <2>1. \A e \in Event : AlertStep(e) BY <1>1 DEF AlertStep
  <2> QED BY <1>1, <1>2, <2>1, OthersKeepSound DEF Inv, TypeOK
<1> QED BY <1>2, <1>3, <1>4 DEF Inv

\* The invariant is inductive.
THEOREM Inductive == Spec => []Inv
<1>1. Init => Inv BY InitInv
<1>2. Inv /\ [Next]_vars => Inv'
  BY EventServerInv, OperatorsInv, TriggersInv, StutterInv DEF Next
<1> QED BY <1>1, <1>2, PTL DEF Spec

\* Alerts, requests, copies and firings keep their types, whatever is asked for.
THEOREM OperationsTypeCorrect == Spec => []TypeOK
<1>1. Inv => TypeOK BY DEF Inv
<1> QED BY <1>1, Inductive, PTL

\* What is cleared or deleted has been copied to the archive with all that was there
\* when the operator asked, whatever other requests, the automations and the event
\* server do between the calls (copy_events_async, then updateMany or deleteMany).
THEOREM ArchiveIsComplete == Spec => []ArchiveHolds
<1>1. Inv => ArchiveHolds
  BY DEF Inv, Sound, Copied, ArchiveHolds, Archived, Archives
<1> QED BY <1>1, Inductive, PTL

\* Success is answered only for what has been done to every event that is left.
THEOREM SuccessMeansDone == Spec => []SuccessIsDone
<1>1. Inv => SuccessIsDone
  BY DEF Inv, Sound, Succeeded, SuccessIsDone
<1> QED BY <1>1, Inductive, PTL

\* The automations remove only what is clear when they do and clear only downs that
\* are older than an up, for any number of overlapping firings.
THEOREM AutomationsSpare == Spec => AutomationsSpareRaised
<1>1. Inv /\ [Next]_vars => [Triggers => SparesRaised]_vars
  BY AutomationsSteps DEF Inv, TypeOK, Triggers
<1> QED BY <1>1, Inductive, PTL DEF Spec, AutomationsSpareRaised
=============================================================================
