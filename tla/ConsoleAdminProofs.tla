------------------------- MODULE ConsoleAdminProofs -------------------------
(***************************************************************************)
(* Proofs about ConsoleAdmin: schedules, for any number of names, rules,   *)
(* edits, minutes and days; default views and the limit on API keys, for   *)
(* any number of users, initial views, keys and requests.                  *)
(***************************************************************************)
EXTENDS ConsoleAdmin, FiniteSetTheorems, SequenceTheorems, WellFoundedInduction, TLAPS

----------------------------------------------------------------------------
(* The calendar                                                            *)

\* The calendar starts at midnight of the first day.
LEMMA CalendarInitType == CalendarInit => CalendarTypeOK
<1> SUFFICES ASSUME CalendarInit PROVE CalendarTypeOK OBVIOUS
<1>1. schedule \in Schedule /\ clock = [day |-> 1, minute |-> 0] BY DEF CalendarInit
<1>2. 0 \in Minute /\ 1 \in 1..Days BY SchedulesAssumption DEF Minute
<1> QED BY <1>1, <1>2 DEF CalendarTypeOK

\* The clock stays within the week.
LEMMA TickType == CalendarTypeOK /\ [Tick]_calendarVars => CalendarTypeOK'
<1> SUFFICES ASSUME CalendarTypeOK, [Tick]_calendarVars PROVE CalendarTypeOK' OBVIOUS
<1>1. CASE UNCHANGED calendarVars BY <1>1 DEF CalendarTypeOK, calendarVars
<1>2. CASE Tick
  <2>1. clock.day \in 1..Days /\ clock.minute \in Minute BY DEF CalendarTypeOK
  <2>2. DayMinutes \in Nat \ {0} /\ Days \in Nat \ {0} BY SchedulesAssumption
  <2>3. CASE clock.minute + 1 < DayMinutes
    <3>1. clock.minute + 1 \in Minute BY <2>1, <2>2, <2>3 DEF Minute
    <3> QED BY <1>2, <2>3, <3>1 DEF Tick, CalendarTypeOK
  <2>4. CASE ~ (clock.minute + 1 < DayMinutes)
    <3>1. 0 \in Minute BY <2>2 DEF Minute
    <3>2. (clock.day % Days) + 1 \in 1..Days BY <2>1, <2>2
    <3> QED BY <1>2, <2>4, <3>1, <3>2 DEF Tick, CalendarTypeOK
  <2> QED BY <2>3, <2>4
<1> QED BY <1>1, <1>2

\* A schedule within a day holds after its start, up to and with its end.
LEMMA InDay ==
  ASSUME NEW s \in Schedule, NEW now \in [day : 1..Days, minute : Minute], s.start < s.end
  PROVE  is_in(s, now) <=>
           now.day \in s.isoDays /\ s.start < now.minute /\ now.minute <= s.end
<1>1. ~ (s.end < s.start) BY DEF Schedule, Minute
<1>2. timespans(s) = {[start |-> s.start, end |-> s.end]} BY <1>1 DEF timespans
<1> QED BY <1>2 DEF is_in, Within

\* A schedule across midnight holds up to and with its end, and after its start, but
\* never at the first minute of a day.
LEMMA OverNight ==
  ASSUME NEW s \in Schedule, NEW now \in [day : 1..Days, minute : Minute], s.end < s.start
  PROVE  is_in(s, now) <=>
           /\ now.day \in s.isoDays
           /\ (0 < now.minute /\ now.minute <= s.end) \/ s.start < now.minute
<1>1. timespans(s) = {[start |-> 0, end |-> s.end], [start |-> s.start, end |-> DayMinutes]}
  BY DEF timespans
<1>2. now.minute <= DayMinutes BY SchedulesAssumption DEF Minute
<1> QED BY <1>1, <1>2 DEF is_in, Within

\* Of a schedule and its reverse one holds, but for the first minute of a day.
LEMMA ShiftsSplitTheDay == CalendarTypeOK => OneOfTwoShifts
<1> SUFFICES ASSUME CalendarTypeOK, clock.day \in schedule.isoDays
             PROVE  (is_in(schedule, clock) /= is_in(Reversed(schedule), clock)) = (clock.minute # 0)
  BY DEF OneOfTwoShifts
<1> DEFINE r == Reversed(schedule)
<1>1. /\ schedule \in Schedule /\ clock \in [day : 1..Days, minute : Minute]
      /\ schedule.start \in Nat /\ schedule.end \in Nat /\ schedule.start # schedule.end
      /\ clock.minute \in Nat
  BY DEF CalendarTypeOK, Schedule, Minute
<1>2. /\ r \in Schedule /\ r.start = schedule.end /\ r.end = schedule.start
      /\ r.isoDays = schedule.isoDays
  BY <1>1 DEF Reversed, Schedule
<1> HIDE DEF r
<1>3. CASE schedule.start < schedule.end
  <2>1. is_in(schedule, clock) <=> schedule.start < clock.minute /\ clock.minute <= schedule.end
    BY <1>1, <1>3, InDay
  <2>2. is_in(r, clock) <=>
          (0 < clock.minute /\ clock.minute <= schedule.start) \/ schedule.end < clock.minute
    BY <1>1, <1>2, <1>3, OverNight
  <2>3. (is_in(schedule, clock) <=> ~ is_in(r, clock)) <=> clock.minute # 0
    BY <1>1, <1>3, <2>1, <2>2
  <2>4. is_in(schedule, clock) \in BOOLEAN /\ is_in(r, clock) \in BOOLEAN BY DEF is_in
  <2> QED BY <2>3, <2>4 DEF r
<1>4. CASE schedule.end < schedule.start
  <2>1. is_in(r, clock) <=> schedule.end < clock.minute /\ clock.minute <= schedule.start
    BY <1>1, <1>2, <1>4, InDay
  <2>2. is_in(schedule, clock) <=>
          (0 < clock.minute /\ clock.minute <= schedule.end) \/ schedule.start < clock.minute
    BY <1>1, <1>4, OverNight
  <2>3. (is_in(schedule, clock) <=> ~ is_in(r, clock)) <=> clock.minute # 0
    BY <1>1, <1>4, <2>1, <2>2
  <2>4. is_in(schedule, clock) \in BOOLEAN /\ is_in(r, clock) \in BOOLEAN BY DEF is_in
  <2> QED BY <2>3, <2>4 DEF r
<1> QED BY <1>1, <1>3, <1>4

\* For any length of the day, any week and any two shifts that follow each other
\* round the clock, one of them holds at a time (Schedule.is_in), but at midnight.
THEOREM ShiftsShareTheDay == Spec => []OneOfTwoShifts
<1>1. Init => CalendarTypeOK BY CalendarInitType DEF Init
<1>2. CalendarTypeOK /\ [Next]_vars => CalendarTypeOK'
  <2>1. [Next]_vars => [Tick]_calendarVars
    BY DEF Next, AccountsPage, KeysPage, Book, Calendar, vars
  <2> QED BY <2>1, TickType
<1> QED BY <1>1, <1>2, ShiftsSplitTheDay, PTL DEF Spec

----------------------------------------------------------------------------
(* The book                                                                *)

\* The schedules whose count may be relied on.
Watched == Name \ (remade \cup uncounted)

\* A schedule that a rule selects by is there and counted, unless it was created
\* again under its name since the last load, or a rule selected it uncounted.
CountedEnough ==
  \A n \in Watched :
    /\ n \in DOMAIN schedules => schedules[n] \in Nat
    /\ n \in Range(rules) => n \in DOMAIN schedules /\ schedules[n] >= 1

BookInv ==
  /\ rules \in Seq(Name) /\ file.rules \in Seq(Name)
  /\ CountedEnough
  /\ SavedRulesLoad

\* A name that is in a sequence is counted there.
LEMMA ReferencesCount ==
  ASSUME NEW rs \in Seq(Name), NEW n
  PROVE  References(n, rs) \in Nat /\ (n \in Range(rs) => References(n, rs) >= 1)
<1> DEFINE S == {i \in DOMAIN rs : rs[i] = n}
<1>1. DOMAIN rs = 1..Len(rs) /\ Len(rs) \in Nat OBVIOUS
<1>2. IsFiniteSet(DOMAIN rs) BY <1>1, FS_Interval
<1>3. IsFiniteSet(S) BY <1>2, FS_Subset
<1>4. Cardinality(S) \in Nat /\ (Cardinality(S) = 0 <=> S = {})
  BY <1>3, FS_CardinalityType, FS_EmptySet
<1>5. n \in Range(rs) => S # {} BY DEF Range
<1> QED BY <1>4, <1>5 DEF References

\* What the rules of a file make of its schedules counts enough, if they load.
LEMMA CountedLoads ==
  ASSUME NEW names, NEW rs \in Seq(Name)
  PROVE  \A n \in names : /\ n \in DOMAIN Counted(names, rs)
                          /\ Counted(names, rs)[n] \in Nat
                          /\ n \in Range(rs) => Counted(names, rs)[n] >= 1
BY ReferencesCount DEF Counted

\* A save stores a book that loads, or leaves the file.
LEMMA SaveLoads ==
  ASSUME BookInv, rules' \in Seq(Name), CountedEnough',
         Watched' \subseteq Watched,
         Save(DOMAIN schedules', rules')
  PROVE  file'.rules \in Seq(Name) /\ SavedRulesLoad'
<1>1. CASE file' = [schedules |-> DOMAIN schedules', rules |-> rules']
  <2>1. file'.rules = rules' /\ file'.schedules = DOMAIN schedules' BY <1>1
  <2> QED BY <2>1 DEF CountedEnough, SavedRulesLoad, Watched
<1>2. CASE UNCHANGED file BY <1>2 DEF BookInv, SavedRulesLoad, Watched
<1> QED BY <1>1, <1>2 DEF Save

\* create.
LEMMA CreateInv ==
  ASSUME BookInv, NEW n \in Name, create(n)
  PROVE  BookInv'
<1>1. schedules' = Added(n) /\ rules' = rules BY DEF create
<1>2. Watched' \subseteq Watched /\ (n \in Range(rules) => n \notin Watched')
  BY DEF create, Range, Watched
<1>3. CountedEnough'
  <2> SUFFICES ASSUME NEW m \in Watched'
               PROVE  /\ m \in DOMAIN schedules' => schedules'[m] \in Nat
                      /\ m \in Range(rules) => m \in DOMAIN schedules' /\ schedules'[m] >= 1
    BY <1>1 DEF CountedEnough
  <2>1. CASE m = n BY <1>1, <1>2, <2>1 DEF Added
  <2>2. CASE m # n BY <1>1, <1>2, <2>2 DEF Added, BookInv, CountedEnough
  <2> QED BY <2>1, <2>2
<1>4. Save(DOMAIN schedules', rules') BY <1>1 DEF create
<1>5. rules' \in Seq(Name) BY <1>1 DEF BookInv
<1> QED BY <1>2, <1>3, <1>4, <1>5, SaveLoads DEF BookInv

\* delete: a schedule with a rule is counted, and refused.
LEMMA DeleteInv ==
  ASSUME BookInv, NEW n \in Name, delete(n)
  PROVE  BookInv'
<1>1. /\ n \in DOMAIN schedules /\ ~ (schedules[n] >= 1)
      /\ schedules' = [m \in DOMAIN schedules \ {n} |-> schedules[m]]
      /\ rules' = rules /\ Watched' = Watched
  BY DEF delete, is_referenced, Watched
<1>2. n \in Range(rules) => n \notin Watched BY <1>1 DEF BookInv, CountedEnough
<1>3. CountedEnough' BY <1>1, <1>2 DEF BookInv, CountedEnough
<1>4. Save(DOMAIN schedules', rules') BY <1>1 DEF delete
<1>5. rules' \in Seq(Name) BY <1>1 DEF BookInv
<1> QED BY <1>1, <1>3, <1>4, <1>5, SaveLoads DEF BookInv

\* What is counted in the book's own store is counted there, and nothing else changes.
LEMMA SelectedCounts ==
  ASSUME NEW n \in Known, schedules' = Selected(n)
  PROVE  /\ DOMAIN schedules' = DOMAIN schedules
         /\ \A m \in DOMAIN schedules :
              schedules'[m] = IF ~detached /\ m = n THEN schedules[m] + 1 ELSE schedules[m]
         /\ ~detached => n \in DOMAIN schedules
BY DEF Known, Selected

\* A rule that comes to select by n is counted, or n is no longer watched.
LEMMA SelectInv ==
  ASSUME BookInv, NEW n \in Name, Selects(n),
         rules' \in Seq(Name), Range(rules') \subseteq Range(rules) \cup {n}
  PROVE  BookInv'
<1>1. /\ n \in Known /\ schedules' = Selected(n) /\ file' = file /\ remade' = remade
      /\ uncounted' = IF detached /\ ~CountedByBook(n) THEN uncounted \cup {n} ELSE uncounted
  BY DEF Selects
<1>2. Watched' \subseteq Watched BY <1>1 DEF Watched
<1>3. CountedEnough'
  <2> SUFFICES ASSUME NEW m \in Watched'
               PROVE  /\ m \in DOMAIN schedules' => schedules'[m] \in Nat
                      /\ m \in Range(rules') => m \in DOMAIN schedules' /\ schedules'[m] >= 1
    BY DEF CountedEnough
  <2>1. m \in Watched /\ (m \in DOMAIN schedules => schedules[m] \in Nat)
    BY <1>2 DEF BookInv, CountedEnough
  <2>2. CASE m # n BY <1>1, <2>1, <2>2, SelectedCounts DEF BookInv, CountedEnough
  <2>3. CASE m = n /\ ~detached BY <1>1, <2>1, <2>3, SelectedCounts
  <2>4. CASE m = n /\ detached
    <3>1. CountedByBook(n) BY <1>1, <2>4 DEF Watched
    <3> QED BY <1>1, <2>1, <2>4, <3>1, SelectedCounts DEF CountedByBook
  <2> QED BY <2>2, <2>3, <2>4
<1> QED BY <1>1, <1>2, <1>3 DEF BookInv, SavedRulesLoad, Watched

\* What is counted for no rule of the book does no harm.
LEMMA ElsewhereInv ==
  ASSUME BookInv, NEW n \in Name, counted_elsewhere(n)
  PROVE  BookInv'
<1>1. /\ n \in Known /\ schedules' = Selected(n)
      /\ rules' = rules /\ file' = file /\ remade' = remade /\ uncounted' = uncounted
  BY DEF counted_elsewhere
<1>2. CountedEnough'
  BY <1>1, SelectedCounts DEF BookInv, CountedEnough, Watched
<1> QED BY <1>1, <1>2 DEF BookInv, SavedRulesLoad, Watched

\* A new rule counts the schedule it selects by.
LEMMA CreateRuleInv ==
  ASSUME BookInv, NEW n \in Name, create_rule(n)
  PROVE  BookInv'
<1>1. rules \in Seq(Name) /\ rules' = Append(rules, n) BY DEF BookInv, create_rule
<1>2. rules' \in Seq(Name) /\ Range(rules') \subseteq Range(rules) \cup {n} BY <1>1 DEF Range
<1> QED BY <1>2, SelectInv DEF create_rule

\* A rule that is changed counts it too.
LEMMA UpdateRuleInv ==
  ASSUME BookInv, NEW i \in DOMAIN rules, NEW n \in Name, update_rule(i, n)
  PROVE  BookInv'
<1>1. rules \in Seq(Name) /\ rules' = [rules EXCEPT ![i] = n] BY DEF BookInv, update_rule
<1>2. rules' \in Seq(Name) /\ Range(rules') \subseteq Range(rules) \cup {n} BY <1>1 DEF Range
<1> QED BY <1>2, SelectInv DEF update_rule

\* Taking a rule out of the book leaves the others.
LEMMA RemovedRule ==
  ASSUME NEW rs \in Seq(Name), NEW i \in DOMAIN rs
  PROVE  /\ RemoveAt(rs, i) \in Seq(Name) /\ Len(RemoveAt(rs, i)) = Len(rs) - 1
         /\ Range(RemoveAt(rs, i)) \subseteq Range(rs)
<1> DEFINE a == SubSeq(rs, 1, i - 1)
           b == SubSeq(rs, i + 1, Len(rs))
<1>1. DOMAIN rs = 1..Len(rs) /\ Len(rs) \in Nat /\ i \in 1..Len(rs) OBVIOUS
<1>2. /\ a \in Seq(Range(rs)) /\ Len(a) = i - 1
      /\ b \in Seq(Range(rs)) /\ Len(b) = Len(rs) - i
  <2>1. \A j \in DOMAIN rs : rs[j] \in Range(rs) BY DEF Range
  <2>2. 1..(i - 1) \subseteq 1..Len(rs) /\ (i + 1)..Len(rs) \subseteq 1..Len(rs) BY <1>1
  <2>3. \A j \in 1..(i - 1) : rs[j] \in Range(rs) BY <1>1, <2>1, <2>2
  <2>4. \A j \in (i + 1)..Len(rs) : rs[j] \in Range(rs) BY <1>1, <2>1, <2>2
  <2> QED BY <1>1, <2>3, <2>4, SubSeqProperties
<1>3. RemoveAt(rs, i) \in Seq(Range(rs)) /\ Len(RemoveAt(rs, i)) = Len(rs) - 1
  <2>1. RemoveAt(rs, i) = a \o b BY DEF RemoveAt
  <2> HIDE DEF a, b
  <2>2. a \o b \in Seq(Range(rs)) /\ Len(a \o b) = Len(a) + Len(b) BY <1>2, ConcatProperties
  <2> QED BY <1>1, <1>2, <2>1, <2>2
<1> HIDE DEF a, b
<1>4. Range(RemoveAt(rs, i)) \subseteq Range(rs) BY <1>3 DEF Range
<1>5. Range(rs) \subseteq Name BY DEF Range
<1>6. RemoveAt(rs, i) \in Seq(Name)
  <2>1. \A j \in 1..Len(RemoveAt(rs, i)) : RemoveAt(rs, i)[j] \in Name BY <1>3, <1>5
  <2> QED BY <1>3, <2>1
<1> QED BY <1>3, <1>4, <1>6

\* A rule that is deleted stays counted.
LEMMA DeleteRuleInv ==
  ASSUME BookInv, NEW i \in DOMAIN rules, delete_rule(i)
  PROVE  BookInv'
<1>1. /\ rules \in Seq(Name) /\ rules' = RemoveAt(rules, i)
      /\ schedules' = schedules /\ file' = file
      /\ remade' = remade /\ uncounted' = uncounted
  BY DEF BookInv, delete_rule
<1>2. rules' \in Seq(Name) /\ Range(rules') \subseteq Range(rules) BY <1>1, RemovedRule
<1> QED BY <1>1, <1>2 DEF BookInv, CountedEnough, SavedRulesLoad, Watched

\* Saving the rules stores the book as it is.
LEMMA SaveRulesInv ==
  ASSUME BookInv, event_rules_save
  PROVE  BookInv'
<1>1. schedules' = schedules /\ rules' = rules /\ Watched' = Watched
  BY DEF event_rules_save, Watched
<1>2. CountedEnough' /\ rules' \in Seq(Name) BY <1>1 DEF BookInv, CountedEnough
<1>3. Save(DOMAIN schedules', rules') BY <1>1 DEF event_rules_save
<1> QED BY <1>1, <1>2, <1>3, SaveLoads DEF BookInv

\* The rules of a file that was accepted are no more than the book may have, and select
\* by its schedules.
LEMMA ValidLoads ==
  ASSUME NEW doc \in Valid
  PROVE  /\ doc.schedules \subseteq Name
         /\ doc.rules \in Seq(Name) /\ Len(doc.rules) <= MaxRules
         /\ Range(doc.rules) \subseteq doc.schedules
<1>1. PICK names \in SUBSET Name :
        doc \in [schedules : {names}, rules : BoundedSeq(names, MaxRules)]
  BY DEF Valid
<1>2. PICK m \in 0..MaxRules : doc.rules \in [1..m -> names]
  BY <1>1 DEF BoundedSeq, SeqOf
<1>3. m \in Nat /\ m <= MaxRules BY SchedulesAssumption
<1>4. doc.rules \in [1..m -> Name] BY <1>2
<1>5. doc.rules \in Seq(Name) BY <1>3, <1>4, SeqDef
<1>6. Len(doc.rules) = m BY <1>3, <1>4, <1>5, LenProperties
<1> QED BY <1>1, <1>2, <1>3, <1>5, <1>6 DEF Range

\* An upload leaves the book and the file.
LEMMA UploadInv ==
  ASSUME BookInv, NEW names \in SUBSET Name, upload(names)
  PROVE  BookInv'
BY DEF upload, BookInv, CountedEnough, SavedRulesLoad, Watched

\* A file that was accepted loads, and so does the one restored.
LEMMA ActivateInv ==
  ASSUME BookInv, NEW doc \in Valid, activate(doc)
  PROVE  BookInv'
<1>1. /\ file' \in {doc, file} /\ schedules' = schedules /\ rules' = rules
      /\ remade' = remade /\ uncounted' = uncounted
  BY DEF activate
<1>2. file'.rules \in Seq(Name) /\ SavedRulesLoad'
  BY <1>1, ValidLoads DEF BookInv, SavedRulesLoad
<1> QED BY <1>1, <1>2 DEF BookInv, CountedEnough, Watched

\* A reload counts what it loads; one that ends half-way leaves nothing to rely on.
LEMMA ReloadInv ==
  ASSUME BookInv, reload
  PROVE  BookInv'
<1>1. file' = file /\ file.rules \in Seq(Name) BY DEF BookInv, reload
<1>2. CASE Loads
  <2>1. schedules' = Counted(file.schedules, file.rules) /\ rules' = file.rules
    BY <1>2 DEF reload
  <2>2. Range(file.rules) \subseteq file.schedules BY <1>2 DEF Loads, Range
  <2>3. CountedEnough'
    <3>1. DOMAIN schedules' = file.schedules BY <2>1 DEF Counted
    <3> QED BY <1>1, <2>1, <2>2, <3>1, CountedLoads DEF CountedEnough, Watched
  <2>4. SavedRulesLoad' BY <1>1, <2>2 DEF SavedRulesLoad
  <2> QED BY <1>1, <2>1, <2>3, <2>4 DEF BookInv
<1>3. CASE ~ Loads
  <2>1. remade' = Name /\ rules' = rules BY <1>3 DEF reload
  <2> QED BY <1>1, <2>1 DEF BookInv, CountedEnough, SavedRulesLoad, Watched
<1> QED BY <1>2, <1>3

\* What is saved loads again, whatever is created, deleted, edited, saved, uploaded,
\* activated and loaded (Schedule.is_referenced and the counts of SelectSchedule), but
\* for schedules made again under a rule's name or selected while an upload's store is
\* the one looked up.
THEOREM DeletedSchedulesHaveNoRules == Spec => []SavedRulesLoad
<1>1. Init => BookInv
  <2> SUFFICES ASSUME Init PROVE BookInv OBVIOUS
  <2>1. /\ file \in Valid
        /\ schedules = Counted(file.schedules, file.rules) /\ rules = file.rules
    BY DEF Init, BookInit
  <2>2. file.rules \in Seq(Name) /\ Range(file.rules) \subseteq file.schedules
    BY <2>1, ValidLoads
  <2>3. DOMAIN schedules = file.schedules BY <2>1 DEF Counted
  <2>4. CountedEnough BY <2>1, <2>2, <2>3, CountedLoads DEF CountedEnough, Watched
  <2> QED BY <2>1, <2>2, <2>4 DEF BookInv, SavedRulesLoad
<1>2. BookInv /\ [Next]_vars => BookInv'
  <2> SUFFICES ASSUME BookInv, [Next]_vars PROVE BookInv' OBVIOUS
  <2>1. CASE UNCHANGED bookVars
    BY <2>1 DEF bookVars, BookInv, CountedEnough, SavedRulesLoad, Watched
  <2>2. CASE BookNext
    BY <2>2, CreateInv, DeleteInv, CreateRuleInv, UpdateRuleInv, ElsewhereInv, DeleteRuleInv,
       SaveRulesInv, UploadInv, ActivateInv, ReloadInv
    DEF BookNext
  <2> QED BY <2>1, <2>2 DEF Next, AccountsPage, KeysPage, Book, Calendar, vars
<1>3. BookInv => SavedRulesLoad BY DEF BookInv
<1> QED BY <1>1, <1>2, <1>3, PTL DEF Spec

----------------------------------------------------------------------------
(* The accounts                                                            *)

\* The state of a request has these fields.
IsRecord(q) ==
  q = [op |-> q.op, user |-> q.user, view |-> q.view, step |-> q.step, todo |-> q.todo,
       answer |-> q.answer]

\* A record with one of its fields set.
LEMMA FieldSet ==
  ASSUME NEW q, IsRecord(q), NEW x
  PROVE  /\ [q EXCEPT !.step = x] = [op |-> q.op, user |-> q.user, view |-> q.view, step |-> x,
                                     todo |-> q.todo, answer |-> q.answer]
         /\ [q EXCEPT !.todo = x] = [op |-> q.op, user |-> q.user, view |-> q.view,
                                     step |-> q.step, todo |-> x, answer |-> q.answer]
         /\ [q EXCEPT !.answer = x] = [op |-> q.op, user |-> q.user, view |-> q.view,
                                       step |-> q.step, todo |-> q.todo, answer |-> x]
BY DEF IsRecord

\* What a request between its calls relies on: its view is one of its user, if it is
\* still there; the removal of an account has been noted as a disturbance.
Own(r) ==
  LET q == requests[r] IN
  /\ IsRecord(q)
  /\ q.op \in Operation
  /\ q.op = "none" <=> q.step \in {"idle", "done"}
  /\ q.op # "none" => q.user \in User
  /\ q.op = "user::create" => q.step = "create" \/ (q.step = "token" /\ q.todo = {})
  /\ q.op = "user::delete" => q.step = "remove" /\ q.user \in disturbed
  /\ q.op = "view::delete" => q.step = "deleteOne"
  /\ q.op = "view::set_default" => q.step = "set"
  /\ q.op = "apikey::create" => q.step = "save"
  /\ q.op \in {"view::delete", "view::set_default"} =>
       /\ q.view \in 1..made
       /\ q.view \in DOMAIN views => views[q.view].user = q.user

OneDefault(u) == \E v : Defaults(u) = {v}

\* The default of u while request r on its views is between its calls.
Between(u, r) ==
  LET q == requests[r] IN
  /\ q.op = "user::create" =>
       /\ q.answer = "none"
       /\ DefaultView \in q.todo => Defaults(u) = {}
       /\ DefaultView \notin q.todo => OneDefault(u)
  /\ q.op = "view::delete" => OneDefault(u) /\ q.view \notin Defaults(u)
  /\ q.op = "view::set_default" => Defaults(u) = {}

\* An account that was not disturbed has one request at most, and its default is one
\* or as that request left it.
Good(u) ==
  u \in users \ disturbed =>
    /\ \A r, s \in Underway(u) : r = s
    /\ Underway(u) = {} => OneDefault(u)
    /\ \A r \in Underway(u) : Between(u, r)

ViewsOK ==
  /\ made \in Nat /\ DOMAIN views \subseteq 1..made
  /\ \A v \in DOMAIN views : views[v] \in View

AccountsInv ==
  /\ users \subseteq User /\ ViewsOK
  /\ DOMAIN requests = Request
  /\ \A r \in Request : Own(r)
  /\ \A u \in User : Good(u)

\* The invariant gives the property.
LEMMA GoodIsOne == AccountsInv => OneDefaultView
<1> SUFFICES ASSUME AccountsInv, NEW u \in users, u \notin disturbed, Underway(u) = {}
             PROVE  Cardinality(Defaults(u)) = 1
  BY DEF OneDefaultView
<1>1. PICK v : Defaults(u) = {v} BY DEF AccountsInv, Good, OneDefault
<1> QED BY <1>1, FS_Singleton

\* Accounts start with one default each.
LEMMA AccountsInitInv == AccountsInit => AccountsInv
<1> SUFFICES ASSUME AccountsInit PROVE AccountsInv OBVIOUS
<1>1. users \subseteq User /\ disturbed = {} BY DEF AccountsInit
<1>2. made \in Nat
  <2>1. Cardinality(users) \in Nat BY <1>1, AccountsAssumption, FS_Subset, FS_CardinalityType
  <2>2. Cardinality(InitialView) \in Nat BY AccountsAssumption, FS_CardinalityType
  <2>3. made = Cardinality(users) * Cardinality(InitialView) BY DEF AccountsInit
  <2> QED BY <2>1, <2>2, <2>3
<1>3. PICK owner \in [1..made -> users], default \in [users -> 1..made] :
        /\ \A u \in users :
             /\ Cardinality({v \in 1..made : owner[v] = u}) = Cardinality(InitialView)
             /\ owner[default[u]] = u
        /\ views = [v \in 1..made |-> [user |-> owner[v], default |-> default[owner[v]] = v]]
  BY ZenonT(60) DEF AccountsInit
<1>4. \A v \in 1..made : /\ views[v].user = owner[v]
                         /\ views[v].default <=> default[owner[v]] = v
                         /\ views[v] \in View
  BY <1>1, <1>3 DEF View
<1>5. ViewsOK BY <1>2, <1>3, <1>4 DEF ViewsOK
<1>6. DOMAIN requests = Request /\ \A r \in Request : requests[r] = Idle BY DEF AccountsInit
<1>7. /\ IsRecord(Idle)
      /\ Idle.op = "none" /\ Idle.step = "idle"
  BY DEF Idle, IsRecord
<1>8. \A r \in Request : Own(r) BY <1>6, <1>7 DEF Own, Operation
<1>9. ASSUME NEW u \in users PROVE Underway(u) = {} /\ OneDefault(u)
  <2>1. default[u] \in 1..made /\ owner[default[u]] = u BY <1>3
  <2>2. DOMAIN views = 1..made BY <1>3
  <2>3. Defaults(u) = {default[u]} BY <1>4, <2>1, <2>2 DEF Defaults, Views
  <2> QED BY <1>6, <1>7, <2>3 DEF Underway, OneDefault
<1>10. \A u \in User : Good(u) BY <1>9 DEF Good
<1> QED BY <1>1, <1>5, <1>6, <1>8, <1>10 DEF AccountsInv

\* What every step does to the views and the disturbances: new views have new ids, and
\* none changes hands.
ViewsStep ==
  /\ made <= made' /\ disturbed \subseteq disturbed'
  /\ \A v \in DOMAIN views' \cap 1..made : v \in DOMAIN views /\ views'[v].user = views[v].user

\* Request r goes on to q, and the others stay where they are.
Moves(r, q) == requests' = [requests EXCEPT ![r] = q]

\* Where a request goes on to.
LEMMA MovesTo ==
  ASSUME AccountsInv, NEW r \in Request, NEW q, Moves(r, q)
  PROVE  /\ DOMAIN requests' = Request /\ requests'[r] = q
         /\ \A s \in Request \ {r} : requests'[s] = requests[s]
BY DEF AccountsInv, Moves

\* The requests that a step leaves alone go on relying on what they relied on.
LEMMA OthersOwn ==
  ASSUME AccountsInv, ViewsOK', ViewsStep, NEW r \in Request, NEW q, Moves(r, q)
  PROVE  \A s \in Request \ {r} : Own(s)'
<1> SUFFICES ASSUME NEW s \in Request \ {r} PROVE Own(s)' OBVIOUS
<1>1. requests'[s] = requests[s] /\ Own(s) BY MovesTo DEF AccountsInv
<1>2. made \in Nat /\ made' \in Nat BY DEF AccountsInv, ViewsOK
<1>3. requests[s].op \in {"view::delete", "view::set_default"} =>
        /\ requests[s].view \in 1..made'
        /\ requests[s].view \in DOMAIN views' => views'[requests[s].view].user = requests[s].user
  BY <1>1, <1>2 DEF Own, ViewsStep
<1>4. disturbed \subseteq disturbed' BY DEF ViewsStep
<1> QED BY <1>1, <1>3, <1>4 DEF Own

\* An account that request r is not about is as good as it was.
LEMMA OthersGood ==
  ASSUME AccountsInv, NEW r \in Request, NEW q, Moves(r, q), NEW w \in User,
         w \in users' \ disturbed' => w \in users \ disturbed,
         Defaults(w)' = Defaults(w),
         r \notin Underway(w), r \notin Underway(w)'
  PROVE  Good(w)'
<1>1. \A s \in Request \ {r} : requests'[s] = requests[s] BY MovesTo
<1>2. Underway(w)' = Underway(w) BY <1>1 DEF Underway
<1>3. \A s \in Underway(w) : s \in Request \ {r} BY DEF Underway
<1>4. Good(w) BY DEF AccountsInv
<1>5. \A s \in Underway(w) : Between(w, s) => Between(w, s)'
  BY <1>1, <1>3 DEF Between, OneDefault
<1> QED BY <1>2, <1>4, <1>5 DEF Good, OneDefault

\* A request that answers has no more calls to make.
LEMMA AnswersMoves ==
  ASSUME AccountsInv, NEW r \in Request, NEW a, Answers(r, a)
  PROVE  \E q : /\ Moves(r, q) /\ q.op = "none" /\ q.step = "done"
                /\ \A u : r \notin Underway(u)'
                /\ ViewsOK' => Own(r)'
<1> DEFINE q == [Idle EXCEPT !.step = "done", !.answer = a]
<1>1. IsRecord(q) /\ q.op = "none" /\ q.step = "done"
  <2> DEFINE p == [Idle EXCEPT !.step = "done"]
  <2>1. IsRecord(Idle) /\ Idle.op = "none" BY DEF Idle, IsRecord
  <2>2. /\ p = [op |-> Idle.op, user |-> Idle.user, view |-> Idle.view, step |-> "done",
                todo |-> Idle.todo, answer |-> Idle.answer]
    BY <2>1, FieldSet
  <2>3. IsRecord(p) /\ p.op = "none" /\ p.step = "done" BY <2>1, <2>2 DEF IsRecord
  <2>4. q = [p EXCEPT !.answer = a] OBVIOUS
  <2> HIDE DEF p, q
  <2>5. q = [op |-> p.op, user |-> p.user, view |-> p.view, step |-> p.step, todo |-> p.todo,
             answer |-> a]
    BY <2>3, <2>4, FieldSet
  <2> QED BY <2>3, <2>5 DEF IsRecord
<1>2. Moves(r, q) BY DEF Answers, Moves
<1> HIDE DEF q
<1>3. requests'[r] = q BY <1>2, MovesTo
<1>4. \A u : r \notin Underway(u)' BY <1>1, <1>3 DEF Underway
<1>5. Own(r)' BY <1>1, <1>3 DEF Own, Operation
<1> QED BY <1>1, <1>2, <1>4, <1>5

\* A request that goes on to its next call.
LEMMA GoesMoves ==
  ASSUME AccountsInv, NEW r \in Request, NEW op, NEW u, NEW v, NEW step, NEW todo,
         Goes(r, op, u, v, step, todo)
  PROVE  \E q : /\ Moves(r, q) /\ requests'[r] = q
                /\ IsRecord(q)
                /\ q.op = op /\ q.user = u /\ q.view = v /\ q.step = step /\ q.todo = todo
                /\ q.answer = "none"
<1> DEFINE q == [op |-> op, user |-> u, view |-> v, step |-> step, todo |-> todo,
                 answer |-> "none"]
<1>1. Moves(r, q) BY DEF Goes, Moves
<1>2. requests'[r] = q BY <1>1, MovesTo
<1>3. IsRecord(q) BY DEF IsRecord
<1> QED BY <1>1, <1>2, <1>3

\* The invariant after a step of request r about account u, from what it does to r and
\* to u.
LEMMA StepInv ==
  ASSUME AccountsInv, NEW r \in Request, NEW q, Moves(r, q), NEW u \in User,
         users' \subseteq User, ViewsOK', ViewsStep,
         users' \ {u} \subseteq users,
         \A w \in User \ {u} : /\ Defaults(w)' = Defaults(w)
                               /\ r \notin Underway(w) /\ r \notin Underway(w)',
         Own(r)', Good(u)'
  PROVE  AccountsInv'
<1>1. \A s \in Request : Own(s)' BY OthersOwn
<1>2. ASSUME NEW w \in User \ {u} PROVE Good(w)'
  <2>1. w \in users' \ disturbed' => w \in users \ disturbed BY <1>2 DEF ViewsStep
  <2> QED BY <2>1, OthersGood
<1>3. DOMAIN requests' = Request BY MovesTo
<1> QED BY <1>1, <1>2, <1>3 DEF AccountsInv

\* The invariant after a step that leaves the defaults alone, of a request that neither
\* was nor is between calls on views.
LEMMA QuietInv ==
  ASSUME AccountsInv, NEW r \in Request, NEW q, Moves(r, q),
         users' \subseteq User, ViewsOK', ViewsStep,
         users' \ disturbed' \subseteq users,
         \A w \in User : /\ Defaults(w)' = Defaults(w)
                         /\ r \notin Underway(w) /\ r \notin Underway(w)',
         Own(r)'
  PROVE  AccountsInv'
<1>1. \A s \in Request : Own(s)' BY OthersOwn
<1>2. ASSUME NEW w \in User PROVE Good(w)'
  <2>1. w \in users' \ disturbed' => w \in users \ disturbed BY DEF ViewsStep
  <2> QED BY <2>1, OthersGood
<1>3. DOMAIN requests' = Request BY MovesTo
<1> QED BY <1>1, <1>2, <1>3 DEF AccountsInv

\* The views stay as they are.
LEMMA SameViews ==
  ASSUME AccountsInv, views' = views, made' = made, disturbed \subseteq disturbed'
  PROVE  ViewsOK' /\ ViewsStep /\ \A w : Defaults(w)' = Defaults(w) /\ Views(w)' = Views(w)
<1>1. made \in Nat BY DEF AccountsInv, ViewsOK
<1> QED BY <1>1 DEF AccountsInv, ViewsOK, ViewsStep, Defaults, Views

\* A view is added for u.
LEMMA InsertedViews ==
  ASSUME AccountsInv, NEW u \in User, NEW d \in BOOLEAN,
         views' = Inserted(u, d), made' = made + 1, disturbed' = disturbed
  PROVE  /\ ViewsOK' /\ ViewsStep
         /\ \A w \in User \ {u} : Defaults(w)' = Defaults(w)
         /\ Defaults(u)' = IF d THEN Defaults(u) \cup {made + 1} ELSE Defaults(u)
<1>1. made \in Nat /\ DOMAIN views \subseteq 1..made /\ \A v \in DOMAIN views : views[v] \in View
  BY DEF AccountsInv, ViewsOK
<1>2. made + 1 \notin DOMAIN views BY <1>1
<1>3. /\ DOMAIN views' = DOMAIN views \cup {made + 1}
      /\ views'[made + 1] = [user |-> u, default |-> d]
      /\ \A v \in DOMAIN views : views'[v] = views[v]
  BY <1>2 DEF Inserted
<1>4. [user |-> u, default |-> d] \in View BY DEF View
<1>5. ViewsOK' BY <1>1, <1>3, <1>4 DEF ViewsOK
<1>6. ViewsStep BY <1>1, <1>3 DEF ViewsStep
<1>7. \A w \in User \ {u} : Defaults(w)' = Defaults(w) BY <1>2, <1>3 DEF Defaults, Views
<1>8. Defaults(u)' = IF d THEN Defaults(u) \cup {made + 1} ELSE Defaults(u)
  BY <1>2, <1>3 DEF Defaults, Views
<1> QED BY <1>5, <1>6, <1>7, <1>8

\* Views are removed.
LEMMA RemovedViews ==
  ASSUME AccountsInv, NEW vs, views' = Removed(vs), made' = made, disturbed' = disturbed
  PROVE  /\ ViewsOK' /\ ViewsStep
         /\ \A w : Defaults(w)' = Defaults(w) \ vs
<1>1. made \in Nat BY DEF AccountsInv, ViewsOK
<1>2. DOMAIN views' = DOMAIN views \ vs /\ \A v \in DOMAIN views \ vs : views'[v] = views[v]
  BY DEF Removed
<1>3. ViewsOK' /\ ViewsStep BY <1>1, <1>2 DEF AccountsInv, ViewsOK, ViewsStep
<1> QED BY <1>2, <1>3 DEF Defaults, Views

\* An idle request, or one that saves a key, is on no views.
LEMMA IdleIsOnNone ==
  ASSUME AccountsInv, NEW r \in Request, at(r, "idle") \/ at(r, "save")
  PROVE  requests[r].op \in {"none", "apikey::create"} /\ \A u : r \notin Underway(u)
<1>1. Own(r) BY DEF AccountsInv
<1>2. requests[r].op \in {"none", "apikey::create"} BY <1>1 DEF Own, at, Operation
<1> QED BY <1>2 DEF Underway

----------------------------------------------------------------------------
(* One lemma for each request *)

\* A new account has no views, or is disturbed.
LEMMA RegisterInv ==
  ASSUME AccountsInv, NEW r \in Request, NEW u \in User, Register(r, u)
  PROVE  AccountsInv'
<1>1. \A w : r \notin Underway(w) BY IdleIsOnNone DEF Register
<1>2. views' = views /\ made' = made BY DEF Register
<1>3. CASE u \in users
  <2>1. Answers(r, "error") /\ users' = users /\ disturbed' = disturbed BY <1>3 DEF Register
  <2>2. users \subseteq User BY DEF AccountsInv
  <2> QED BY <1>1, <1>2, <2>1, <2>2, AnswersMoves, SameViews, QuietInv
<1>4. CASE u \notin users
  <2>1. /\ users' = users \cup {u}
        /\ Goes(r, "user::create", u, 0, "create", InitialView)
        /\ IF Views(u) # {} THEN Disturbs(u) ELSE Overlaps(u)
    BY <1>4 DEF Register
  <2>2. PICK q : /\ Moves(r, q) /\ requests'[r] = q
                 /\ IsRecord(q)
                 /\ q.op = "user::create" /\ q.user = u /\ q.step = "create"
                 /\ q.todo = InitialView /\ q.answer = "none"
    BY <2>1, GoesMoves
  <2>3. disturbed \subseteq disturbed' BY <2>1 DEF Disturbs, Overlaps
  <2>4. ViewsOK' /\ ViewsStep /\ \A w : Defaults(w)' = Defaults(w) BY <1>2, <2>3, SameViews
  <2>5. Own(r)' BY <2>2 DEF Own, Operation
  <2>6. \A w \in User \ {u} : r \notin Underway(w)' BY <2>2 DEF Underway
  <2>7. Good(u)'
    <3>1. CASE u \in disturbed' BY <3>1 DEF Good
    <3>2. CASE u \notin disturbed'
      <4>1. Views(u) = {} /\ Underway(u) = {} BY <2>1, <3>2 DEF Disturbs, Overlaps
      <4>2. Underway(u)' = {r}
        <5>1. \A s \in Request \ {r} : requests'[s] = requests[s] BY <2>2, MovesTo
        <5> QED BY <2>2, <4>1, <5>1 DEF Underway
      <4>3. Defaults(u)' = {} BY <2>4, <4>1 DEF Defaults
      <4>4. DefaultView \in InitialView BY AccountsAssumption
      <4>5. Between(u, r)' BY <2>2, <4>3, <4>4 DEF Between
      <4> QED BY <4>2, <4>5 DEF Good
    <3> QED BY <3>1, <3>2
  <2>8. users' \subseteq User /\ users' \ {u} \subseteq users BY <2>1 DEF AccountsInv
  <2> QED BY <1>1, <2>2, <2>4, <2>5, <2>6, <2>7, <2>8, StepInv
<1> QED BY <1>3, <1>4

\* The default is the view of that name, and none before it is made.
LEMMA CreateInitialInv ==
  ASSUME AccountsInv, NEW r \in Request, NEW name \in InitialView, NEW succeeds \in BOOLEAN,
         CreateInitial(r, name, succeeds)
  PROVE  AccountsInv'
<1> DEFINE q == requests[r]
           left == q.todo \ {name}
           d == name = DefaultView
<1>1. q.op = "user::create" /\ name \in q.todo /\ users' = users BY DEF CreateInitial
<1>2. Own(r) BY DEF AccountsInv
<1>3. PICK u \in User : u = q.user BY <1>1, <1>2 DEF Own
<1>4. r \in Underway(u) /\ \A w \in User \ {u} : r \notin Underway(w) BY <1>1, <1>3 DEF Underway
<1>5. u \in users \ disturbed =>
        /\ Underway(u) = {r} /\ q.answer = "none"
        /\ DefaultView \in q.todo => Defaults(u) = {}
        /\ DefaultView \notin q.todo => OneDefault(u)
  BY <1>1, <1>4 DEF AccountsInv, Good, Between
<1>6. /\ ViewsOK' /\ ViewsStep
      /\ \A w \in User \ {u} : Defaults(w)' = Defaults(w)
      /\ ~ succeeds => u \in disturbed'
      /\ succeeds => Defaults(u)' = IF d THEN Defaults(u) \cup {made + 1} ELSE Defaults(u)
  <2>1. CASE succeeds
    <3>1. d \in BOOLEAN OBVIOUS
    <3>2. views' = Inserted(u, d) /\ made' = made + 1 /\ disturbed' = disturbed
      BY <1>3, <2>1 DEF CreateInitial
    <3> HIDE DEF d
    <3> QED BY <2>1, <3>1, <3>2, InsertedViews
  <2>2. CASE ~ succeeds
    <3>1. views' = views /\ made' = made /\ disturbed' = disturbed \cup {u}
      BY <1>3, <2>2 DEF CreateInitial, Disturbs
    <3> QED BY <2>2, <3>1, SameViews
  <2> QED BY <2>1, <2>2
<1>7. users' \subseteq User /\ users' \ {u} \subseteq users BY <1>1 DEF AccountsInv
<1>8. CASE left = {} /\ (~ succeeds \/ q.answer = "error")
  <2>1. Answers(r, "error") BY <1>8 DEF CreateInitial
  <2>2. PICK p : Moves(r, p) /\ (\A w : r \notin Underway(w)') /\ Own(r)'
    BY <1>6, <2>1, AnswersMoves
  <2>3. u \notin users \ disturbed' BY <1>5, <1>6, <1>8 DEF ViewsStep
  <2>4. Good(u)' BY <1>1, <2>3 DEF Good
  <2> QED BY <1>4, <1>6, <1>7, <2>2, <2>4, StepInv
<1>9. CASE ~ (left = {} /\ (~ succeeds \/ q.answer = "error"))
  <2> DEFINE answer == IF succeeds THEN q.answer ELSE "error"
             step == IF left = {} THEN "token" ELSE q.step
  <2>1. PICK p : /\ Moves(r, p)
                 /\ IsRecord(p)
                 /\ p.op = "user::create" /\ p.user = u /\ p.todo = left
                 /\ p.answer = answer /\ p.step = step
    <3> DEFINE p == [op |-> q.op, user |-> q.user, view |-> q.view, step |-> step,
                     todo |-> left, answer |-> answer]
    <3>1. requests' = [requests EXCEPT ![r].todo = left, ![r].answer = answer, ![r].step = step]
      BY <1>9 DEF CreateInitial
    <3>2. IsRecord(q)
      BY <1>2 DEF Own
    <3> HIDE DEF answer, left, step
    <3>3. [q EXCEPT !.todo = left, !.answer = answer, !.step = step] = p
      <4> DEFINE a == [q EXCEPT !.todo = left]
                 b == [a EXCEPT !.answer = answer]
                 c == [b EXCEPT !.step = step]
      <4>1. a = [op |-> q.op, user |-> q.user, view |-> q.view, step |-> q.step, todo |-> left,
                 answer |-> q.answer]
        BY <3>2, FieldSet
      <4>2. IsRecord(a) BY <4>1 DEF IsRecord
      <4>3. b = [op |-> a.op, user |-> a.user, view |-> a.view, step |-> a.step,
                 todo |-> a.todo, answer |-> answer]
        <5> HIDE DEF a
        <5> QED BY <4>2, FieldSet
      <4>4. IsRecord(b) BY <4>3 DEF IsRecord
      <4>5. c = [op |-> b.op, user |-> b.user, view |-> b.view, step |-> step,
                 todo |-> b.todo, answer |-> b.answer]
        <5> HIDE DEF b
        <5> QED BY <4>4, FieldSet
      <4>6. [q EXCEPT !.todo = left, !.answer = answer, !.step = step] = c OBVIOUS
      <4> HIDE DEF a, b, c, q
      <4> QED BY <4>1, <4>3, <4>5, <4>6
    <3>4. requests' = [requests EXCEPT ![r] = p] BY <3>1, <3>3 DEF AccountsInv
    <3>5. Moves(r, p) BY <3>4 DEF Moves
    <3>6. IsRecord(p) BY DEF IsRecord
    <3> QED BY <1>1, <1>3, <3>5, <3>6
  <2>2. requests'[r] = p /\ \A s \in Request \ {r} : requests'[s] = requests[s]
    BY <2>1, MovesTo
  <2>3. Own(r)' BY <1>1, <1>2, <1>3, <2>1, <2>2 DEF Own
  <2>4. \A w \in User \ {u} : r \notin Underway(w)' BY <2>1, <2>2 DEF Underway
  <2>5. Good(u)'
    <3> SUFFICES ASSUME u \in users \ disturbed' PROVE Good(u)' BY <1>1 DEF Good
    <3>1. u \in users \ disturbed /\ succeeds BY <1>6 DEF ViewsStep
    <3>2. Underway(u)' = {r} BY <1>5, <2>1, <2>2, <3>1 DEF Underway
    <3>3. p.answer = "none" BY <1>5, <2>1, <3>1
    <3>4. DefaultView \in left => Defaults(u)' = {} BY <1>5, <1>6, <3>1
    <3>5. DefaultView \notin left => OneDefault(u)'
      <4>1. CASE d
        <5>1. Defaults(u)' = {made + 1} BY <1>1, <1>5, <1>6, <3>1, <4>1
        <5> QED BY <5>1 DEF OneDefault
      <4>2. CASE ~ d
        <5>1. Defaults(u)' = Defaults(u) BY <1>6, <3>1, <4>2
        <5> QED BY <1>5, <3>1, <4>2, <5>1 DEF OneDefault
      <4> QED BY <4>1, <4>2
    <3>6. Between(u, r)' BY <2>1, <2>2, <3>3, <3>4, <3>5 DEF Between
    <3> QED BY <3>2, <3>6 DEF Good
  <2> QED BY <1>4, <1>6, <1>7, <2>1, <2>3, <2>4, <2>5, StepInv
<1> QED BY <1>8, <1>9

\* A request that answers and was on the views of u is on none: if its user is as good
\* as Between says without it, so is the account.
LEMMA AnswersGood ==
  ASSUME AccountsInv, NEW r \in Request, NEW a, Answers(r, a), NEW u \in User,
         r \in Underway(u), users' \subseteq User, users' \ {u} \subseteq users,
         ViewsOK', ViewsStep,
         \A w \in User \ {u} : Defaults(w)' = Defaults(w),
         u \in users' \ disturbed' =>
           u \in users \ disturbed /\ (Underway(u) = {r} /\ Between(u, r) => OneDefault(u)')
  PROVE  AccountsInv'
<1>1. PICK q : Moves(r, q) /\ (\A w : r \notin Underway(w)') /\ Own(r)' BY AnswersMoves
<1>2. \A w \in User \ {u} : r \notin Underway(w) BY DEF Underway
<1>3. Good(u)'
  <2> SUFFICES ASSUME u \in users' \ disturbed'
               PROVE  Underway(u)' = {} /\ OneDefault(u)'
    BY DEF Good
  <2>1. Underway(u) = {r} /\ Between(u, r) BY DEF AccountsInv, Good
  <2>2. \A s \in Request \ {r} : requests'[s] = requests[s] BY <1>1, MovesTo
  <2>3. Underway(u)' = {} BY <1>1, <2>1, <2>2 DEF Underway
  <2> QED BY <2>1, <2>3
<1> QED BY <1>1, <1>2, <1>3, StepInv

\* A request between its calls is on the views of its user.
LEMMA OnItsViews ==
  ASSUME AccountsInv, NEW r \in Request, requests[r].op \notin {"none", "apikey::create"}
  PROVE  requests[r].user \in User /\ r \in Underway(requests[r].user)
<1>1. Own(r) BY DEF AccountsInv
<1> QED BY <1>1 DEF Own, Underway

\* What step a request between its calls is at tells its operation.
LEMMA StepTells ==
  ASSUME AccountsInv, NEW r \in Request
  PROVE  /\ at(r, "token") => requests[r].op = "user::create" /\ requests[r].todo = {}
         /\ at(r, "remove") => requests[r].op = "user::delete" /\ requests[r].user \in disturbed
         /\ at(r, "deleteOne") => requests[r].op = "view::delete"
         /\ at(r, "set") => requests[r].op = "view::set_default"
         /\ at(r, "save") => requests[r].op = "apikey::create"
<1>1. Own(r) BY DEF AccountsInv
<1> QED BY <1>1 DEF Own, Operation, at

\* An account gets its token when its views are made.
LEMMA GenerateTokenInv ==
  ASSUME AccountsInv, NEW r \in Request, GenerateToken(r)
  PROVE  AccountsInv'
<1>1. requests[r].op = "user::create" /\ requests[r].todo = {} BY StepTells DEF GenerateToken
<1>2. PICK u \in User : u = requests[r].user /\ r \in Underway(u) BY <1>1, OnItsViews
<1>3. PICK a : Answers(r, a) BY DEF GenerateToken
<1>4. users' = users /\ views' = views /\ made' = made /\ disturbed' = disturbed
  BY DEF GenerateToken
<1>5. ViewsOK' /\ ViewsStep /\ \A w : Defaults(w)' = Defaults(w) BY <1>4, SameViews
<1>6. Between(u, r) => OneDefault(u)' BY <1>1, <1>5 DEF Between, OneDefault
<1> QED BY <1>2, <1>3, <1>4, <1>5, <1>6, AnswersGood DEF AccountsInv

\* A renamed account is disturbed.
LEMMA UpdateInv ==
  ASSUME AccountsInv, NEW r \in Request, NEW u \in User, NEW name \in User, Update(r, u, name)
  PROVE  AccountsInv'
<1>1. \A w : r \notin Underway(w) BY IdleIsOnNone DEF Update
<1>2. views' = views /\ made' = made /\ disturbed \subseteq disturbed' BY DEF Update
<1>3. users' \subseteq User /\ users' \ disturbed' \subseteq users BY DEF Update, AccountsInv
<1>4. PICK a : Answers(r, a) BY DEF Update
<1>5. ViewsOK' /\ ViewsStep /\ \A w : Defaults(w)' = Defaults(w) BY <1>2, SameViews
<1> QED BY <1>1, <1>3, <1>4, <1>5, AnswersMoves, QuietInv

\* A removed account is disturbed.
LEMMA DeleteUserInv ==
  ASSUME AccountsInv, NEW r \in Request, NEW u \in User, DeleteUser(r, u)
  PROVE  AccountsInv'
<1>1. \A w : r \notin Underway(w) BY IdleIsOnNone DEF DeleteUser
<1>2. /\ users' = users /\ views' = views /\ made' = made
      /\ disturbed' = disturbed \cup {u}
      /\ Goes(r, "user::delete", u, 0, "remove", {"user", "views", "apikeys"})
  BY DEF DeleteUser, Disturbs
<1>3. PICK q : /\ Moves(r, q) /\ requests'[r] = q
               /\ IsRecord(q)
               /\ q.op = "user::delete" /\ q.user = u /\ q.step = "remove"
  BY <1>2, GoesMoves
<1>4. ViewsOK' /\ ViewsStep /\ \A w : Defaults(w)' = Defaults(w) BY <1>2, SameViews
<1>5. Own(r)' BY <1>2, <1>3 DEF Own, Operation
<1>6. \A w \in User \ {u} : r \notin Underway(w)' BY <1>3 DEF Underway
<1>7. Good(u)' BY <1>2 DEF Good
<1>8. users' \subseteq User /\ users' \ {u} \subseteq users BY <1>2 DEF AccountsInv
<1> QED BY <1>1, <1>3, <1>4, <1>5, <1>6, <1>7, <1>8, StepInv

\* What is removed is of the account.
LEMMA DeleteOfInv ==
  ASSUME AccountsInv, NEW r \in Request, NEW part, DeleteOf(r, part)
  PROVE  AccountsInv'
<1> DEFINE q == requests[r]
           left == q.todo \ {part}
<1>1. q.op = "user::delete" /\ q.user \in disturbed BY StepTells DEF DeleteOf
<1>2. PICK u \in User : u = q.user /\ r \in Underway(u) BY <1>1, OnItsViews
<1>3. /\ users' \subseteq users /\ made' = made /\ disturbed' = disturbed
  BY DEF DeleteOf
<1>4. ViewsOK' /\ ViewsStep /\ \A w \in User \ {u} : Defaults(w)' = Defaults(w)
  <2>1. CASE part = "views" /\ Views(u) # {}
    <3>1. PICK v \in Views(u) : views' = Removed({v}) BY <1>2, <2>1 DEF DeleteOf
    <3>2. \A w \in User \ {u} : v \notin Defaults(w) BY DEF Defaults, Views
    <3>3. ViewsOK' /\ ViewsStep /\ \A w : Defaults(w)' = Defaults(w) \ {v}
      BY <1>3, <3>1, RemovedViews
    <3> QED BY <3>2, <3>3
  <2>2. CASE ~ (part = "views" /\ Views(u) # {})
    <3>1. views' = views BY <1>2, <2>2 DEF DeleteOf
    <3> QED BY <1>3, <3>1, SameViews
  <2> QED BY <2>1, <2>2
<1>5. u \notin users' \ disturbed' BY <1>1, <1>2, <1>3
<1>6. users' \subseteq User /\ users' \ {u} \subseteq users BY <1>3 DEF AccountsInv
<1>7. CASE left = {}
  <2>1. Answers(r, "ok") BY <1>7 DEF DeleteOf
  <2> QED BY <1>2, <1>4, <1>5, <1>6, <2>1, AnswersGood
<1>8. CASE left # {}
  <2> DEFINE p == [q EXCEPT !.todo = left]
  <2>1. Own(r) BY DEF AccountsInv
  <2>2. Moves(r, p)
    <3>1. requests' = [requests EXCEPT ![r].todo = left] BY <1>8 DEF DeleteOf
    <3> QED BY <3>1 DEF AccountsInv, Moves
  <2>3. p = [op |-> q.op, user |-> q.user, view |-> q.view, step |-> q.step, todo |-> left,
             answer |-> q.answer]
    BY <2>1, FieldSet DEF Own
  <2>4. IsRecord(p) /\ p.op = q.op /\ p.user = q.user /\ p.step = q.step BY <2>3 DEF IsRecord
  <2> HIDE DEF p
  <2>5. requests'[r] = p BY <2>2, MovesTo
  <2>6. Own(r)' BY <1>1, <1>3, <2>1, <2>4, <2>5 DEF Own
  <2>7. Good(u)' BY <1>5 DEF Good
  <2>8. \A w \in User \ {u} : r \notin Underway(w) /\ r \notin Underway(w)'
    BY <1>2, <2>4, <2>5 DEF Underway
  <2> QED BY <1>4, <1>6, <2>2, <2>6, <2>7, <2>8, StepInv
<1> QED BY <1>7, <1>8

\* A view is made that is not the default.
LEMMA CreateViewInv ==
  ASSUME AccountsInv, NEW r \in Request, NEW u \in User, CreateView(r, u)
  PROVE  AccountsInv'
<1>1. \A w : r \notin Underway(w) BY IdleIsOnNone DEF CreateView
<1>2. /\ views' = Inserted(u, FALSE) /\ made' = made + 1 /\ disturbed' = disturbed
      /\ users' = users /\ Answers(r, "ok")
  BY DEF CreateView
<1>3. ViewsOK' /\ ViewsStep /\ \A w \in User : Defaults(w)' = Defaults(w)
  BY <1>2, InsertedViews
<1> QED BY <1>1, <1>2, <1>3, AnswersMoves, QuietInv DEF AccountsInv

\* Requests that begin on the views of u while there are none.
LEMMA BeginsAlone ==
  ASSUME AccountsInv, NEW r \in Request, NEW q, Moves(r, q), NEW u \in User,
         Overlaps(u), u \notin disturbed', requests'[r].user = u,
         requests'[r].op \notin {"none", "apikey::create"}
  PROVE  Underway(u) = {} /\ Underway(u)' = {r} /\ u \notin disturbed
<1>1. Underway(u) = {} /\ u \notin disturbed BY DEF Overlaps, Disturbs
<1>2. \A s \in Request \ {r} : requests'[s] = requests[s] BY MovesTo
<1> QED BY <1>1, <1>2 DEF Underway

\* A view that may be deleted is not the default.
LEMMA DeleteViewInv ==
  ASSUME AccountsInv, NEW r \in Request, NEW u \in User, NEW v \in 1..made, DeleteView(r, u, v)
  PROVE  AccountsInv'
<1>1. \A w : r \notin Underway(w) BY IdleIsOnNone DEF DeleteView
<1>2. views' = views /\ made' = made /\ users' = users /\ Shown(u, v) BY DEF DeleteView
<1>3. disturbed \subseteq disturbed' BY DEF DeleteView, Overlaps, Disturbs
<1>4. ViewsOK' /\ ViewsStep /\ \A w : Defaults(w)' = Defaults(w) BY <1>2, <1>3, SameViews
<1>5. users' \subseteq User BY <1>2 DEF AccountsInv
<1>6. CASE Refused(v)
  <2>1. Answers(r, "error") BY <1>6 DEF DeleteView
  <2> QED BY <1>1, <1>2, <1>4, <1>5, <2>1, AnswersMoves, QuietInv
<1>7. CASE ~ Refused(v)
  <2>1. Goes(r, "view::delete", u, v, "deleteOne", {}) /\ Overlaps(u) BY <1>7 DEF DeleteView
  <2>2. PICK q : /\ Moves(r, q) /\ requests'[r] = q
                 /\ IsRecord(q)
                 /\ q.op = "view::delete" /\ q.user = u /\ q.view = v /\ q.step = "deleteOne"
    BY <2>1, GoesMoves
  <2>3. Own(r)' BY <1>2, <2>2 DEF Own, Operation, Shown
  <2>4. \A w \in User \ {u} : r \notin Underway(w)' BY <2>2 DEF Underway
  <2>5. Good(u)'
    <3> SUFFICES ASSUME u \in users, u \notin disturbed' PROVE Good(u)' BY <1>2 DEF Good
    <3>1. Underway(u) = {} /\ Underway(u)' = {r} /\ u \notin disturbed
      BY <2>1, <2>2, BeginsAlone
    <3>2. OneDefault(u)' BY <1>4, <3>1 DEF AccountsInv, Good, OneDefault
    <3>3. v \notin Defaults(u)' BY <1>4, <1>7 DEF Defaults, Views, Refused
    <3>4. Between(u, r)' BY <2>2, <3>2, <3>3 DEF Between
    <3> QED BY <3>1, <3>4 DEF Good
  <2> QED BY <1>1, <1>2, <1>4, <1>5, <2>2, <2>3, <2>4, <2>5, StepInv
<1> QED BY <1>6, <1>7

\* The view that goes is not the default.
LEMMA DeleteOneInv ==
  ASSUME AccountsInv, NEW r \in Request, DeleteOne(r)
  PROVE  AccountsInv'
<1>1. requests[r].op = "view::delete" BY StepTells DEF DeleteOne
<1>2. PICK u \in User : u = requests[r].user /\ r \in Underway(u) BY <1>1, OnItsViews
<1> DEFINE v == requests[r].view
<1>3. /\ views' = Removed({v}) /\ users' = users /\ made' = made /\ disturbed' = disturbed
      /\ Answers(r, "ok")
  BY DEF DeleteOne
<1>4. ViewsOK' /\ ViewsStep /\ \A w : Defaults(w)' = Defaults(w) \ {v} BY <1>3, RemovedViews
<1>5. \A w \in User \ {u} : v \notin Defaults(w)
  <2>1. v \in DOMAIN views => views[v].user = u BY <1>1, <1>2 DEF AccountsInv, Own
  <2> QED BY <2>1 DEF Defaults, Views
<1>6. Between(u, r) => OneDefault(u)' BY <1>1, <1>4 DEF Between, OneDefault
<1> QED BY <1>2, <1>3, <1>4, <1>5, <1>6, AnswersGood DEF AccountsInv

\* A user has no default between the two writes of set_default.
LEMMA UnsetDefaultInv ==
  ASSUME AccountsInv, NEW r \in Request, NEW u \in User, NEW v \in 1..made, UnsetDefault(r, u, v)
  PROVE  AccountsInv'
<1>1. \A w : r \notin Underway(w) BY IdleIsOnNone DEF UnsetDefault
<1>2. /\ views' = [w \in DOMAIN views |->
           IF w \in Defaults(u) THEN [views[w] EXCEPT !.default = FALSE] ELSE views[w]]
      /\ made' = made /\ users' = users /\ Shown(u, v)
      /\ Goes(r, "view::set_default", u, v, "set", {}) /\ Overlaps(u)
  BY DEF UnsetDefault, Unset
<1>3. disturbed \subseteq disturbed' BY <1>2 DEF Overlaps, Disturbs
<1>4. /\ DOMAIN views' = DOMAIN views
      /\ \A w \in DOMAIN views : views'[w] \in View /\ views'[w].user = views[w].user
      /\ \A w \in Defaults(u) : ~ views'[w].default
      /\ \A w \in DOMAIN views \ Defaults(u) : views'[w] = views[w]
  BY <1>2 DEF AccountsInv, ViewsOK, View, Defaults, Views
<1>5. ViewsOK' /\ ViewsStep BY <1>2, <1>3, <1>4 DEF AccountsInv, ViewsOK, ViewsStep
<1>6. Defaults(u)' = {} BY <1>4 DEF Defaults, Views
<1>7. \A w \in User \ {u} : Defaults(w)' = Defaults(w) BY <1>4 DEF Defaults, Views
<1>8. PICK q : /\ Moves(r, q) /\ requests'[r] = q
               /\ IsRecord(q)
               /\ q.op = "view::set_default" /\ q.user = u /\ q.view = v /\ q.step = "set"
  BY <1>2, GoesMoves
<1>9. Own(r)' BY <1>2, <1>4, <1>8 DEF Own, Operation, Shown
<1>10. \A w \in User \ {u} : r \notin Underway(w)' BY <1>8 DEF Underway
<1>11. Good(u)'
  <2> SUFFICES ASSUME u \in users, u \notin disturbed' PROVE Good(u)' BY <1>2 DEF Good
  <2>1. Underway(u)' = {r} BY <1>2, <1>8, BeginsAlone
  <2>2. Between(u, r)' BY <1>6, <1>8 DEF Between
  <2> QED BY <2>1, <2>2 DEF Good
<1> QED BY <1>1, <1>2, <1>5, <1>7, <1>8, <1>9, <1>10, <1>11, StepInv DEF AccountsInv

\* The view that is set is then the only default.
LEMMA SetDefaultInv ==
  ASSUME AccountsInv, NEW r \in Request, SetDefault(r)
  PROVE  AccountsInv'
<1>1. requests[r].op = "view::set_default" BY StepTells DEF SetDefault
<1>2. PICK u \in User : u = requests[r].user /\ r \in Underway(u) BY <1>1, OnItsViews
<1> DEFINE v == requests[r].view
<1>3. users' = users /\ made' = made BY DEF SetDefault
<1>4. users' \subseteq User BY <1>3 DEF AccountsInv
<1>5. CASE v \in DOMAIN views
  <2>1. views' = [views EXCEPT ![v].default = TRUE] /\ Answers(r, "ok") /\ disturbed' = disturbed
    BY <1>5 DEF SetDefault
  <2>2. views[v] \in View /\ views[v].user = u
    BY <1>1, <1>2, <1>5 DEF AccountsInv, Own, ViewsOK
  <2>3. /\ DOMAIN views' = DOMAIN views
        /\ views'[v] \in View /\ views'[v].user = u /\ views'[v].default
        /\ \A w \in DOMAIN views \ {v} : views'[w] = views[w]
    BY <1>5, <2>1, <2>2 DEF View
  <2> HIDE DEF v
  <2>4. ViewsOK' /\ ViewsStep
    <3>1. made \in Nat /\ made <= made' BY <1>3 DEF AccountsInv, ViewsOK
    <3>2. \A w \in DOMAIN views : views'[w] \in View /\ views'[w].user = views[w].user
      BY <2>2, <2>3 DEF AccountsInv, ViewsOK
    <3>3. ViewsOK' BY <1>3, <2>3, <3>2 DEF AccountsInv, ViewsOK
    <3> QED BY <2>1, <2>3, <3>1, <3>2, <3>3 DEF ViewsStep
  <2>5. \A w \in User \ {u} : Defaults(w)' = Defaults(w) BY <2>2, <2>3 DEF Defaults, Views
  <2>6. Between(u, r) => OneDefault(u)'
    <3>1. Defaults(u)' = Defaults(u) \cup {v} BY <1>5, <2>2, <2>3 DEF Defaults, Views
    <3> QED BY <1>1, <3>1 DEF Between, OneDefault
  <2> QED BY <1>2, <1>3, <1>4, <2>1, <2>4, <2>5, <2>6, AnswersGood
<1>6. CASE v \notin DOMAIN views
  <2>1. views' = views /\ Answers(r, "error") /\ disturbed' = disturbed \cup {u}
    BY <1>2, <1>6 DEF SetDefault, Disturbs
  <2>2. ViewsOK' /\ ViewsStep /\ \A w : Defaults(w)' = Defaults(w) BY <1>3, <2>1, SameViews
  <2> QED BY <1>2, <1>3, <1>4, <2>1, <2>2, AnswersGood
<1> QED BY <1>5, <1>6

\* Requests about API keys touch no views.
LEMMA KeysInv ==
  ASSUME AccountsInv, NEW r \in Request, KeyRequests(r)
  PROVE  AccountsInv'
<1>1. \A w : r \notin Underway(w) BY IdleIsOnNone DEF KeyRequests, CountKeys, SaveKey, DeleteKey
<1>2. users' = users /\ views' = views /\ made' = made /\ disturbed' = disturbed
  BY DEF KeyRequests, CountKeys, SaveKey, DeleteKey
<1>3. ViewsOK' /\ ViewsStep /\ \A w : Defaults(w)' = Defaults(w) BY <1>2, SameViews
<1>4. CASE \E a : Answers(r, a)
  BY <1>1, <1>2, <1>3, <1>4, AnswersMoves, QuietInv DEF AccountsInv
<1>5. ASSUME NEW u \in User, Goes(r, "apikey::create", u, 0, "save", {}) PROVE AccountsInv'
  <2>1. PICK q : /\ Moves(r, q) /\ requests'[r] = q
                 /\ IsRecord(q)
                 /\ q.op = "apikey::create" /\ q.user = u /\ q.step = "save"
    BY <1>5, GoesMoves
  <2>2. Own(r)' BY <2>1 DEF Own, Operation
  <2>3. \A w : r \notin Underway(w)' BY <2>1 DEF Underway
  <2> QED BY <1>1, <1>2, <1>3, <2>1, <2>2, <2>3, QuietInv DEF AccountsInv
<1> QED BY <1>4, <1>5 DEF KeyRequests, CountKeys, SaveKey, DeleteKey

\* A failure disturbs when it is that of the second write of set_default.
LEMMA CallFailsInv ==
  ASSUME AccountsInv, NEW r \in Request, CallFails(r)
  PROVE  AccountsInv'
<1>1. users' = users /\ views' = views /\ made' = made /\ Answers(r, "error") BY DEF CallFails
<1>2. disturbed \subseteq disturbed' BY DEF CallFails, Disturbs
<1>3. ViewsOK' /\ ViewsStep /\ \A w : Defaults(w)' = Defaults(w) BY <1>1, <1>2, SameViews
<1>4. CASE at(r, "save")
  <2>1. \A w : r \notin Underway(w) BY <1>4, IdleIsOnNone
  <2> QED BY <1>1, <1>3, <2>1, AnswersMoves, QuietInv DEF AccountsInv
<1>5. CASE ~ at(r, "save")
  <2>1. at(r, "token") \/ at(r, "deleteOne") \/ at(r, "set") BY <1>5 DEF CallFails, at
  <2>2. /\ at(r, "token") => requests[r].op = "user::create" /\ requests[r].todo = {}
        /\ at(r, "deleteOne") => requests[r].op = "view::delete"
        /\ at(r, "set") => requests[r].op = "view::set_default"
    BY StepTells
  <2>3. PICK u \in User : u = requests[r].user /\ r \in Underway(u) BY <2>1, <2>2, OnItsViews
  <2>4. CASE at(r, "set")
    <3>1. u \in disturbed' BY <2>3, <2>4 DEF CallFails, Disturbs
    <3> QED BY <1>1, <1>3, <2>3, <3>1, AnswersGood DEF AccountsInv
  <2>5. CASE ~ at(r, "set")
    <3>1. disturbed' = disturbed BY <2>5 DEF CallFails
    <3>2. Between(u, r) => OneDefault(u) BY <2>1, <2>2, <2>5 DEF Between
    <3>3. Between(u, r) => OneDefault(u)' BY <1>3, <3>2 DEF OneDefault
    <3> QED BY <1>1, <1>3, <2>3, <3>1, <3>3, AnswersGood DEF AccountsInv
  <2> QED BY <2>4, <2>5
<1> QED BY <1>4, <1>5

\* The invariant of the accounts holds.
LEMMA AccountsInvariant == Spec => []AccountsInv
<1>1. Init => AccountsInv BY AccountsInitInv DEF Init
<1>2. AccountsInv /\ [Next]_vars => AccountsInv'
  <2> SUFFICES ASSUME AccountsInv, [Next]_vars PROVE AccountsInv' OBVIOUS
  <2>1. CASE UNCHANGED accountVars
    <3>1. /\ users' = users /\ views' = views /\ made' = made /\ requests' = requests
          /\ disturbed' = disturbed
      BY <2>1 DEF accountVars
    <3>2. ViewsOK' /\ \A w : Underway(w)' = Underway(w) /\ Defaults(w)' = Defaults(w)
      BY <3>1 DEF AccountsInv, ViewsOK, Underway, Defaults, Views
    <3>3. \A r \in Request : Own(r)' BY <3>1 DEF AccountsInv, Own
    <3>4. \A u \in User : Good(u)' BY <3>1, <3>2 DEF AccountsInv, Good, Between, OneDefault
    <3> QED BY <3>1, <3>2, <3>3, <3>4 DEF AccountsInv
  <2>2. ASSUME NEW r \in Request, UserRequests(r) PROVE AccountsInv'
    <3>1. CASE \E u \in User : Register(r, u) \/ DeleteUser(r, u) \/ \E name \in User : Update(r, u, name)
      BY <3>1, RegisterInv, DeleteUserInv, UpdateInv
    <3>2. CASE \E name \in InitialView, succeeds \in BOOLEAN : CreateInitial(r, name, succeeds)
      BY <3>2, CreateInitialInv
    <3>3. CASE GenerateToken(r) BY <3>3, GenerateTokenInv
    <3>4. CASE \E part \in {"user", "views", "apikeys"} : DeleteOf(r, part) BY <3>4, DeleteOfInv
    <3> QED BY <2>2, <3>1, <3>2, <3>3, <3>4 DEF UserRequests
  <2>3. ASSUME NEW r \in Request, ViewRequests(r) PROVE AccountsInv'
    BY <2>3, CreateViewInv, DeleteViewInv, UnsetDefaultInv, DeleteOneInv, SetDefaultInv
    DEF ViewRequests
  <2> QED BY <2>1, <2>2, <2>3, KeysInv, CallFailsInv
    DEF Next, AccountsPage, KeysPage, Book, Calendar, vars
<1> QED BY <1>1, <1>2, PTL DEF Spec

\* A user has one default view, whatever is asked, one request after the other, for any
\* numbers of users, initial views and requests (setup_initial_views, set_default,
\* view::delete).
THEOREM DefaultsStaySingle == Spec => []OneDefaultView
BY AccountsInvariant, GoodIsOne, PTL

----------------------------------------------------------------------------
(* The limit on API keys                                                   *)

\* The keys of all users are finitely many.
LEMMA KeysFinite ==
  ASSUME NEW c \in [User -> Nat]
  PROVE  IsFiniteSet(Keys(c)) /\ Cardinality(Keys(c)) \in Nat
<1> DEFINE columns == {{u} \X (1..c[u]) : u \in User}
           f == [u \in User |-> {u} \X (1..c[u])]
<1>1. f \in Surjection(User, columns) BY DEF Surjection
<1>2. IsFiniteSet(columns) BY <1>1, AccountsAssumption, FS_Surjection
<1>3. \A u \in User : IsFiniteSet({u} \X (1..c[u]))
  <2> SUFFICES ASSUME NEW u \in User PROVE IsFiniteSet({u} \X (1..c[u])) OBVIOUS
  <2> DEFINE n == c[u]
             g == [k \in 1..n |-> <<u, k>>]
  <2>1. IsFiniteSet(1..n)
    <3>1. n \in Nat OBVIOUS
    <3> HIDE DEF n
    <3> QED BY <3>1, FS_Interval
  <2> HIDE DEF n
  <2>2. g \in Surjection(1..n, {u} \X (1..n)) BY DEF Surjection
  <2>3. IsFiniteSet({u} \X (1..n)) BY <2>1, <2>2, FS_Surjection
  <2> QED BY <2>3 DEF n
<1>4. \A T \in columns : IsFiniteSet(T) BY <1>3
<1> HIDE DEF columns
<1>5. IsFiniteSet(UNION columns) BY <1>2, <1>4, FS_UNION
<1> QED BY <1>5, FS_CardinalityType DEF Keys, columns

\* A key more of one user is a key more.
LEMMA KeyAdded ==
  ASSUME NEW c \in [User -> Nat], NEW u \in User
  PROVE  Cardinality(Keys([c EXCEPT ![u] = @ + 1])) = Cardinality(Keys(c)) + 1
<1> DEFINE d == [c EXCEPT ![u] = @ + 1]
           new == <<u, c[u] + 1>>
<1>1. Keys(d) = Keys(c) \cup {new}
  <2>1. \A w \in User : d[w] = IF w = u THEN c[w] + 1 ELSE c[w] OBVIOUS
  <2>2. \A w \in User : c[w] \in Nat OBVIOUS
  <2> HIDE DEF d
  <2>3. \A w \in User : {w} \X (1..d[w]) = IF w = u THEN ({w} \X (1..c[w])) \cup {new}
                                            ELSE {w} \X (1..c[w])
    <3> SUFFICES ASSUME NEW w \in User
                 PROVE  {w} \X (1..d[w]) = IF w = u THEN ({w} \X (1..c[w])) \cup {new}
                                           ELSE {w} \X (1..c[w])
      OBVIOUS
    <3>1. CASE w = u
      <4>1. 1..d[w] = (1..c[w]) \cup {c[w] + 1} BY <2>1, <2>2, <3>1
      <4> QED BY <3>1, <4>1
    <3>2. CASE w # u BY <2>1, <3>2
    <3> QED BY <3>1, <3>2
  <2> HIDE DEF new
  <2>4. Keys(d) \subseteq Keys(c) \cup {new} BY <2>3 DEF Keys
  <2>5. Keys(c) \cup {new} \subseteq Keys(d) BY <2>3 DEF Keys
  <2> QED BY <2>4, <2>5
<1>2. new \notin Keys(c)
  <2>1. c[u] \in Nat OBVIOUS
  <2>2. c[u] + 1 \notin 1..c[u] BY <2>1
  <2> QED BY <2>2 DEF Keys
<1>3. IsFiniteSet(Keys(c)) BY KeysFinite
<1> HIDE DEF d, new
<1>4. Cardinality(Keys(d)) = Cardinality(Keys(c)) + 1 BY <1>1, <1>2, <1>3, FS_AddElement
<1> QED BY <1>4 DEF d

\* Keys that become fewer are no more.
LEMMA KeysRemoved ==
  ASSUME NEW c \in [User -> Nat], NEW d \in [User -> Nat], \A u \in User : d[u] <= c[u]
  PROVE  Cardinality(Keys(d)) <= Cardinality(Keys(c))
<1>1. \A u \in User : 1..d[u] \subseteq 1..c[u] OBVIOUS
<1>2. Keys(d) \subseteq Keys(c) BY <1>1 DEF Keys
<1> QED BY <1>2, KeysFinite, FS_Subset

\* Requests that have counted the keys and not saved one yet.
Saving == {r \in Request : at(r, "save")}

LimitInv == apikeys \in [User -> Nat] /\ KeysNearLimit

\* How many requests there are.
LEMMA SavingFinite ==
  /\ Cardinality(Request) \in Nat \ {0}
  /\ \A S \in SUBSET Request : IsFiniteSet(S) /\ Cardinality(S) \in Nat
                               /\ Cardinality(S) <= Cardinality(Request)
<1>1. Cardinality(Request) \in Nat \ {0}
  BY AccountsAssumption, FS_CardinalityType, FS_EmptySet
<1>2. \A S \in SUBSET Request : IsFiniteSet(S) /\ Cardinality(S) \in Nat
                                /\ Cardinality(S) <= Cardinality(Request)
  BY AccountsAssumption, FS_Subset, FS_CardinalityType
<1> QED BY <1>1, <1>2

\* A step after which no more requests are to save a key, and no user has more keys.
LEMMA LimitKept ==
  ASSUME LimitInv, Saving' \subseteq Saving, apikeys' \in [User -> Nat],
         \A u \in User : apikeys'[u] <= apikeys[u]
  PROVE  LimitInv'
<1> DEFINE k == Cardinality(Keys(apikeys))
           l == Cardinality(Keys(apikeys'))
           s == Cardinality(Saving)
           t == Cardinality(Saving')
           n == Cardinality(Request)
<1>1. l <= k /\ k \in Nat /\ l \in Nat BY KeysFinite, KeysRemoved DEF LimitInv
<1>2. Saving \in SUBSET Request BY DEF Saving
<1>3. t <= s /\ s \in Nat /\ t \in Nat BY <1>2, SavingFinite, FS_Subset
<1>4. k + s <= apikey_limit + (n - 1) BY DEF LimitInv, KeysNearLimit, ApiKeys, Saving
<1>5. n \in Nat /\ apikey_limit \in Nat BY SavingFinite, AccountsAssumption
<1> HIDE DEF k, l, s, t, n
<1>6. l + t <= apikey_limit + (n - 1) BY <1>1, <1>3, <1>4, <1>5
<1> QED BY <1>6 DEF LimitInv, KeysNearLimit, ApiKeys, Saving, l, t, n

\* A request that goes on to another call than saving a key, or to none.
LEMMA NoneToSave ==
  ASSUME AccountsInv, NEW r \in Request, NEW q, Moves(r, q), q.step # "save"
  PROVE  Saving' = Saving \ {r}
<1>1. \A s \in Request \ {r} : at(s, "save")' <=> at(s, "save") BY MovesTo DEF at
<1>2. ~ at(r, "save")' BY MovesTo DEF at
<1> QED BY <1>1, <1>2 DEF Saving

\* The same of its answer and of its next call.
LEMMA AnsweredNotSaving ==
  ASSUME AccountsInv, NEW r \in Request, NEW a, Answers(r, a)
  PROVE  Saving' = Saving \ {r}
<1>1. PICK q : Moves(r, q) /\ q.step = "done" BY AnswersMoves
<1> QED BY <1>1, NoneToSave

LEMMA GoesNotSaving ==
  ASSUME AccountsInv, NEW r \in Request, NEW op, NEW u, NEW v, NEW step, NEW todo,
         Goes(r, op, u, v, step, todo), step # "save"
  PROVE  Saving' = Saving \ {r}
<1>1. PICK q : Moves(r, q) /\ q.step = step BY GoesMoves
<1> QED BY <1>1, NoneToSave

\* Requests about users only take keys away.
LEMMA UserRequestsLimit ==
  ASSUME AccountsInv, LimitInv, NEW r \in Request, UserRequests(r)
  PROVE  LimitInv'
<1>1. CASE UNCHANGED apikeys /\ \E a : Answers(r, a)
  <2>1. Saving' \subseteq Saving BY <1>1, AnsweredNotSaving
  <2> QED BY <1>1, <2>1, LimitKept DEF LimitInv
<1>2. CASE UNCHANGED apikeys /\ \E op, u, v, step, todo : Goes(r, op, u, v, step, todo) /\ step # "save"
  <2>1. Saving' \subseteq Saving BY <1>2, GoesNotSaving
  <2> QED BY <1>2, <2>1, LimitKept DEF LimitInv
<1>3. ASSUME NEW u \in User, Register(r, u) \/ DeleteUser(r, u) \/ \E name \in User : Update(r, u, name)
      PROVE  LimitInv'
  <2>1. CASE Register(r, u)
    <3>1. UNCHANGED apikeys /\ (Answers(r, "error") \/ Goes(r, "user::create", u, 0, "create", InitialView))
      BY <2>1 DEF Register
    <3> QED BY <1>1, <1>2, <3>1
  <2>2. CASE DeleteUser(r, u)
    <3>1. UNCHANGED apikeys /\ Goes(r, "user::delete", u, 0, "remove", {"user", "views", "apikeys"})
      BY <2>2 DEF DeleteUser
    <3> QED BY <1>2, <3>1
  <2>3. CASE \E name \in User : Update(r, u, name) BY <1>1, <2>3 DEF Update
  <2> QED BY <1>3, <2>1, <2>2, <2>3
<1>4. ASSUME NEW q, Moves(r, q), q.step \in {requests[r].step, "token"}
      PROVE  Saving' \subseteq Saving
  <2>1. \A s \in Request \ {r} : at(s, "save")' <=> at(s, "save") BY <1>4, MovesTo DEF at
  <2>2. at(r, "save")' => at(r, "save") BY <1>4, MovesTo DEF at
  <2> QED BY <2>1, <2>2 DEF Saving
<1>5. ASSUME NEW name \in InitialView, NEW succeeds \in BOOLEAN, CreateInitial(r, name, succeeds)
      PROVE  LimitInv'
  <2> DEFINE left == requests[r].todo \ {name}
  <2>1. UNCHANGED apikeys BY <1>5 DEF CreateInitial
  <2>2. \/ Answers(r, "error")
        \/ requests' = [requests EXCEPT
              ![r].todo = left,
              ![r].answer = IF succeeds THEN @ ELSE "error",
              ![r].step = IF left = {} THEN "token" ELSE @]
    BY <1>5 DEF CreateInitial
  <2>3. CASE Answers(r, "error") BY <1>1, <2>1, <2>3
  <2>4. CASE requests' = [requests EXCEPT
              ![r].todo = left,
              ![r].answer = IF succeeds THEN @ ELSE "error",
              ![r].step = IF left = {} THEN "token" ELSE @]
    <3> DEFINE q == requests[r]
               a == IF succeeds THEN q.answer ELSE "error"
               s == IF left = {} THEN "token" ELSE q.step
               q1 == [q EXCEPT !.todo = left]
               q2 == [q1 EXCEPT !.answer = a]
               q3 == [q2 EXCEPT !.step = s]
    <3>1. Own(r) BY DEF AccountsInv
    <3>2. q1 = [op |-> q.op, user |-> q.user, view |-> q.view, step |-> q.step, todo |-> left,
                answer |-> q.answer]
      BY <3>1, FieldSet DEF Own
    <3>3. IsRecord(q1) /\ q1.step = q.step /\ q1.answer = q.answer BY <3>2 DEF IsRecord
    <3>4. Moves(r, q3)
      BY <2>4, <3>2 DEF AccountsInv, Moves
    <3> HIDE DEF q1
    <3>5. q2 = [op |-> q1.op, user |-> q1.user, view |-> q1.view, step |-> q1.step,
                todo |-> q1.todo, answer |-> a]
      BY <3>3, FieldSet
    <3> HIDE DEF a
    <3>6. IsRecord(q2) BY <3>5 DEF IsRecord
    <3> HIDE DEF q2
    <3>7. q3 = [op |-> q2.op, user |-> q2.user, view |-> q2.view, step |-> s,
                todo |-> q2.todo, answer |-> q2.answer]
      BY <3>6, FieldSet
    <3>8. q3.step \in {q.step, "token"} BY <3>7
    <3> HIDE DEF q3
    <3>9. Saving' \subseteq Saving BY <1>4, <3>4, <3>8
    <3> QED BY <2>1, <3>9, LimitKept DEF LimitInv
  <2> QED BY <2>2, <2>3, <2>4
<1>6. CASE GenerateToken(r) BY <1>1, <1>6 DEF GenerateToken
<1>7. ASSUME NEW part, DeleteOf(r, part) PROVE LimitInv'
  <2> DEFINE q == requests[r]
             left == q.todo \ {part}
  <2>1. q.op = "user::delete" BY <1>7, StepTells DEF DeleteOf
  <2>2. Own(r) /\ q.user \in User BY <2>1 DEF AccountsInv, Own
  <2>3. apikeys' \in [User -> Nat] /\ \A u \in User : apikeys'[u] <= apikeys[u]
    <3>1. apikeys \in [User -> Nat] BY DEF LimitInv
    <3>2. apikeys' = apikeys \/ (apikeys[q.user] > 0 /\ apikeys' = [apikeys EXCEPT ![q.user] = @ - 1])
      BY <1>7 DEF DeleteOf
    <3> QED BY <2>2, <3>1, <3>2
  <2>4. Saving' \subseteq Saving
    <3>1. CASE left = {}
      <4>1. Answers(r, "ok") BY <1>7, <3>1 DEF DeleteOf
      <4> QED BY <4>1, AnsweredNotSaving
    <3>2. CASE left # {}
      <4> DEFINE p == [q EXCEPT !.todo = left]
      <4>1. requests' = [requests EXCEPT ![r].todo = left] BY <1>7, <3>2 DEF DeleteOf
      <4>2. Moves(r, p) BY <4>1 DEF AccountsInv, Moves
      <4>3. p = [op |-> q.op, user |-> q.user, view |-> q.view, step |-> q.step, todo |-> left,
                 answer |-> q.answer]
        BY <2>2, FieldSet DEF Own
      <4>4. p.step = q.step BY <4>3
      <4> HIDE DEF p
      <4> QED BY <1>4, <4>2, <4>4
    <3> QED BY <3>1, <3>2
  <2> QED BY <2>3, <2>4, LimitKept
<1> QED BY <1>3, <1>5, <1>6, <1>7 DEF UserRequests

\* Requests about keys: a key is saved for each request that counted fewer than the limit.
LEMMA KeyRequestsLimit ==
  ASSUME AccountsInv, LimitInv, NEW r \in Request, KeyRequests(r)
  PROVE  LimitInv'
<1> DEFINE k == Cardinality(Keys(apikeys))
           n == Cardinality(Request)
<1>1. apikeys \in [User -> Nat] /\ k \in Nat BY KeysFinite DEF LimitInv
<1>2. n \in Nat \ {0} /\ apikey_limit \in Nat BY SavingFinite, AccountsAssumption
<1>3. ASSUME NEW u \in User, CountKeys(r, u) PROVE LimitInv'
  <2>1. CASE LimitReached
    <3>1. UNCHANGED apikeys /\ Answers(r, "error") BY <1>3, <2>1 DEF CountKeys
    <3>2. Saving' \subseteq Saving BY <3>1, AnsweredNotSaving
    <3> QED BY <3>1, <3>2, LimitKept DEF LimitInv
  <2>2. CASE ~ LimitReached
    <3>1. apikeys' = apikeys BY <1>3 DEF CountKeys
    <3> DEFINE t == Cardinality(Saving')
    <3>2. Saving' \in SUBSET Request BY DEF Saving
    <3>3. t \in Nat /\ t <= n BY <3>2, SavingFinite
    <3>4. k < apikey_limit BY <1>1, <1>2, <2>2 DEF LimitReached, ApiKeys
    <3> HIDE DEF k, n, t
    <3>5. k + t <= apikey_limit + (n - 1) BY <1>1, <1>2, <3>3, <3>4
    <3> QED BY <1>1, <3>1, <3>5 DEF LimitInv, KeysNearLimit, ApiKeys, Saving, k, n, t
  <2> QED BY <2>1, <2>2
<1>4. CASE SaveKey(r)
  <2> DEFINE u == requests[r].user
             s == Cardinality(Saving)
             l == Cardinality(Keys(apikeys'))
             t == Cardinality(Saving')
  <2>1. /\ at(r, "save") /\ Answers(r, "ok")
        /\ apikeys' = [apikeys EXCEPT ![u] = @ + 1]
    BY <1>4 DEF SaveKey
  <2>2. u \in User
    <3>1. Own(r) /\ requests[r].op = "apikey::create" BY <2>1, StepTells DEF AccountsInv
    <3> QED BY <3>1 DEF Own
  <2>3. apikeys' \in [User -> Nat] /\ l = k + 1
    <3> DEFINE more == [apikeys EXCEPT ![u] = @ + 1]
    <3>1. apikeys' = more BY <2>1
    <3>2. Cardinality(Keys(more)) = Cardinality(Keys(apikeys)) + 1 BY <1>1, <2>2, KeyAdded
    <3>3. more \in [User -> Nat] BY <1>1, <2>2
    <3> HIDE DEF more
    <3> QED BY <3>1, <3>2, <3>3
  <2>4. s \in Nat /\ t = s - 1
    <3>1. Saving' = Saving \ {r} /\ r \in Saving BY <2>1, AnsweredNotSaving DEF Saving
    <3>2. IsFiniteSet(Saving) /\ s \in Nat
      <4>1. Saving \in SUBSET Request BY DEF Saving
      <4> QED BY <4>1, SavingFinite
    <3> QED BY <3>1, <3>2, FS_RemoveElement
  <2>5. k + s <= apikey_limit + (n - 1) BY DEF LimitInv, KeysNearLimit, ApiKeys, Saving
  <2> HIDE DEF k, n, s, l, t
  <2>6. l + t <= apikey_limit + (n - 1) BY <1>1, <1>2, <2>3, <2>4, <2>5
  <2> QED BY <2>3, <2>6 DEF LimitInv, KeysNearLimit, ApiKeys, Saving, n, l, t
<1>5. CASE DeleteKey(r)
  <2>1. Answers(r, "ok") BY <1>5 DEF DeleteKey
  <2>2. Saving' \subseteq Saving BY <2>1, AnsweredNotSaving
  <2>3. apikeys' \in [User -> Nat] /\ \A u \in User : apikeys'[u] <= apikeys[u]
    <3>1. \/ apikeys' = apikeys
          \/ \E u \in User : apikeys[u] > 0 /\ apikeys' = [apikeys EXCEPT ![u] = @ - 1]
      BY <1>5 DEF DeleteKey
    <3> QED BY <1>1, <3>1
  <2> QED BY <2>2, <2>3, LimitKept
<1> QED BY <1>3, <1>4, <1>5 DEF KeyRequests

\* Requests about views know nothing of keys.
LEMMA ViewRequestsLimit ==
  ASSUME AccountsInv, LimitInv, NEW r \in Request, ViewRequests(r) \/ CallFails(r)
  PROVE  LimitInv'
<1>1. UNCHANGED apikeys
  BY DEF ViewRequests, CreateView, DeleteView, DeleteOne, UnsetDefault, SetDefault, CallFails
<1>2. \/ \E a : Answers(r, a)
      \/ \E op, u, v, step, todo : Goes(r, op, u, v, step, todo) /\ step # "save"
  <2>1. ASSUME NEW u \in User, NEW v, DeleteView(r, u, v)
        PROVE  Answers(r, "error") \/ Goes(r, "view::delete", u, v, "deleteOne", {})
    BY <2>1 DEF DeleteView
  <2>2. ASSUME NEW u \in User, NEW v, UnsetDefault(r, u, v)
        PROVE  Goes(r, "view::set_default", u, v, "set", {})
    BY <2>2 DEF UnsetDefault
  <2>3. ASSUME NEW u \in User, CreateView(r, u) PROVE Answers(r, "ok") BY <2>3 DEF CreateView
  <2>4. CASE DeleteOne(r) \/ SetDefault(r) \/ CallFails(r)
    BY <2>4 DEF DeleteOne, SetDefault, CallFails
  <2> QED BY <2>1, <2>2, <2>3, <2>4 DEF ViewRequests
<1>3. Saving' \subseteq Saving BY <1>2, AnsweredNotSaving, GoesNotSaving
<1> QED BY <1>1, <1>3, LimitKept DEF LimitInv

\* However many requests count the keys before any of them saves one, they exceed the
\* limit by fewer than there are requests at a time (apikey::create), for any numbers of
\* users, keys and requests.
THEOREM KeysStayNearLimit == Spec => []KeysNearLimit
<1>1. Init => LimitInv
  <2> SUFFICES ASSUME AccountsInit PROVE LimitInv BY DEF Init
  <2>1. apikeys \in [User -> 0..apikey_limit] /\ Cardinality(Keys(apikeys)) <= apikey_limit
    BY DEF AccountsInit
  <2>2. apikeys \in [User -> Nat] BY <2>1, AccountsAssumption
  <2>3. Saving = {}
    <3>1. Idle.step = "idle" BY DEF Idle
    <3> QED BY <3>1 DEF AccountsInit, Saving, at
  <2> DEFINE k == Cardinality(Keys(apikeys))
             n == Cardinality(Request)
  <2>4. k \in Nat /\ k <= apikey_limit /\ n \in Nat \ {0} /\ apikey_limit \in Nat
    BY <2>1, <2>2, KeysFinite, SavingFinite, AccountsAssumption
  <2>5. Cardinality(Saving) = 0 BY <2>3, FS_EmptySet
  <2> HIDE DEF k, n
  <2>6. k + 0 <= apikey_limit + (n - 1) BY <2>4
  <2> QED BY <2>2, <2>5, <2>6 DEF LimitInv, KeysNearLimit, ApiKeys, Saving, k, n
<1>2. AccountsInv /\ LimitInv /\ [Next]_vars => LimitInv'
  <2> SUFFICES ASSUME AccountsInv, LimitInv, [Next]_vars PROVE LimitInv' OBVIOUS
  <2>1. CASE UNCHANGED accountVars
    BY <2>1 DEF accountVars, LimitInv, KeysNearLimit, ApiKeys, at
  <2>2. CASE AccountsPage \/ KeysPage
    BY <2>2, UserRequestsLimit, KeyRequestsLimit, ViewRequestsLimit DEF AccountsPage, KeysPage
  <2> QED BY <2>1, <2>2 DEF Next, Book, Calendar, vars
<1>3. LimitInv => KeysNearLimit BY DEF LimitInv
<1> QED BY <1>1, <1>2, <1>3, AccountsInvariant, PTL DEF Spec
----------------------------------------------------------------------------
(* Types                                                                   *)

\* All that calls are made on at the same time.
Todo == InitialView \cup {"user", "views", "apikeys"}

Step == {"idle", "create", "token", "remove", "deleteOne", "set", "save", "done"}

\* A request that goes on to another call.
LEMMA GoesType ==
  ASSUME AccountsTypeOK, NEW r \in Request, NEW op \in Operation, NEW u \in User,
         NEW v \in 0..MaxViews, NEW step \in Step, NEW todo \in SUBSET Todo,
         Goes(r, op, u, v, step, todo)
  PROVE  requests' \in [Request -> RequestState]
<1> DEFINE q == [op |-> op, user |-> u, view |-> v, step |-> step, todo |-> todo, answer |-> "none"]
<1>1. q \in RequestState BY DEF RequestState, Step, Todo
<1>2. requests' = [requests EXCEPT ![r] = q] BY DEF Goes
<1> HIDE DEF q
<1> QED BY <1>1, <1>2 DEF AccountsTypeOK

\* A request that answers.
LEMMA AnswersType ==
  ASSUME AccountsTypeOK, NEW r \in Request, NEW a \in {"ok", "error"}, Answers(r, a)
  PROVE  requests' \in [Request -> RequestState]
<1> DEFINE q == [Idle EXCEPT !.step = "done", !.answer = a]
<1>1. Idle \in RequestState
  <2>1. (CHOOSE u \in User : TRUE) \in User BY AccountsAssumption
  <2>2. 0 \in 0..MaxViews BY AccountsAssumption
  <2> QED BY <2>1, <2>2, AccountsAssumption DEF Idle, RequestState, Operation
<1>2. q \in RequestState BY <1>1 DEF RequestState
<1>3. requests' = [requests EXCEPT ![r] = q] BY DEF Answers
<1> HIDE DEF q
<1> QED BY <1>2, <1>3 DEF AccountsTypeOK

\* The initial views of all accounts are within the bound.
LEMMA AccountsInitType == AccountsInit => AccountsTypeOK
<1> SUFFICES ASSUME AccountsInit PROVE AccountsTypeOK OBVIOUS
<1>1. AccountsInv BY AccountsInitInv
<1>2. made \in 0..MaxViews
  <2> DEFINE a == Cardinality(users)
             b == Cardinality(User)
             c == Cardinality(InitialView)
  <2>1. a \in Nat /\ b \in Nat /\ c \in Nat /\ a <= b
    BY <1>1, AccountsAssumption, FS_Subset, FS_CardinalityType DEF AccountsInv
  <2>2. made = a * c /\ b * c <= MaxViews BY ViewsFit DEF AccountsInit
  <2>3. MaxViews \in Nat BY AccountsAssumption
  <2> HIDE DEF a, b, c
  <2>4. a * c \in Nat /\ (b - a) * c \in Nat /\ b * c = a * c + (b - a) * c BY <2>1
  <2> QED BY <2>1, <2>2, <2>3, <2>4
<1>3. users \subseteq User /\ disturbed \subseteq User BY DEF AccountsInit
<1>4. apikeys \in [User -> Nat] BY AccountsAssumption DEF AccountsInit
<1>5. requests \in [Request -> RequestState]
  <2>1. (CHOOSE u \in User : TRUE) \in User BY AccountsAssumption
  <2>2. 0 \in 0..MaxViews BY AccountsAssumption
  <2>3. Idle \in RequestState BY <2>1, <2>2 DEF Idle, RequestState, Operation
  <2> QED BY <2>3 DEF AccountsInit
<1> QED BY <1>1, <1>2, <1>3, <1>4, <1>5 DEF AccountsTypeOK, AccountsInv, ViewsOK

\* A view more, for a user.
LEMMA InsertedType ==
  ASSUME AccountsTypeOK, NEW u \in User, NEW d \in BOOLEAN, made < MaxViews,
         views' = Inserted(u, d), made' = made + 1
  PROVE  /\ made' \in 0..MaxViews
         /\ DOMAIN views' \subseteq 1..made' /\ \A v \in DOMAIN views' : views'[v] \in View
<1>1. made \in 0..MaxViews /\ MaxViews \in Nat BY AccountsAssumption DEF AccountsTypeOK
<1>2. DOMAIN views' = DOMAIN views \cup {made + 1} BY DEF Inserted
<1>3. \A v \in DOMAIN views' :
        views'[v] = IF v = made + 1 THEN [user |-> u, default |-> d] ELSE views[v]
  BY DEF Inserted
<1>4. \A v \in DOMAIN views' : views'[v] \in View BY <1>2, <1>3 DEF AccountsTypeOK, View
<1>5. DOMAIN views' \subseteq 1..made' BY <1>1, <1>2 DEF AccountsTypeOK
<1> QED BY <1>1, <1>4, <1>5

LEMMA UserRequestsType ==
  ASSUME AccountsTypeOK, NEW r \in Request, UserRequests(r)
  PROVE  AccountsTypeOK'
<1>1. 0 \in 0..MaxViews BY AccountsAssumption
<1>2. requests[r] \in RequestState BY DEF AccountsTypeOK
<1>3. ASSUME NEW u \in User, Register(r, u) PROVE AccountsTypeOK'
  <2>1. UNCHANGED <<views, made, apikeys>> BY <1>3 DEF Register
  <2>2. requests' \in [Request -> RequestState]
    <3>1. CASE u \in users BY <1>3, <3>1, AnswersType DEF Register
    <3>2. CASE u \notin users
      <4>1. Goes(r, "user::create", u, 0, "create", InitialView) BY <1>3, <3>2 DEF Register
      <4> QED BY <1>1, <4>1, GoesType DEF Operation, Step, Todo
    <3> QED BY <3>1, <3>2
  <2>3. users' \subseteq User /\ disturbed' \subseteq User
    BY <1>3 DEF Register, Disturbs, Overlaps, AccountsTypeOK
  <2> QED BY <2>1, <2>2, <2>3 DEF AccountsTypeOK
<1>4. ASSUME NEW u \in User, DeleteUser(r, u) PROVE AccountsTypeOK'
  <2>1. requests' \in [Request -> RequestState]
    <3>1. Goes(r, "user::delete", u, 0, "remove", {"user", "views", "apikeys"})
      BY <1>4 DEF DeleteUser
    <3> QED BY <1>1, <3>1, GoesType DEF Operation, Step, Todo
  <2> QED BY <1>4, <2>1 DEF DeleteUser, Disturbs, AccountsTypeOK
<1>5. ASSUME NEW u \in User, NEW name \in User, Update(r, u, name) PROVE AccountsTypeOK'
  <2>1. requests' \in [Request -> RequestState] BY <1>5, AnswersType DEF Update
  <2> QED BY <1>5, <2>1 DEF Update, AccountsTypeOK
<1>6. ASSUME NEW name \in InitialView, NEW succeeds \in BOOLEAN, CreateInitial(r, name, succeeds)
      PROVE  AccountsTypeOK'
  <2> DEFINE q == requests[r]
             left == q.todo \ {name}
             d == name = DefaultView
  <2>1. UNCHANGED <<users, apikeys>> /\ q.user \in User /\ q.todo \subseteq Todo /\ made < MaxViews
    BY <1>2, <1>6 DEF CreateInitial, RequestState, Todo
  <2>2. /\ made' \in 0..MaxViews /\ disturbed' \subseteq User
        /\ DOMAIN views' \subseteq 1..made' /\ \A v \in DOMAIN views' : views'[v] \in View
    <3>1. CASE succeeds
      <4>1. d \in BOOLEAN OBVIOUS
      <4>2. views' = Inserted(q.user, d) /\ made' = made + 1 /\ disturbed' = disturbed
        BY <1>6, <3>1 DEF CreateInitial
      <4> HIDE DEF d, q
      <4> QED BY <2>1, <4>1, <4>2, InsertedType DEF AccountsTypeOK
    <3>2. CASE ~ succeeds
      BY <1>6, <2>1, <3>2 DEF CreateInitial, Disturbs, AccountsTypeOK
    <3> QED BY <3>1, <3>2
  <2>3. requests' \in [Request -> RequestState]
    <3>1. CASE left = {} /\ (~ succeeds \/ q.answer = "error")
      BY <1>6, <3>1, AnswersType DEF CreateInitial
    <3>2. CASE ~ (left = {} /\ (~ succeeds \/ q.answer = "error"))
      <4>1. requests' = [requests EXCEPT
              ![r].todo = left,
              ![r].answer = IF succeeds THEN @ ELSE "error",
              ![r].step = IF left = {} THEN "token" ELSE @]
        BY <1>6, <3>2 DEF CreateInitial
      <4>2. \A s \in Request : requests[s] \in RequestState /\ DOMAIN requests = Request
        BY DEF AccountsTypeOK
      <4>3. left \subseteq Todo BY <2>1
      <4> QED BY <1>2, <4>1, <4>2, <4>3 DEF RequestState, Todo
    <3> QED BY <3>1, <3>2
  <2> QED BY <2>1, <2>2, <2>3 DEF AccountsTypeOK
<1>7. CASE GenerateToken(r)
  <2>1. requests' \in [Request -> RequestState] BY <1>7, AnswersType DEF GenerateToken
  <2> QED BY <1>7, <2>1 DEF GenerateToken, AccountsTypeOK
<1>8. ASSUME NEW part \in {"user", "views", "apikeys"}, DeleteOf(r, part) PROVE AccountsTypeOK'
  <2> DEFINE u == requests[r].user
             left == requests[r].todo \ {part}
  <2>1. u \in User /\ requests[r].todo \subseteq Todo BY <1>2 DEF RequestState, Todo
  <2>2. requests' \in [Request -> RequestState]
    <3>1. CASE left = {} BY <1>8, <3>1, AnswersType DEF DeleteOf
    <3>2. CASE left # {}
      <4>1. requests' = [requests EXCEPT ![r].todo = left] BY <1>8, <3>2 DEF DeleteOf
      <4> QED BY <1>2, <2>1, <4>1 DEF AccountsTypeOK, RequestState, Todo
    <3> QED BY <3>1, <3>2
  <2>3. DOMAIN views' \subseteq 1..made /\ \A v \in DOMAIN views' : views'[v] \in View
    BY <1>8 DEF DeleteOf, Removed, AccountsTypeOK
  <2>4. apikeys' \in [User -> Nat]
    <3>1. apikeys \in [User -> Nat] BY DEF AccountsTypeOK
    <3>2. apikeys' = apikeys \/ (apikeys[u] > 0 /\ apikeys' = [apikeys EXCEPT ![u] = @ - 1])
      BY <1>8 DEF DeleteOf
    <3> HIDE DEF u
    <3> QED BY <2>1, <3>1, <3>2
  <2>5. users' \subseteq User /\ UNCHANGED <<made, disturbed>> BY <1>8 DEF DeleteOf, AccountsTypeOK
  <2> QED BY <2>2, <2>3, <2>4, <2>5 DEF AccountsTypeOK
<1> QED BY <1>3, <1>4, <1>5, <1>6, <1>7, <1>8 DEF UserRequests

LEMMA ViewRequestsType ==
  ASSUME AccountsTypeOK, NEW r \in Request, ViewRequests(r)
  PROVE  AccountsTypeOK'
<1>1. requests[r] \in RequestState BY DEF AccountsTypeOK
<1>2. 1..made \subseteq 0..MaxViews BY AccountsAssumption DEF AccountsTypeOK
<1>3. ASSUME NEW u \in User, CreateView(r, u) PROVE AccountsTypeOK'
  <2>1. requests' \in [Request -> RequestState] BY <1>3, AnswersType DEF CreateView
  <2>2. /\ made' \in 0..MaxViews
        /\ DOMAIN views' \subseteq 1..made' /\ \A v \in DOMAIN views' : views'[v] \in View
    BY <1>3, InsertedType DEF CreateView
  <2> QED BY <1>3, <2>1, <2>2 DEF CreateView, AccountsTypeOK
<1>4. ASSUME NEW u \in User, NEW v \in 1..made, DeleteView(r, u, v) PROVE AccountsTypeOK'
  <2>1. requests' \in [Request -> RequestState]
    <3>1. CASE Refused(v) BY <1>4, <3>1, AnswersType DEF DeleteView
    <3>2. CASE ~ Refused(v)
      <4>1. Goes(r, "view::delete", u, v, "deleteOne", {}) BY <1>4, <3>2 DEF DeleteView
      <4> QED BY <1>2, <4>1, GoesType DEF Operation, Step
    <3> QED BY <3>1, <3>2
  <2> QED BY <1>4, <2>1 DEF DeleteView, Overlaps, Disturbs, AccountsTypeOK
<1>5. ASSUME NEW u \in User, NEW v \in 1..made, UnsetDefault(r, u, v) PROVE AccountsTypeOK'
  <2>1. requests' \in [Request -> RequestState]
    <3>1. Goes(r, "view::set_default", u, v, "set", {}) BY <1>5 DEF UnsetDefault
    <3> QED BY <1>2, <3>1, GoesType DEF Operation, Step
  <2>2. DOMAIN views' = DOMAIN views /\ \A w \in DOMAIN views : views'[w] \in View
    BY <1>5 DEF UnsetDefault, AccountsTypeOK, View
  <2> QED BY <1>5, <2>1, <2>2 DEF UnsetDefault, Overlaps, Disturbs, AccountsTypeOK
<1>6. CASE DeleteOne(r)
  <2>1. requests' \in [Request -> RequestState] BY <1>6, AnswersType DEF DeleteOne
  <2> QED BY <1>6, <2>1 DEF DeleteOne, Removed, AccountsTypeOK
<1>7. CASE SetDefault(r)
  <2> DEFINE v == requests[r].view
  <2>1. requests' \in [Request -> RequestState] BY <1>7, AnswersType DEF SetDefault
  <2>2. DOMAIN views' = DOMAIN views /\ \A w \in DOMAIN views : views'[w] \in View
    <3>1. \A w \in DOMAIN views : views[w] \in View BY DEF AccountsTypeOK
    <3>2. CASE v \in DOMAIN views
      <4>1. views' = [views EXCEPT ![v] = [views[v] EXCEPT !.default = TRUE]]
        BY <1>7, <3>2 DEF SetDefault
      <4>2. [views[v] EXCEPT !.default = TRUE] \in View BY <3>1, <3>2 DEF View
      <4> HIDE DEF v
      <4> QED BY <3>1, <4>1, <4>2
    <3>3. CASE v \notin DOMAIN views BY <1>7, <3>1, <3>3 DEF SetDefault
    <3> QED BY <3>2, <3>3
  <2>3. disturbed' \subseteq User BY <1>1, <1>7 DEF SetDefault, Disturbs, AccountsTypeOK, RequestState
  <2> QED BY <1>7, <2>1, <2>2, <2>3 DEF SetDefault, AccountsTypeOK
<1> QED BY <1>3, <1>4, <1>5, <1>6, <1>7 DEF ViewRequests

LEMMA KeyRequestsType ==
  ASSUME AccountsTypeOK, NEW r \in Request, KeyRequests(r) \/ CallFails(r)
  PROVE  AccountsTypeOK'
<1>1. requests[r] \in RequestState BY DEF AccountsTypeOK
<1>2. ASSUME NEW u \in User, CountKeys(r, u) PROVE AccountsTypeOK'
  <2>1. requests' \in [Request -> RequestState]
    <3>1. CASE LimitReached BY <1>2, <3>1, AnswersType DEF CountKeys
    <3>2. CASE ~ LimitReached
      <4>1. Goes(r, "apikey::create", u, 0, "save", {}) BY <1>2, <3>2 DEF CountKeys
      <4>2. 0 \in 0..MaxViews BY AccountsAssumption
      <4> QED BY <4>1, <4>2, GoesType DEF Operation, Step
    <3> QED BY <3>1, <3>2
  <2> QED BY <1>2, <2>1 DEF CountKeys, AccountsTypeOK
<1>3. CASE SaveKey(r)
  <2> DEFINE u == requests[r].user
  <2>1. requests' \in [Request -> RequestState] BY <1>3, AnswersType DEF SaveKey
  <2>2. u \in User /\ apikeys \in [User -> Nat] /\ apikeys' = [apikeys EXCEPT ![u] = @ + 1]
    BY <1>1, <1>3 DEF SaveKey, AccountsTypeOK, RequestState
  <2>3. apikeys' \in [User -> Nat]
    <3> HIDE DEF u
    <3> QED BY <2>2
  <2> QED BY <1>3, <2>1, <2>3 DEF SaveKey, AccountsTypeOK
<1>4. CASE DeleteKey(r)
  <2>1. requests' \in [Request -> RequestState] BY <1>4, AnswersType DEF DeleteKey
  <2>2. apikeys' \in [User -> Nat] BY <1>4 DEF DeleteKey, AccountsTypeOK
  <2> QED BY <1>4, <2>1, <2>2 DEF DeleteKey, AccountsTypeOK
<1>5. CASE CallFails(r)
  <2>1. requests' \in [Request -> RequestState] BY <1>5, AnswersType DEF CallFails
  <2>2. disturbed' \subseteq User BY <1>1, <1>5 DEF CallFails, Disturbs, AccountsTypeOK, RequestState
  <2> QED BY <1>5, <2>1, <2>2 DEF CallFails, AccountsTypeOK
<1> QED BY <1>2, <1>3, <1>4, <1>5 DEF KeyRequests

Less == {ss \in Nat \X Nat : ss[1] < ss[2]}

\* A set of naturals that is not empty has a least one.
LEMMA Least ==
  ASSUME NEW S \in SUBSET Nat, S # {}
  PROVE  \E m \in S : \A n \in S : m <= n
<1>1. IsWellFoundedOn(Less, Nat) BY NatLessThanWellFounded DEF OpToRel, Less
<1>2. PICK m \in S : \A n \in S : <<n, m>> \notin Less BY <1>1, WFMin
<1>3. \A n \in S : ~ (n < m) BY <1>2 DEF Less
<1>4. \A x, y \in Nat : ~ (y < x) => x <= y OBVIOUS
<1> QED BY <1>2, <1>3, <1>4

\* The rules of the file are no more than the book may have: a reload makes them its own.
BookTypeInv == BookTypeOK /\ Len(file.rules) <= MaxRules

FileType ==
  file.schedules \subseteq Name /\ file.rules \in Seq(Name) /\ Len(file.rules) <= MaxRules

\* A book starts as its file.
LEMMA BookInitType == BookInit => BookTypeInv
<1> SUFFICES ASSUME BookInit PROVE BookTypeInv OBVIOUS
<1>1. file \in Valid BY DEF BookInit
<1>2. FileType BY <1>1, ValidLoads DEF FileType
<1>3. \A n \in DOMAIN schedules : n \in Name /\ schedules[n] \in Nat
  BY <1>2, ReferencesCount DEF BookInit, Counted, FileType
<1>4. 0 \in 0..MaxSaves BY SchedulesAssumption
<1> QED BY <1>2, <1>3, <1>4 DEF BookInit, BookTypeOK, BookTypeInv, FileType

\* What edits, saves and reloads make of the book.
LEMMA BookNextType == BookTypeInv /\ BookNext => BookTypeInv'
<1> SUFFICES ASSUME BookTypeInv, BookNext PROVE BookTypeInv' OBVIOUS
<1>1. edits' \in 0..MaxSaves
  <2>1. edits \in 0..MaxSaves /\ MaxSaves \in Nat BY SchedulesAssumption DEF BookTypeInv, BookTypeOK
  <2>2. edits < MaxSaves /\ edits' = edits + 1
    BY DEF BookNext, create, delete, create_rule, update_rule, counted_elsewhere, delete_rule,
           event_rules_save, upload, activate, reload, Edit
  <2> QED BY <2>1, <2>2
<1>2. /\ DOMAIN schedules \subseteq Name /\ \A n \in DOMAIN schedules : schedules[n] \in Nat
      /\ rules \in Seq(Name) /\ Len(rules) \in Nat /\ Len(rules) <= MaxRules
      /\ file.schedules \subseteq Name /\ file.rules \in Seq(Name) /\ Len(file.rules) <= MaxRules
      /\ detached \in BOOLEAN /\ offered \subseteq Name
      /\ remade \subseteq Name /\ uncounted \subseteq Name
  BY DEF BookTypeInv, BookTypeOK
<1>3. ASSUME NEW names \in SUBSET Name, Save(names, rules)
      PROVE  FileType'
  BY <1>2, <1>3 DEF Save, FileType
<1>4. ASSUME NEW n \in Name, create(n) PROVE BookTypeInv'
  <2>1. DOMAIN schedules' \subseteq Name /\ \A m \in DOMAIN schedules' : schedules'[m] \in Nat
    BY <1>2, <1>4 DEF create, Added
  <2>2. FileType' BY <1>3, <1>4, <2>1 DEF create
  <2> QED BY <1>1, <1>2, <1>4, <2>1, <2>2 DEF create, FileType, BookTypeInv, BookTypeOK, uploadVars
<1>5. ASSUME NEW n \in Name, delete(n) PROVE BookTypeInv'
  <2>1. DOMAIN schedules' \subseteq Name /\ \A m \in DOMAIN schedules' : schedules'[m] \in Nat
    BY <1>2, <1>5 DEF delete
  <2>2. FileType' BY <1>3, <1>5, <2>1 DEF delete
  <2> QED BY <1>1, <1>2, <1>5, <2>1, <2>2 DEF delete, FileType, BookTypeInv, BookTypeOK, uploadVars
<1>6. ASSUME NEW n \in Known, schedules' = Selected(n)
      PROVE  DOMAIN schedules' \subseteq Name /\ \A m \in DOMAIN schedules' : schedules'[m] \in Nat
  BY <1>2, <1>6, SelectedCounts
<1>6a. ASSUME NEW n \in Name, Selects(n)
       PROVE  /\ DOMAIN schedules' \subseteq Name
              /\ \A m \in DOMAIN schedules' : schedules'[m] \in Nat
              /\ uncounted' \subseteq Name
              /\ file' = file /\ remade' = remade /\ detached' = detached /\ offered' = offered
  BY <1>2, <1>6, <1>6a DEF Selects, uploadVars
<1>7. ASSUME NEW n \in Name, create_rule(n) PROVE BookTypeInv'
  <2>1. rules' \in Seq(Name) /\ Len(rules') = Len(rules) + 1 /\ Len(rules) < MaxRules
    BY <1>2, <1>7, AppendProperties DEF create_rule
  <2>2. Len(rules') <= MaxRules BY <1>2, <2>1, SchedulesAssumption
  <2> QED BY <1>1, <1>2, <1>6a, <1>7, <2>1, <2>2 DEF create_rule, BookTypeInv, BookTypeOK
<1>8. ASSUME NEW i \in DOMAIN rules, NEW n \in Name, update_rule(i, n) PROVE BookTypeInv'
  <2>1. rules' \in Seq(Name) /\ Len(rules') = Len(rules)
    BY <1>2, <1>8, ExceptSeq DEF update_rule
  <2> QED BY <1>1, <1>2, <1>6a, <1>8, <2>1 DEF update_rule, BookTypeInv, BookTypeOK
<1>9. ASSUME NEW i \in DOMAIN rules, delete_rule(i) PROVE BookTypeInv'
  <2>1. rules' \in Seq(Name) /\ Len(rules') = Len(rules) - 1
    BY <1>2, <1>9, RemovedRule DEF delete_rule
  <2>2. Len(rules') <= MaxRules BY <1>2, <2>1, SchedulesAssumption
  <2> QED BY <1>1, <1>2, <1>9, <2>1, <2>2 DEF delete_rule, BookTypeInv, BookTypeOK, uploadVars
<1>10. CASE event_rules_save
  <2>1. FileType'
    BY <1>2, <1>3, <1>10 DEF event_rules_save
  <2> QED BY <1>1, <1>2, <1>10, <2>1 DEF event_rules_save, FileType, BookTypeInv, BookTypeOK, uploadVars
<1>11. CASE reload
  <2>1. \A names \in SUBSET Name, rs \in Seq(Name) :
          \A n \in DOMAIN Counted(names, rs) : n \in Name /\ Counted(names, rs)[n] \in Nat
    BY ReferencesCount DEF Counted
  <2>2. CASE Loads
    <3>1. schedules' = Counted(file.schedules, file.rules) /\ rules' = file.rules
          /\ remade' = {} /\ uncounted' = {} /\ file' = file
          /\ detached' = FALSE /\ offered' = {}
      BY <1>11, <2>2 DEF reload
    <3>2. DOMAIN schedules' \subseteq Name /\ \A n \in DOMAIN schedules' : schedules'[n] \in Nat
      BY <1>2, <2>1, <3>1
    <3> QED BY <1>1, <1>2, <3>1, <3>2 DEF BookTypeInv, BookTypeOK
  <2>3. CASE ~ Loads
    <3> DEFINE Bad == {i \in DOMAIN file.rules : file.rules[i] \notin file.schedules}
               IsFirst(i) == /\ file.rules[i] \notin file.schedules
                             /\ \A j \in 1..(i - 1) : file.rules[j] \in file.schedules
               first == CHOOSE i \in DOMAIN file.rules : IsFirst(i)
               cut == SubSeq(file.rules, 1, first - 1)
    <3>1. DOMAIN file.rules = 1..Len(file.rules) /\ Len(file.rules) \in Nat BY <1>2
    <3>2. first \in DOMAIN file.rules
      <4>1. Bad # {} BY <2>3 DEF Loads
      <4>2. Bad \in SUBSET Nat BY <3>1
      <4>3. PICK m \in Bad : \A n \in Bad : m <= n
        <5> HIDE DEF Bad
        <5> QED BY <4>1, <4>2, Least
      <4>4. \A j \in 1..(m - 1) : j \in 1..Len(file.rules) /\ ~ (m <= j) BY <3>1, <4>3
      <4>5. m \in DOMAIN file.rules /\ IsFirst(m) BY <3>1, <4>3, <4>4
      <4> HIDE DEF IsFirst
      <4> QED BY <4>5
    <3>3. cut \in Seq(Name)
      <4> HIDE DEF first
      <4>1. first - 1 \in Int /\ \A j \in 1..(first - 1) : j \in DOMAIN file.rules BY <3>1, <3>2
      <4>2. \A j \in 1..(first - 1) : file.rules[j] \in Name BY <1>2, <4>1
      <4> QED BY <4>1, <4>2, SubSeqProperties
    <3>4. schedules' = Counted(file.schedules, cut) /\ rules' = rules /\ remade' = Name /\ file' = file
          /\ uncounted' = {} /\ detached' = FALSE /\ offered' = {}
      BY <1>11, <2>3 DEF reload
    <3> HIDE DEF cut
    <3>5. DOMAIN schedules' \subseteq Name /\ \A n \in DOMAIN schedules' : schedules'[n] \in Nat
      BY <1>2, <2>1, <3>3, <3>4
    <3> QED BY <1>1, <1>2, <3>4, <3>5 DEF BookTypeInv, BookTypeOK
  <2> QED BY <2>2, <2>3
<1>12. ASSUME NEW n \in Name, counted_elsewhere(n) PROVE BookTypeInv'
  BY <1>1, <1>2, <1>6, <1>12 DEF counted_elsewhere, BookTypeInv, BookTypeOK, uploadVars
<1>13. ASSUME NEW names \in SUBSET Name, upload(names) PROVE BookTypeInv'
  BY <1>1, <1>2, <1>13 DEF upload, BookTypeInv, BookTypeOK
<1>14. ASSUME NEW doc \in Valid, activate(doc) PROVE BookTypeInv'
  <2>1. FileType' BY <1>2, <1>14, ValidLoads DEF activate, FileType
  <2> QED BY <1>1, <1>2, <1>14, <2>1 DEF activate, FileType, BookTypeInv, BookTypeOK, uploadVars
<1> QED BY <1>4, <1>5, <1>7, <1>8, <1>9, <1>10, <1>11, <1>12, <1>13, <1>14 DEF BookNext

\* Every reachable state of accounts, keys, schedules and the calendar is well-typed.
THEOREM AdminTypeCorrect == Spec => []TypeOK
<1> DEFINE Typed == AccountsTypeOK /\ BookTypeInv /\ CalendarTypeOK /\ page \in Page
<1>1. Init => Typed
  BY AccountsInitType, BookInitType, CalendarInitType DEF Init
<1>2. Typed /\ [Next]_vars => Typed'
  <2> SUFFICES ASSUME Typed, [Next]_vars PROVE Typed' OBVIOUS
  <2>1. CASE AccountsPage \/ KeysPage
    <3>1. AccountsTypeOK'
      BY <2>1, UserRequestsType, ViewRequestsType, KeyRequestsType DEF AccountsPage, KeysPage
    <3>2. UNCHANGED <<bookVars, calendarVars, page>> BY <2>1 DEF AccountsPage, KeysPage
    <3> QED BY <3>1, <3>2
      DEF BookTypeInv, BookTypeOK, CalendarTypeOK, bookVars, uploadVars, calendarVars
  <2>2. CASE Book
    <3>1. BookTypeInv' BY <2>2, BookNextType DEF Book
    <3>2. UNCHANGED <<accountVars, calendarVars, page>> BY <2>2 DEF Book
    <3> QED BY <3>1, <3>2 DEF AccountsTypeOK, CalendarTypeOK, accountVars, calendarVars
  <2>3. CASE Calendar
    <3>1. CalendarTypeOK' BY <2>3, TickType DEF Calendar
    <3>2. UNCHANGED <<accountVars, bookVars, page>> BY <2>3 DEF Calendar
    <3> QED BY <3>1, <3>2 DEF AccountsTypeOK, BookTypeInv, BookTypeOK, accountVars, bookVars, uploadVars
  <2>4. CASE UNCHANGED vars
    BY <2>4 DEF AccountsTypeOK, BookTypeInv, BookTypeOK, CalendarTypeOK, accountVars, bookVars,
                uploadVars, calendarVars, vars
  <2> QED BY <2>1, <2>2, <2>3, <2>4 DEF Next
<1>3. Typed => TypeOK BY DEF TypeOK, BookTypeInv
<1> QED BY <1>1, <1>2, <1>3, PTL DEF Spec
=============================================================================
