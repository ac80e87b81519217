------------------------------ MODULE Schedules ------------------------------
(***************************************************************************)
(* Schedules: times of the week that rules refer to by name                *)
(* (oa-event-rules schedule.ts, schedules.ts, select_schedule.ts), edited  *)
(* and saved through the console (app/socketio/schedule.ts).               *)
(*                                                                         *)
(* Rules find and count their schedules in the store of whichever rules    *)
(* were generated last (Schedules.schedules, one for the whole process),   *)
(* which is the book's own until an uploaded file is validated.            *)
(*                                                                         *)
(* One sequence stands for the rules of the server's book; of each only    *)
(* the schedule it selects by is kept.  How a save writes the file step by *)
(* step is in RulesStore: here it stores the book as it is, or fails.      *)
(***************************************************************************)
EXTENDS Naturals, Sequences, SequencesExt

CONSTANTS
  Name,        \* names of schedules
  DayMinutes,  \* minutes in a day
  Days,        \* days of the week
  MaxRules,    \* bound: rules in the book
  MaxSaves     \* bound: edits and reloads

ASSUME SchedulesAssumption ==
  /\ DayMinutes \in Nat \ {0} /\ Days \in Nat \ {0}
  /\ MaxRules \in Nat /\ MaxSaves \in Nat

VARIABLES
  schedules,  \* Schedules.store_map: from name to ref_count
  rules,      \* the rules of the book, each the schedule it selects by
  file,       \* the rules file: names of its schedules, and its rules
  detached,   \* the process's store is an upload's, no longer the book's
  offered,    \* then: the names in it; its counts are never read
  remade,     \* history: schedules replaced while a rule referred to them
  uncounted,  \* history: schedules rules came to select by that the book does not count
  edits       \* how often something was done

uploadVars == <<detached, offered>>

bookVars == <<schedules, rules, file, uploadVars, remade, uncounted, edits>>

BookTypeOK ==
  /\ DOMAIN schedules \subseteq Name /\ \A n \in DOMAIN schedules : schedules[n] \in Nat
  /\ rules \in Seq(Name) /\ Len(rules) <= MaxRules
  /\ file.schedules \subseteq Name /\ file.rules \in Seq(Name)
  /\ detached \in BOOLEAN /\ offered \subseteq Name
  /\ remade \subseteq Name /\ uncounted \subseteq Name
  /\ edits \in 0..MaxSaves

References(n, rs) == Cardinality({i \in DOMAIN rs : rs[i] = n})

\* What generating the rules rs makes of the schedules of a file.
Counted(names, rs) == [n \in names |-> References(n, rs)]

\* The files that validation accepts: their rules select by their schedules.
Valid == UNION {[schedules : {names}, rules : BoundedSeq(names, MaxRules)] : names \in SUBSET Name}

BookInit ==
  /\ file \in Valid
  /\ schedules = Counted(file.schedules, file.rules)
  /\ rules = file.rules
  /\ detached = FALSE /\ offered = {}
  /\ remade = {} /\ uncounted = {}
  /\ edits = 0

----------------------------------------------------------------------------
Edit == edits < MaxSaves /\ edits' = edits + 1

\* save_yaml_async stores the book as it is when its turn comes, or nothing.
Save(names, rs) ==
  \/ file' = [schedules |-> names, rules |-> rs]
  \/ UNCHANGED file

\* Schedules.add puts a new Schedule in the place of one of its name.
Added(n) == [m \in DOMAIN schedules \cup {n} |-> IF m = n THEN 0 ELSE schedules[m]]

create(n) ==
  /\ Edit
  /\ schedules' = Added(n)
  /\ remade' = IF \E i \in DOMAIN rules : rules[i] = n THEN remade \cup {n} ELSE remade
  /\ Save(DOMAIN schedules', rules)
  /\ UNCHANGED <<rules, uploadVars, uncounted>>

\* A mutant of is_referenced: a single rule does not count.
is_shared(n) == schedules[n] > 1

is_referenced(n) == schedules[n] >= 1

\* schedule::delete; a schedule that is referenced is refused.
delete(n) ==
  /\ Edit
  /\ n \in DOMAIN schedules /\ ~is_referenced(n)
  /\ schedules' = [m \in DOMAIN schedules \ {n} |-> schedules[m]]
  /\ Save(DOMAIN schedules', rules)
  /\ UNCHANGED <<rules, uploadVars, remade, uncounted>>

\* Where find_by_name looks.
Known == IF detached THEN offered ELSE DOMAIN schedules

\* SelectSchedule.generate refuses a name it does not find, and counts the schedule
\* it finds: not the book's, if the store is an upload's.
Selected(n) == IF detached THEN schedules ELSE [schedules EXCEPT ![n] = @ + 1]

CountedByBook(n) == n \in DOMAIN schedules /\ schedules[n] >= 1

\* A rule of the book comes to select by n.
Selects(n) ==
  /\ n \in Known
  /\ schedules' = Selected(n)
  /\ uncounted' = IF detached /\ ~CountedByBook(n) THEN uncounted \cup {n} ELSE uncounted
  /\ UNCHANGED <<file, uploadVars, remade>>

create_rule(n) ==
  /\ Edit
  /\ Len(rules) < MaxRules
  /\ Selects(n)
  /\ rules' = Append(rules, n)

\* ref_count_decrement is called by nobody: what the rule selected by before stays counted.
update_rule(i, n) ==
  /\ Edit
  /\ Selects(n)
  /\ rules' = [rules EXCEPT ![i] = n]

\* A form that is refused once its select was counted, or a rule of an agent's book.
counted_elsewhere(n) ==
  /\ Edit
  /\ n \in Known
  /\ schedules' = Selected(n)
  /\ UNCHANGED <<rules, file, uploadVars, remade, uncounted>>

delete_rule(i) ==
  /\ Edit
  /\ rules' = RemoveAt(rules, i)
  /\ UNCHANGED <<schedules, file, uploadVars, remade, uncounted>>

\* The rules, or the days of a schedule.
event_rules_save ==
  /\ Edit
  /\ Save(DOMAIN schedules, rules)
  /\ UNCHANGED <<schedules, rules, uploadVars, remade, uncounted>>

\* A file is uploaded and validated: an EventRules of its own is generated from it,
\* whose schedules stay the process's, whether its rules are then accepted or not.
upload(names) ==
  /\ Edit
  /\ detached' = TRUE /\ offered' = names
  /\ UNCHANGED <<schedules, rules, file, remade, uncounted>>

\* An upload that was accepted, now or before, is put in the place of the file, or
\* the file is restored; the book follows with its next reload.  That it was accepted
\* is the page's doing (assets/js/import-export.ts:109), which offers no other; the
\* server does not look again.
activate(doc) ==
  /\ Edit
  /\ file' \in {doc, file}
  /\ UNCHANGED <<schedules, rules, uploadVars, remade, uncounted>>

\* Every rule of the file selects by a schedule of the file.
Loads == \A i \in DOMAIN file.rules : file.rules[i] \in file.schedules

\* Discarding the edits, the watch on the file, or a restart.  The schedules of the
\* file are in place, for the book and the process, before its rules are generated: a
\* rule that selects by none of them ends the load there, with the rules as they were.
reload ==
  /\ Edit
  /\ IF Loads
     THEN /\ schedules' = Counted(file.schedules, file.rules)
          /\ rules' = file.rules
          /\ remade' = {}
     ELSE LET first == CHOOSE i \in DOMAIN file.rules :
                /\ file.rules[i] \notin file.schedules
                /\ \A j \in 1..(i - 1) : file.rules[j] \in file.schedules IN
          /\ schedules' = Counted(file.schedules, SubSeq(file.rules, 1, first - 1))
          /\ remade' = Name
          /\ UNCHANGED rules
  /\ detached' = FALSE /\ offered' = {}
  /\ uncounted' = {}
  /\ UNCHANGED file

BookNext ==
  \/ \E n \in Name : create(n) \/ delete(n) \/ create_rule(n) \/ counted_elsewhere(n)
  \/ \E i \in DOMAIN rules : delete_rule(i) \/ \E n \in Name : update_rule(i, n)
  \/ event_rules_save
  \/ \E names \in SUBSET Name : upload(names)
  \/ \E doc \in Valid : activate(doc)
  \/ reload

(* A schedule is not deleted from under a rule: what is saved loads again, *)
(* in the console and in the server.  The two ways round the count are     *)
(* left out: a schedule created again under the name of one that a rule    *)
(* refers to, and one that a rule came to select by after an upload was    *)
(* validated, which the book does not count until it is reloaded.          *)
SavedRulesLoad ==
  \A n \in Name \ (remade \cup uncounted) :
    n \in Range(file.rules) => n \in file.schedules

(* "deletes should only be permitted if no rule is using it"               *)
(* (schedule.ts:202), not even claimed of schedules that were created      *)
(* again under their name.                                                 *)
OnlyUnusedDeleted ==
  [][\A n \in Name \ remade : delete(n) => n \notin Range(rules)]_bookVars

----------------------------------------------------------------------------
(* is_in *)

VARIABLES
  schedule,  \* the schedule looked at: start, end and isoDays
  clock      \* the time: day and minute

calendarVars == <<schedule, clock>>

Minute == 0..(DayMinutes - 1)

Schedule == {s \in [start : Minute, end : Minute, isoDays : SUBSET (1..Days)] :
               s.start # s.end /\ s.isoDays # {}}

CalendarTypeOK ==
  /\ schedule \in Schedule
  /\ clock \in [day : 1..Days, minute : Minute]

CalendarInit == schedule \in Schedule /\ clock = [day |-> 1, minute |-> 0]

\* The constructor splits a schedule that ends before it starts at midnight.
timespans(s) ==
  IF s.end < s.start
  THEN {[start |-> 0, end |-> s.end], [start |-> s.start, end |-> DayMinutes]}
  ELSE {[start |-> s.start, end |-> s.end]}

\* A mutant of Within: both ends belong to it.
WithinBoth(span, minute) == span.start <= minute /\ minute <= span.end

Within(span, minute) == span.start < minute /\ minute <= span.end

is_in(s, now) ==
  /\ now.day \in s.isoDays
  /\ \E span \in timespans(s) : Within(span, now.minute)

Tick ==
  /\ clock' = IF clock.minute + 1 < DayMinutes
              THEN [clock EXCEPT !.minute = @ + 1]
              ELSE [day |-> (clock.day % Days) + 1, minute |-> 0]
  /\ UNCHANGED schedule

Reversed(s) == [s EXCEPT !.start = s.end, !.end = s.start]

(* Of two schedules that follow each other round the clock one and only    *)
(* one holds at each minute of their days, but for the first of the day,   *)
(* which is in neither.                                                    *)
OneOfTwoShifts ==
  clock.day \in schedule.isoDays =>
    (is_in(schedule, clock) /= is_in(Reversed(schedule), clock)) = (clock.minute # 0)
=============================================================================
