----------------------------- MODULE RulesStore -----------------------------
(***************************************************************************)
(* The rules file of the server, shared by two processes.  The console      *)
(* edits its book in memory and saves it over the file, keeping the old     *)
(* file as a backup or committing the new one to git; both processes watch  *)
(* the file's directory and rebuild their book from the file a second after *)
(* a change.  A save is a chain of promises: anything may happen between    *)
(* two of its steps, each may fail, and a process may die in the middle.    *)
(*                                                                         *)
(* What is abstracted: a book is a version number, a new one per edit; a    *)
(* truncated text is Cut, which may or may not load; time is left out, a    *)
(* timer may be arbitrarily late.  Nobody but the console writes the file,  *)
(* and each book is the server's: agents' books are stored the same way.    *)
(***************************************************************************)
EXTENDS Naturals, FiniteSets

CONSTANTS
  Git,         \* the settings of `rules.git` to consider
  MaxVersion,  \* bound: how many edits are made
  MaxSaves,    \* bound: how many saves are requested
  MaxTimers,   \* bound: how many timers of each process run at a time
  MaxCrashes,  \* bound: how often a process dies for other reasons than rules
  Cut,         \* a text that is cut short
  Missing      \* no file

ASSUME StoreAssumption ==
  /\ Git \subseteq BOOLEAN
  /\ Cut \notin Nat /\ Missing \notin Nat /\ Cut # Missing
  /\ MaxVersion \in Nat /\ MaxSaves \in Nat /\ MaxCrashes \in Nat
  /\ MaxTimers \in [{"console", "server"} -> Nat]

Process == {"console", "server"}

Version == 0..MaxVersion

\* The requests to save, in the order they are made.
Saver == 1..MaxSaves

Text == Version \cup {Cut}

VARIABLES
  git,            \* `rules.git`: save to git instead of keeping backups
  file,           \* what yaml_path holds
  backups,        \* what the files named yaml_path.<date and time> hold
  replaced,       \* history: has a backup been replaced by one of the same name
  commits,        \* what has been committed
  phase,          \* phase[p]: "down", "loaded" or, once the watch is set, "up"
  book,           \* book[p]: the rules in memory
  edited,         \* the console's edited flag
  notices,        \* notices[p]: a change the file system has yet to tell p of
  watch_events,   \* watch_events[p]: the queue's length
  timers,         \* timers[p]: how many one second delays are running
  pc,             \* pc[s]: where a save is
  doc,            \* doc[s]: the text it took from memory
  saving_counter, \* the lock
  answered,       \* history: the text whose save, of the configured kind, was last
                  \* answered with success
  unsaved,        \* history: does the console's book hold an edit that was flagged, and that
                  \* the file has never held
  blind,          \* history: has the file changed between the server's load and its watch
  newest, saves, crashes  \* bounds

vars == <<git, file, backups, replaced, commits, phase, book, edited, notices, watch_events,
          timers, pc, doc, saving_counter, answered, unsaved, blind, newest,
          saves, crashes>>

fileVars == <<file, notices, blind>>
bookVars == <<book, edited, unsaved>>
keptVars == <<backups, replaced, commits>>
watchVars == <<watch_events, timers>>
saverVars == <<pc, doc, saving_counter>>
bounds == <<git, newest, saves, crashes>>

Init ==
  /\ git \in Git
  /\ file = 0 /\ answered = 0 /\ unsaved = FALSE
  /\ backups = {} /\ replaced = FALSE
  /\ commits = IF git THEN {0} ELSE {}
  /\ phase = [p \in Process |-> "up"]
  /\ book = [p \in Process |-> 0]
  /\ edited = FALSE
  /\ notices = [p \in Process |-> FALSE]
  /\ watch_events = [p \in Process |-> 0]
  /\ timers = [p \in Process |-> 0]
  /\ pc = [s \in Saver |-> "over"]
  /\ doc = [s \in Saver |-> 0]
  /\ saving_counter = 0
  /\ blind = FALSE
  /\ newest = 0 /\ saves = 0 /\ crashes = 0

----------------------------------------------------------------------------
(* The file, as every process sees it                                      *)

\* A change of the file is notified, later, to the processes that watch.
Put(x) ==
  /\ file' = x
  /\ notices' = [p \in Process |-> notices[p] \/ phase[p] = "up"]
  /\ blind' = (blind \/ phase["server"] = "loaded")

\* The books that building from the file can give: none from a file that is not
\* there, maybe one from a file that is cut short.
Loads == {file} \ {Missing}

\* Building from the file can throw.
Throws == file \in {Missing, Cut}

----------------------------------------------------------------------------
(* Edits                                                                   *)

\* A handler changes the book and sets the flag.
Edit ==
  /\ phase["console"] # "down" /\ newest < MaxVersion
  /\ newest' = newest + 1
  /\ book' = [book EXCEPT !["console"] = newest + 1]
  /\ edited' = TRUE /\ unsaved' = TRUE
  /\ UNCHANGED <<fileVars, keptVars, watchVars, saverVars, phase, answered, git, saves, crashes>>

\* discard_changes: a reload asked for by an operator; a failure is reported,
\* and has left the book half built if there was a file.
discard_changes ==
  /\ phase["console"] # "down"
  /\ \/ \E x \in Loads : book' = [book EXCEPT !["console"] = x] /\ edited' = FALSE
     \/ file = Cut /\ book' = [book EXCEPT !["console"] = Cut] /\ UNCHANGED edited
  /\ unsaved' = FALSE
  /\ UNCHANGED <<fileVars, keptVars, watchVars, saverVars, phase, answered, bounds>>

----------------------------------------------------------------------------
(* Saving: event_rules::save in the mode the configuration says, and the    *)
(* schedule handlers, which change the schedules and save with a backup     *)

\* Mutant: the lock is tested before the request is counted, with the old bound.
TurnBefore == saving_counter <= 1

\* The lock: the counter, this request counted, is one.
Turn == saving_counter + 1 = 1

Begin(s, first, text) ==
  /\ phase["console"] # "down"
  /\ s = saves + 1 /\ saves' = s
  /\ saving_counter' = saving_counter + 1
  /\ IF Turn
     THEN pc' = [pc EXCEPT ![s] = first] /\ doc' = [doc EXCEPT ![s] = text]
     ELSE pc' = [pc EXCEPT ![s] = "rejected"] /\ UNCHANGED doc
  /\ UNCHANGED <<fileVars, keptVars, watchVars, phase, edited, answered, git, crashes>>

event_rules_save(s) ==
  /\ Begin(s, IF git THEN "truncate" ELSE "tmp", book["console"])
  /\ UNCHANGED <<book, unsaved, newest>>

\* The schedule handlers do not set the flag, whatever becomes of the save.
schedule_save(s) ==
  /\ newest < MaxVersion /\ newest' = newest + 1
  /\ book' = [book EXCEPT !["console"] = newest + 1]
  /\ UNCHANGED unsaved
  /\ Begin(s, "tmp", newest + 1)

Goto(s, label) == pc' = [pc EXCEPT ![s] = label]

\* A step of a save goes wrong; the promise is rejected.
Fail(s) ==
  /\ pc[s] \in {"tmp", "backup", "place", "copy", "truncate", "write", "commit"}
  /\ Goto(s, "rejected")
  /\ UNCHANGED <<fileVars, keptVars, watchVars, doc, saving_counter, phase, bookVars,
                 answered, bounds>>

\* The text is in a temporary file, and yaml_path is there: stat.
WriteTmp(s) ==
  /\ pc[s] = "tmp"
  /\ file # Missing
  /\ Goto(s, "backup")
  /\ UNCHANGED <<fileVars, keptVars, watchVars, doc, saving_counter, phase, bookVars,
                 answered, bounds>>

\* Mutant: one backup is kept.
OnlyBackup(old) == {file}

\* The old file becomes a backup, in the place of one of the same name if there
\* is one: the name is to the second and of twelve hours.
BackedUp(old) == (backups \ {old}) \cup {file}

Backup(s) ==
  /\ pc[s] = "backup"
  /\ \E old \in backups \cup {Missing} :
       /\ backups' = BackedUp(old)
       /\ replaced' = (replaced \/ old # Missing)
  /\ Put(Missing)
  /\ Goto(s, "place")
  /\ UNCHANGED <<commits, watchVars, doc, saving_counter, phase, bookVars, answered, bounds>>

\* The flag is cleared whatever the book holds by now.
Saved(s) == edited' = FALSE /\ unsaved' = (unsaved /\ doc[s] # book["console"])

\* The new file is in place: the flag is cleared and the request answered.
Place(s) ==
  /\ pc[s] \in {"place", "copy"}
  /\ Put(doc[s])
  /\ Saved(s)
  /\ answered' = IF git THEN answered ELSE doc[s]
  /\ Goto(s, "resolved")
  /\ UNCHANGED <<keptVars, watchVars, doc, saving_counter, phase, book, bounds>>

\* Between file systems mv copies instead, and the file grows.
PlaceByCopy(s) ==
  /\ pc[s] = "place"
  /\ Put(Cut)
  /\ Goto(s, "copy")
  /\ UNCHANGED <<keptVars, watchVars, doc, saving_counter, phase, bookVars, answered, bounds>>

\* save_yaml_git_async writes over the file.
Truncate(s) ==
  /\ pc[s] = "truncate"
  /\ Put(Cut)
  /\ Goto(s, "write")
  /\ UNCHANGED <<keptVars, watchVars, doc, saving_counter, phase, bookVars, answered, bounds>>

WriteFile(s) ==
  /\ pc[s] = "write"
  /\ Put(doc[s])
  /\ Saved(s)
  /\ Goto(s, "commit")
  /\ UNCHANGED <<keptVars, watchVars, doc, saving_counter, phase, book, answered, bounds>>

\* Add, commit and push: what is committed is what the file holds.
Commit(s) ==
  /\ pc[s] = "commit"
  /\ commits' = commits \cup {file}
  /\ answered' = doc[s]
  /\ Goto(s, "resolved")
  /\ UNCHANGED <<fileVars, backups, replaced, watchVars, doc, saving_counter, phase, bookVars, bounds>>

Unlocked == saving_counter - 1

\* finally: the lock is released, by the requests that were turned away too.
Finally(s) ==
  /\ pc[s] \in {"resolved", "rejected"}
  /\ Goto(s, "over")
  /\ doc' = [doc EXCEPT ![s] = 0]
  /\ saving_counter' = Unlocked
  /\ UNCHANGED <<fileVars, keptVars, watchVars, phase, bookVars, answered, bounds>>

----------------------------------------------------------------------------
(* Watching                                                                *)

\* The watch callback queues the event and starts a timer.
Notified(p) ==
  /\ phase[p] = "up" /\ notices[p] /\ timers[p] < MaxTimers[p]
  /\ notices' = [notices EXCEPT ![p] = FALSE]
  /\ watch_events' = [watch_events EXCEPT ![p] = @ + 1]
  /\ timers' = [timers EXCEPT ![p] = @ + 1]
  /\ UNCHANGED <<file, blind, keptVars, saverVars, phase, bookVars, answered, bounds>>

\* A process ends, and with it what it was doing.
Die(p) ==
  /\ phase' = [phase EXCEPT ![p] = "down"]
  /\ notices' = [notices EXCEPT ![p] = FALSE]
  /\ watch_events' = [watch_events EXCEPT ![p] = 0]
  /\ timers' = [timers EXCEPT ![p] = 0]
  /\ IF p = "console"
     THEN /\ pc' = [s \in Saver |-> "over"]
          /\ doc' = [s \in Saver |-> 0]
          /\ saving_counter' = 0
          /\ edited' = FALSE
     ELSE UNCHANGED <<saverVars, edited>>
  /\ UNCHANGED <<file, blind, keptVars, book, unsaved, answered, git, newest, saves>>

\* The timer runs out: the first to do so reloads for all events queued.
TimerReload(p) ==
  /\ timers[p] > 0 /\ watch_events[p] > 0
  /\ \E x \in Loads : book' = [book EXCEPT ![p] = x]
  /\ IF p = "console" THEN edited' = FALSE /\ unsaved' = FALSE ELSE UNCHANGED <<edited, unsaved>>
  /\ blind' = (blind /\ p # "server")
  /\ timers' = [timers EXCEPT ![p] = @ - 1]
  /\ watch_events' = [watch_events EXCEPT ![p] = 0]
  /\ UNCHANGED <<file, notices, keptVars, saverVars, phase, answered, bounds>>

\* Mutant: only the last timer reloads, and each empties the queue.
TimerIdleClears(p) ==
  /\ timers[p] > 0
  /\ watch_events[p] = 0 \/ timers[p] > 1
  /\ timers' = [timers EXCEPT ![p] = @ - 1]
  /\ watch_events' = [watch_events EXCEPT ![p] = 0]
  /\ UNCHANGED <<fileVars, keptVars, saverVars, phase, bookVars, answered, bounds>>

\* A later one finds nothing queued.
TimerIdle(p) ==
  /\ timers[p] > 0
  /\ watch_events[p] = 0
  /\ timers' = [timers EXCEPT ![p] = @ - 1]
  /\ UNCHANGED <<fileVars, keptVars, watch_events, saverVars, phase, bookVars, answered, bounds>>

\* Nobody catches what a reload throws in a timer.
TimerThrows(p) ==
  /\ timers[p] > 0 /\ watch_events[p] > 0
  /\ Throws
  /\ Die(p) /\ UNCHANGED crashes

Crash(p) ==
  /\ phase[p] # "down" /\ crashes < MaxCrashes
  /\ crashes' = crashes + 1
  /\ Die(p)

\* The constructor loads the file, and ends the process if it cannot.
Restart(p) ==
  /\ phase[p] = "down"
  /\ \E x \in Loads : book' = [book EXCEPT ![p] = x]
  /\ phase' = [phase EXCEPT ![p] = "loaded"]
  /\ unsaved' = (unsaved /\ p # "console")
  /\ blind' = (blind /\ p # "server")
  /\ UNCHANGED <<file, notices, keptVars, watchVars, saverVars, edited, answered, bounds>>

\* ... and then sets up the watch.
watch_rules(p) ==
  /\ phase[p] = "loaded"
  /\ phase' = [phase EXCEPT ![p] = "up"]
  /\ UNCHANGED <<fileVars, keptVars, watchVars, saverVars, bookVars, answered, bounds>>

----------------------------------------------------------------------------

Request ==
  Edit \/ discard_changes \/ \E s \in Saver : event_rules_save(s) \/ schedule_save(s)

Proceed(s) ==
  \/ Fail(s) \/ WriteTmp(s) \/ Backup(s) \/ Place(s) \/ PlaceByCopy(s)
  \/ Truncate(s) \/ WriteFile(s) \/ Commit(s) \/ Finally(s)

Watch(p) == Notified(p) \/ TimerReload(p) \/ TimerIdle(p) \/ TimerThrows(p)

Start(p) == Restart(p) \/ watch_rules(p)

Next ==
  \/ Request
  \/ \E s \in Saver : Proceed(s)
  \/ \E p \in Process : Watch(p) \/ Start(p) \/ Crash(p)

Spec == Init /\ [][Next]_vars

\* Promises settle, file systems notify, timers run out and processes are
\* started again.
Fairness ==
  /\ \A s \in Saver : WF_vars(Proceed(s))
  /\ \A p \in Process : WF_vars(Notified(p)) /\ WF_vars(Start(p))
                        /\ WF_vars(TimerReload(p) \/ TimerIdle(p) \/ TimerThrows(p))

FairSpec == Spec /\ Fairness

----------------------------------------------------------------------------
(* Properties                                                              *)

Label == {"over", "tmp", "backup", "place", "copy", "truncate", "write", "commit",
          "resolved", "rejected"}

TypeOK ==
  /\ git \in BOOLEAN
  /\ file \in Text \cup {Missing}
  /\ backups \subseteq Text \cup {Missing} /\ replaced \in BOOLEAN
  /\ commits \subseteq Text \cup {Missing}
  /\ phase \in [Process -> {"down", "loaded", "up"}]
  /\ book \in [Process -> Text]
  /\ edited \in BOOLEAN
  /\ notices \in [Process -> BOOLEAN]
  /\ watch_events \in [Process -> Nat] /\ timers \in [Process -> Nat]
  /\ pc \in [Saver -> Label] /\ doc \in [Saver -> Text]
  /\ saving_counter \in Nat
  /\ answered \in Text /\ unsaved \in BOOLEAN
  /\ blind \in BOOLEAN
  /\ newest \in Version /\ saves \in 0..MaxSaves /\ crashes \in 0..MaxCrashes

Holder == {s \in Saver : pc[s] \notin {"over", "rejected"}}

\* Two saves never work on the file at once, although a request that was turned
\* away also counts the lock down.
OneSaver == \A s, t \in Holder : s = t

\* What the last successful save stored is never gone: it is the file or a
\* backup, with `rules.git` the file or a commit, through failing steps, crashes
\* and saves of later edits, as long as no two backups have the same name.
NothingSavedIsLost ==
  ~replaced => answered \in {file} \cup (IF git THEN commits ELSE backups)

\* A book of the server that is not what the file holds will be rebuilt: the
\* change is yet to be notified, or is queued with a timer to look at the queue.
ReloadIsDue ==
  (phase["server"] = "up" /\ book["server"] # file)
    => \/ notices["server"] \/ blind
       \/ watch_events["server"] > 0 /\ timers["server"] > 0

\* The server ends up running by the rules in the file, unless there are none or
\* the file changed while it was starting.
ServerCatchesUp ==
  <>[](\/ phase["server"] = "up" /\ book["server"] = file
      \/ Throws
      \/ blind)

\* "Flag to check if a rule set has modification that have not been saved"
\* (event_rules.ts:271): the flag stays until the file has held the edit.
EditsForgotten == phase["console"] # "down" /\ unsaved => edited
=============================================================================
