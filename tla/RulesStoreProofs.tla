-------------------------- MODULE RulesStoreProofs --------------------------
(***************************************************************************)
(* Proofs about RulesStore, for any numbers of edits, saves, timers and     *)
(* crashes, with and without git.                                           *)
(***************************************************************************)
EXTENDS RulesStore, FiniteSetTheorems, TLAPS

\* The requests that have been counted and not yet counted down.
Pending == {s \in Saver : pc[s] # "over"}

\* The counter is what it is for.
LockCounted ==
  /\ saving_counter = Cardinality(Pending)
  /\ \A s \in Saver : s > saves => pc[s] = "over"

\* What each place in a save knows of the file.
SavePlaces ==
  \A s \in Saver :
    /\ pc[s] \in {"truncate", "write", "commit"} => git
    /\ pc[s] = "commit" => file = doc[s]
    /\ pc[s] \in {"place", "copy"} /\ ~git /\ ~replaced => answered \in backups

\* With git it is the commit that keeps what has been answered.
Committed == git => answered \in commits

\* A server that is starting has read the file, or does not know it changed.
StartedFrom == phase["server"] = "loaded" => book["server"] = file \/ blind

IInv ==
  /\ TypeOK /\ LockCounted /\ OneSaver
  /\ SavePlaces /\ Committed /\ NothingSavedIsLost
  /\ ReloadIsDue /\ StartedFrom

USE StoreAssumption DEF Version, Process

----------------------------------------------------------------------------
(* Type correctness                                                        *)

LEMMA InitType == Init => TypeOK
<1> SUFFICES ASSUME Init PROVE TypeOK
  OBVIOUS
<1>1. git \in BOOLEAN /\ 0 \in Text /\ 0 \in Version
  BY DEF Init, Text
<1>2. commits \subseteq Text \cup {Missing}
  BY <1>1 DEF Init
<1>3. saves \in 0..MaxSaves /\ crashes \in 0..MaxCrashes
  BY DEF Init
<1> QED
  BY <1>1, <1>2, <1>3 DEF Init, TypeOK, Label

LEMMA RequestType ==
  ASSUME TypeOK, Request
  PROVE  TypeOK'
<1>1. CASE Edit
  <2>1. newest + 1 \in Text /\ newest' \in Version
    BY <1>1 DEF TypeOK, Text, Edit
  <2>2. book' \in [Process -> Text]
    BY <1>1, <2>1 DEF Edit, TypeOK
  <2> QED
    BY <1>1, <2>1, <2>2 DEF TypeOK, Edit, fileVars, keptVars, watchVars, saverVars
<1>2. CASE discard_changes
  <2>1. book' \in [Process -> Text]
    BY <1>2 DEF discard_changes, Loads, TypeOK, Text
  <2>2. edited' \in BOOLEAN /\ unsaved' \in BOOLEAN
    BY <1>2 DEF discard_changes, TypeOK
  <2> QED
    BY <1>2, <2>1, <2>2 DEF TypeOK, discard_changes, fileVars, keptVars, watchVars, saverVars, bounds
<1>3. ASSUME NEW s \in Saver, event_rules_save(s)
      PROVE  TypeOK'
  <2>1. book["console"] \in Text
    BY DEF TypeOK
  <2>2. saves' \in 0..MaxSaves /\ saving_counter' \in Nat
    BY <1>3 DEF event_rules_save, Begin, Saver, TypeOK
  <2>3. pc' \in [Saver -> Label] /\ doc' \in [Saver -> Text]
    BY <1>3, <2>1 DEF event_rules_save, Begin, TypeOK, Label
  <2> QED
    BY <1>3, <2>2, <2>3 DEF event_rules_save, Begin, TypeOK, fileVars, keptVars, watchVars
<1>4. ASSUME NEW s \in Saver, schedule_save(s)
      PROVE  TypeOK'
  <2>1. newest + 1 \in Text /\ newest' \in Version
    BY <1>4 DEF TypeOK, Text, schedule_save
  <2>2. saves' \in 0..MaxSaves /\ saving_counter' \in Nat
    BY <1>4 DEF schedule_save, Begin, Saver, TypeOK
  <2>3. pc' \in [Saver -> Label] /\ doc' \in [Saver -> Text]
    BY <1>4, <2>1 DEF schedule_save, Begin, TypeOK, Label
  <2>4. book' \in [Process -> Text]
    BY <1>4, <2>1 DEF schedule_save, TypeOK
  <2> QED
    BY <1>4, <2>1, <2>2, <2>3, <2>4 DEF schedule_save, Begin, TypeOK, fileVars, keptVars, watchVars
<1> QED
  BY <1>1, <1>2, <1>3, <1>4 DEF Request

\* Releasing the lock leaves a number, because the request was counted.
LEMMA PendingCounted ==
  ASSUME TypeOK, LockCounted, NEW s \in Saver, pc[s] # "over"
  PROVE  /\ IsFiniteSet(Pending) /\ s \in Pending
         /\ saving_counter \in Nat \ {0}
         /\ Cardinality(Pending \ {s}) = saving_counter - 1
<1>1. IsFiniteSet(Saver)
  BY FS_Interval DEF Saver
<1>2. IsFiniteSet(Pending) /\ s \in Pending
  BY <1>1, FS_Subset DEF Pending
<1>3. Cardinality(Pending \ {s}) = Cardinality(Pending) - 1
  BY <1>2, FS_RemoveElement
<1>4. Cardinality(Pending) # 0 /\ Cardinality(Pending) \in Nat
  BY <1>2, FS_EmptySet, FS_CardinalityType
<1> QED
  BY <1>2, <1>3, <1>4 DEF LockCounted

LEMMA ProceedType ==
  ASSUME TypeOK, LockCounted, NEW s \in Saver, Proceed(s)
  PROVE  TypeOK'
<1> USE DEF TypeOK, Label, Text, Goto, fileVars, keptVars, watchVars, bookVars, bounds
<1>1. CASE Fail(s)
  BY <1>1 DEF Fail
<1>2. CASE WriteTmp(s)
  BY <1>2 DEF WriteTmp
<1>3. CASE Backup(s)
  BY <1>3 DEF Backup, Put, BackedUp
<1>4. CASE Place(s)
  BY <1>4 DEF Place, Put, Saved
<1>5. CASE PlaceByCopy(s)
  BY <1>5 DEF PlaceByCopy, Put
<1>6. CASE Truncate(s)
  BY <1>6 DEF Truncate, Put
<1>7. CASE WriteFile(s)
  BY <1>7 DEF WriteFile, Put, Saved
<1>8. CASE Commit(s)
  BY <1>8 DEF Commit
<1>9. CASE Finally(s)
  <2>1. saving_counter' \in Nat
    <3>1. pc[s] # "over"
      BY <1>9 DEF Finally
    <3>2. saving_counter \in Nat \ {0}
      BY <3>1, PendingCounted
    <3> QED
      BY <1>9, <3>2 DEF Finally, Unlocked
  <2> QED
    BY <1>9, <2>1 DEF Finally
<1> QED
  BY <1>1, <1>2, <1>3, <1>4, <1>5, <1>6, <1>7, <1>8, <1>9 DEF Proceed

\* The death of a process leaves nothing ill-typed.
LEMMA DeathType ==
  ASSUME TypeOK, NEW p \in Process, Die(p), crashes' \in 0..MaxCrashes
  PROVE  TypeOK'
<1>1. pc' \in [Saver -> Label] /\ doc' \in [Saver -> Text]
  BY DEF Die, TypeOK, Label, Text, saverVars
<1>2. saving_counter' \in Nat /\ edited' \in BOOLEAN
  <2>1. CASE p = "console"
    <3>1. saving_counter' = 0 /\ edited' = FALSE
      BY <2>1 DEF Die
    <3> QED
      BY <3>1
  <2>2. CASE p # "console"
    <3>1. saving_counter' = saving_counter /\ edited' = edited
      BY <2>2 DEF Die, saverVars
    <3> QED
      BY <3>1 DEF TypeOK
  <2> QED
    BY <2>1, <2>2
<1>3. /\ phase' \in [Process -> {"down", "loaded", "up"}]
      /\ notices' \in [Process -> BOOLEAN]
      /\ watch_events' \in [Process -> Nat] /\ timers' \in [Process -> Nat]
  BY DEF Die, TypeOK
<1> QED
  BY <1>1, <1>2, <1>3 DEF Die, TypeOK, keptVars

LEMMA ProcessType ==
  ASSUME TypeOK, NEW p \in Process, Watch(p) \/ Start(p) \/ Crash(p)
  PROVE  TypeOK'
<1> USE DEF TypeOK, Label, Text, fileVars, keptVars, watchVars, bookVars, saverVars, bounds
<1>1. CASE Notified(p)
  BY <1>1 DEF Notified
<1>2. CASE TimerReload(p)
  <2>1. book' \in [Process -> Text]
    BY <1>2 DEF TimerReload, Loads
  <2>2. edited' \in BOOLEAN /\ unsaved' \in BOOLEAN /\ blind' \in BOOLEAN
    BY <1>2 DEF TimerReload
  <2>3. timers' \in [Process -> Nat] /\ watch_events' \in [Process -> Nat]
    BY <1>2 DEF TimerReload
  <2> QED
    BY <1>2, <2>1, <2>2, <2>3 DEF TimerReload
<1>3. CASE TimerIdle(p)
  BY <1>3 DEF TimerIdle
<1>4. CASE TimerThrows(p)
  BY <1>4, DeathType DEF TimerThrows
<1>5. CASE Restart(p)
  BY <1>5 DEF Restart, Loads
<1>6. CASE watch_rules(p)
  BY <1>6 DEF watch_rules
<1>7. CASE Crash(p)
  <2>1. crashes' \in 0..MaxCrashes
    BY <1>7 DEF Crash
  <2> QED
    BY <1>7, <2>1, DeathType DEF Crash
<1> QED
  BY <1>1, <1>2, <1>3, <1>4, <1>5, <1>6, <1>7 DEF Watch, Start

LEMMA TypeStep == TypeOK /\ LockCounted /\ [Next]_vars => TypeOK'
<1> SUFFICES ASSUME TypeOK, LockCounted, [Next]_vars PROVE TypeOK'
  OBVIOUS
<1>1. CASE Next
  BY <1>1, RequestType, ProceedType, ProcessType DEF Next
<1>2. CASE UNCHANGED vars
  BY <1>2 DEF TypeOK, vars
<1> QED
  BY <1>1, <1>2

----------------------------------------------------------------------------
(* The lock                                                                *)

\* A request is counted in as it begins.
LEMMA BeginCounts ==
  ASSUME TypeOK, LockCounted, OneSaver,
         NEW s \in Saver, NEW first \in Label \ {"over"}, NEW text, Begin(s, first, text)
  PROVE  LockCounted' /\ OneSaver'
<1>1. pc[s] = "over" /\ saves' = saves + 1 /\ s = saves + 1 /\ saves \in Nat
  BY DEF Begin, LockCounted, TypeOK
<1>2. IsFiniteSet(Pending)
  <2>1. IsFiniteSet(Saver)
    BY FS_Interval DEF Saver
  <2> QED
    BY <2>1, FS_Subset DEF Pending
<1>3. \A t \in Saver : t # s => pc'[t] = pc[t]
  BY DEF Begin, TypeOK
<1>4. pc'[s] # "over" /\ (~Turn => pc'[s] = "rejected")
  BY DEF Begin, TypeOK, Label
<1>5. Pending' = Pending \cup {s} /\ s \notin Pending
  BY <1>1, <1>3, <1>4 DEF Pending
<1>6. Cardinality(Pending') = Cardinality(Pending) + 1
  BY <1>2, <1>5, FS_AddElement
<1>7. saving_counter' = saving_counter + 1
  BY DEF Begin
<1>8. LockCounted'
  <2>1. \A t \in Saver : t > saves' => pc'[t] = "over"
    <3>1. \A t \in Saver : t > saves + 1 => t > saves /\ t # s
      BY <1>1 DEF Saver
    <3> QED
      BY <1>1, <1>3, <3>1 DEF LockCounted
  <2> QED
    BY <1>6, <1>7, <2>1 DEF LockCounted
<1>9. OneSaver'
  <2>1. CASE Turn
    <3>1. Cardinality(Pending) = 0
      BY <2>1 DEF Turn, LockCounted, TypeOK
    <3>2. Pending = {}
      BY <1>2, <3>1, FS_EmptySet
    <3>3. Holder' \subseteq {s}
      BY <1>3, <3>2 DEF Holder, Pending
    <3> QED
      BY <3>3 DEF OneSaver
  <2>2. CASE ~Turn
    <3>1. Holder' \subseteq Holder
      BY <1>3, <1>4, <2>2 DEF Holder
    <3> QED
      BY <3>1 DEF OneSaver
  <2> QED
    BY <2>1, <2>2
<1> QED
  BY <1>8, <1>9

\* Between two places of a save nothing is counted, and a request that is not a
\* holder does not become one.
LEMMA GotoKeepsLock ==
  ASSUME TypeOK, LockCounted, OneSaver,
         NEW s \in Saver, NEW label \in Label \ {"over"}, Goto(s, label),
         pc[s] # "over", pc[s] = "rejected" => label = "rejected",
         saving_counter' = saving_counter, saves' = saves
  PROVE  LockCounted' /\ OneSaver'
<1>1. \A t \in Saver : pc'[t] = IF t = s THEN label ELSE pc[t]
  BY DEF Goto, TypeOK
<1>2. Pending' = Pending
  BY <1>1 DEF Pending
<1>3. Holder' \subseteq Holder
  BY <1>1 DEF Holder
<1>4. \A t \in Saver : t > saves => t # s
  BY DEF LockCounted
<1> QED
  BY <1>1, <1>2, <1>3, <1>4 DEF LockCounted, OneSaver

LEMMA ProceedKeepsLock ==
  ASSUME TypeOK, LockCounted, OneSaver, NEW s \in Saver, Proceed(s)
  PROVE  LockCounted' /\ OneSaver'
<1>1. CASE Finally(s)
  <2>1. pc[s] # "over" /\ saving_counter' = saving_counter - 1 /\ saves' = saves
    BY <1>1 DEF Finally, Unlocked, bounds
  <2>2. \A t \in Saver : pc'[t] = IF t = s THEN "over" ELSE pc[t]
    BY <1>1 DEF Finally, Goto, TypeOK
  <2>3. Pending' = Pending \ {s} /\ Holder' \subseteq Holder
    BY <2>2 DEF Pending, Holder
  <2>4. saving_counter' = Cardinality(Pending')
    BY <2>1, <2>3, PendingCounted
  <2> QED
    BY <2>1, <2>2, <2>3, <2>4 DEF LockCounted, OneSaver
<1>2. CASE ~Finally(s)
  <2>1. /\ saving_counter' = saving_counter /\ saves' = saves
        /\ pc[s] \notin {"over", "rejected"}
    BY <1>2 DEF Proceed, Fail, WriteTmp, Backup, Place, PlaceByCopy, Truncate, WriteFile,
                Commit, bounds
  <2>2. \E label \in Label \ {"over"} : Goto(s, label)
    BY <1>2 DEF Proceed, Fail, WriteTmp, Backup, Place, PlaceByCopy, Truncate, WriteFile,
                Commit, Label
  <2> QED
    BY <2>1, <2>2, GotoKeepsLock
<1> QED
  BY <1>1, <1>2

LEMMA DeathKeepsLock ==
  ASSUME TypeOK, LockCounted, OneSaver, NEW p \in Process, Die(p)
  PROVE  LockCounted' /\ OneSaver'
<1>1. saves' = saves
  BY DEF Die
<1>2. CASE p = "console"
  <2>1. \A t \in Saver : pc'[t] = "over"
    BY <1>2 DEF Die
  <2>2. Pending' = {} /\ Holder' = {}
    BY <2>1 DEF Pending, Holder
  <2>3. saving_counter' = 0
    BY <1>2 DEF Die
  <2> QED
    BY <2>1, <2>2, <2>3, FS_EmptySet DEF LockCounted, OneSaver
<1>3. CASE p # "console"
  BY <1>1, <1>3 DEF Die, saverVars, LockCounted, Pending, OneSaver, Holder
<1> QED
  BY <1>2, <1>3

LEMMA LockStep ==
  TypeOK /\ LockCounted /\ OneSaver /\ [Next]_vars => LockCounted' /\ OneSaver'
<1> SUFFICES ASSUME TypeOK, LockCounted, OneSaver, [Next]_vars
             PROVE  LockCounted' /\ OneSaver'
  OBVIOUS
<1>1. ASSUME NEW s \in Saver, event_rules_save(s)
      PROVE  LockCounted' /\ OneSaver'
  <2>1. (IF git THEN "truncate" ELSE "tmp") \in Label \ {"over"}
    BY DEF Label
  <2> QED
    BY <1>1, <2>1, BeginCounts DEF event_rules_save
<1>2. ASSUME NEW s \in Saver, schedule_save(s)
      PROVE  LockCounted' /\ OneSaver'
  BY <1>2, BeginCounts DEF schedule_save, Label
<1>3. ASSUME UNCHANGED <<pc, saving_counter, saves>>
      PROVE  LockCounted' /\ OneSaver'
  BY <1>3 DEF LockCounted, Pending, OneSaver, Holder
<1>4. CASE Edit \/ discard_changes
  BY <1>3, <1>4 DEF Edit, discard_changes, saverVars, bounds
<1>5. ASSUME NEW s \in Saver, Proceed(s)
      PROVE  LockCounted' /\ OneSaver'
  BY <1>5, ProceedKeepsLock
<1>6. ASSUME NEW p \in Process, TimerThrows(p) \/ Crash(p)
      PROVE  LockCounted' /\ OneSaver'
  BY <1>6, DeathKeepsLock DEF TimerThrows, Crash
<1>7. ASSUME NEW p \in Process,
             Notified(p) \/ TimerReload(p) \/ TimerIdle(p) \/ Restart(p) \/ watch_rules(p)
      PROVE  LockCounted' /\ OneSaver'
  BY <1>3, <1>7 DEF Notified, TimerReload, TimerIdle, Restart, watch_rules, saverVars, bounds
<1>8. CASE UNCHANGED vars
  BY <1>3, <1>8 DEF vars
<1> QED
  BY <1>1, <1>2, <1>4, <1>5, <1>6, <1>7, <1>8 DEF Next, Request, Watch, Start

----------------------------------------------------------------------------
(* The file and what is kept of it                                         *)

\* Steps that touch neither the file nor what is kept keep what is known of it,
\* unless a save enters a place it knows something of.
LEMMA KeptUnchanged ==
  ASSUME SavePlaces, Committed, NothingSavedIsLost,
         UNCHANGED <<git, file, backups, replaced, commits, answered>>,
         \A s \in Saver : \/ (pc'[s] = pc[s] /\ doc'[s] = doc[s])
                         \/ pc'[s] \in {"over", "rejected", "resolved", "tmp", "backup"}
                         \/ (pc'[s] = "truncate" /\ git)
  PROVE  SavePlaces' /\ Committed' /\ NothingSavedIsLost'
<1>1. SavePlaces'
  BY DEF SavePlaces
<1> QED
  BY <1>1 DEF Committed, NothingSavedIsLost

\* Only the holder of the lock is in a place that touches the file.
LEMMA OthersElsewhere ==
  ASSUME OneSaver, NEW s \in Saver, pc[s] \notin {"over", "rejected"},
         NEW t \in Saver, t # s
  PROVE  pc[t] \in {"over", "rejected"}
BY DEF OneSaver, Holder

LEMMA ProceedKeeps ==
  ASSUME TypeOK, OneSaver, SavePlaces, Committed, NothingSavedIsLost,
         NEW s \in Saver, Proceed(s)
  PROVE  SavePlaces' /\ Committed' /\ NothingSavedIsLost'
<1>1. ASSUME NEW label, Goto(s, label)
      PROVE  pc'[s] = label /\ \A t \in Saver : t # s => pc'[t] = pc[t]
  BY <1>1 DEF Goto, TypeOK
<1>2. CASE Fail(s) \/ WriteTmp(s) \/ Finally(s)
  <2>1. UNCHANGED <<git, file, backups, replaced, commits, answered>>
    BY <1>2 DEF Fail, WriteTmp, Finally, fileVars, keptVars, bounds
  <2>2. pc'[s] \in {"over", "rejected", "backup"}
    BY <1>1, <1>2 DEF Fail, WriteTmp, Finally
  <2>3. \A t \in Saver : t # s => pc'[t] = pc[t] /\ doc'[t] = doc[t]
    BY <1>1, <1>2 DEF Fail, WriteTmp, Finally, TypeOK
  <2> QED
    BY <2>1, <2>2, <2>3, KeptUnchanged
<1>3. CASE Backup(s)
  <2>1. PICK old \in backups \cup {Missing} :
          /\ backups' = (backups \ {old}) \cup {file}
          /\ replaced' = (replaced \/ old # Missing)
    BY <1>3 DEF Backup, BackedUp
  <2>2. UNCHANGED <<git, commits, answered, doc>> /\ file' = Missing /\ Goto(s, "place")
    BY <1>3 DEF Backup, Put, bounds
  <2>3. pc'[s] = "place" /\ \A t \in Saver : t # s => pc'[t] \in {"over", "rejected"}
    BY <1>1, <1>3, <2>2, OthersElsewhere DEF Backup
  <2>4. answered # Missing
    BY DEF TypeOK, Text
  <2>5. ~git /\ ~replaced' => answered \in backups'
    BY <2>1, <2>4 DEF NothingSavedIsLost
  <2>6. SavePlaces'
    BY <2>2, <2>3, <2>5 DEF SavePlaces
  <2>7. Committed' /\ NothingSavedIsLost'
    BY <2>2, <2>5 DEF Committed, NothingSavedIsLost
  <2> QED
    BY <2>6, <2>7
<1>4. CASE Place(s)
  <2>1. UNCHANGED <<git, backups, replaced, commits, doc>> /\ file' = doc[s] /\ Goto(s, "resolved")
    BY <1>4 DEF Place, Put, keptVars, bounds
  <2>2. pc'[s] = "resolved" /\ \A t \in Saver : t # s => pc'[t] \in {"over", "rejected"}
    BY <1>1, <1>4, <2>1, OthersElsewhere DEF Place
  <2>3. SavePlaces'
    BY <2>2 DEF SavePlaces
  <2>4. answered' = IF git THEN answered ELSE doc[s]
    BY <1>4 DEF Place
  <2> QED
    BY <2>1, <2>3, <2>4 DEF Committed, NothingSavedIsLost
<1>5. CASE PlaceByCopy(s) \/ Truncate(s)
  <2>1. UNCHANGED <<git, backups, replaced, commits, answered, doc>>
    BY <1>5 DEF PlaceByCopy, Truncate, keptVars, bounds
  <2>2. pc'[s] = IF pc[s] = "place" THEN "copy" ELSE "write"
    BY <1>1, <1>5 DEF PlaceByCopy, Truncate
  <2>3. \A t \in Saver : t # s => pc'[t] \in {"over", "rejected"}
    BY <1>1, <1>5, OthersElsewhere DEF PlaceByCopy, Truncate
  <2>4. (pc[s] = "place" \/ git) /\ (pc[s] = "place" /\ ~git /\ ~replaced => answered \in backups)
    BY <1>5 DEF SavePlaces, PlaceByCopy, Truncate
  <2>5. SavePlaces'
    BY <2>1, <2>2, <2>3, <2>4 DEF SavePlaces
  <2> QED
    BY <2>1, <2>4, <2>5 DEF Committed, NothingSavedIsLost
<1>6. CASE WriteFile(s)
  <2>1. UNCHANGED <<git, backups, replaced, commits, answered, doc>> /\ file' = doc[s]
    BY <1>6 DEF WriteFile, Put, keptVars, bounds
  <2>2. pc'[s] = "commit" /\ \A t \in Saver : t # s => pc'[t] \in {"over", "rejected"}
    BY <1>1, <1>6, OthersElsewhere DEF WriteFile
  <2>3. git
    BY <1>6 DEF SavePlaces, WriteFile
  <2>4. SavePlaces'
    BY <2>1, <2>2, <2>3 DEF SavePlaces
  <2> QED
    BY <2>1, <2>3, <2>4 DEF Committed, NothingSavedIsLost
<1>7. CASE Commit(s)
  <2>1. UNCHANGED <<git, file, backups, replaced, doc>> /\ commits' = commits \cup {file}
    BY <1>7 DEF Commit, fileVars, bounds
  <2>2. pc'[s] = "resolved" /\ \A t \in Saver : t # s => pc'[t] \in {"over", "rejected"}
    BY <1>1, <1>7, OthersElsewhere DEF Commit
  <2>3. answered' = doc[s] /\ file = doc[s]
    BY <1>7 DEF Commit, SavePlaces
  <2>4. SavePlaces'
    BY <2>2 DEF SavePlaces
  <2> QED
    BY <2>1, <2>3, <2>4 DEF Committed, NothingSavedIsLost
<1> QED
  BY <1>2, <1>3, <1>4, <1>5, <1>6, <1>7 DEF Proceed

LEMMA KeptStep ==
  TypeOK /\ OneSaver /\ SavePlaces /\ Committed /\ NothingSavedIsLost /\ [Next]_vars
    => SavePlaces' /\ Committed' /\ NothingSavedIsLost'
<1> SUFFICES ASSUME TypeOK, OneSaver, SavePlaces, Committed, NothingSavedIsLost, [Next]_vars
             PROVE  SavePlaces' /\ Committed' /\ NothingSavedIsLost'
  OBVIOUS
<1>1. ASSUME NEW s \in Saver, NEW first, NEW text, Begin(s, first, text),
             first = "tmp" \/ (first = "truncate" /\ git)
      PROVE  SavePlaces' /\ Committed' /\ NothingSavedIsLost'
  <2>1. UNCHANGED <<git, file, backups, replaced, commits, answered>>
    BY <1>1 DEF Begin, fileVars, keptVars
  <2>2. pc'[s] \in {first, "rejected"}
    BY <1>1 DEF Begin, TypeOK
  <2>3. \A t \in Saver : t # s => pc'[t] = pc[t] /\ doc'[t] = doc[t]
    BY <1>1 DEF Begin, TypeOK
  <2> QED
    BY <1>1, <2>1, <2>2, <2>3, KeptUnchanged
<1>2. ASSUME NEW s \in Saver, event_rules_save(s) \/ schedule_save(s)
      PROVE  SavePlaces' /\ Committed' /\ NothingSavedIsLost'
  <2>1. CASE event_rules_save(s)
    BY <1>1, <2>1 DEF event_rules_save
  <2>2. CASE schedule_save(s)
    BY <1>1, <2>2 DEF schedule_save
  <2> QED
    BY <1>2, <2>1, <2>2
<1>3. ASSUME NEW s \in Saver, Proceed(s)
      PROVE  SavePlaces' /\ Committed' /\ NothingSavedIsLost'
  BY <1>3, ProceedKeeps
<1>4. ASSUME NEW p \in Process, Die(p)
      PROVE  SavePlaces' /\ Committed' /\ NothingSavedIsLost'
  <2>1. UNCHANGED <<git, file, backups, replaced, commits, answered>>
    BY <1>4 DEF Die, keptVars
  <2>2. \A s \in Saver : pc'[s] = "over" \/ (pc'[s] = pc[s] /\ doc'[s] = doc[s])
    BY <1>4 DEF Die, saverVars
  <2> QED
    BY <2>1, <2>2, KeptUnchanged
<1>5. ASSUME UNCHANGED <<git, file, backups, replaced, commits, answered, pc, doc>>
      PROVE  SavePlaces' /\ Committed' /\ NothingSavedIsLost'
  BY <1>5, KeptUnchanged
<1>6. CASE Edit \/ discard_changes
  BY <1>5, <1>6 DEF Edit, discard_changes, fileVars, keptVars, saverVars, bounds
<1>7. ASSUME NEW p \in Process,
             Notified(p) \/ TimerReload(p) \/ TimerIdle(p) \/ Restart(p) \/ watch_rules(p)
      PROVE  SavePlaces' /\ Committed' /\ NothingSavedIsLost'
  BY <1>5, <1>7 DEF Notified, TimerReload, TimerIdle, Restart, watch_rules, fileVars, keptVars,
                    saverVars, bounds
<1>8. CASE UNCHANGED vars
  BY <1>5, <1>8 DEF vars
<1> QED
  BY <1>2, <1>3, <1>4, <1>6, <1>7, <1>8 DEF Next, Request, Watch, Start, TimerThrows, Crash

----------------------------------------------------------------------------
(* The server's watch                                                      *)

LEMMA ReloadStep ==
  TypeOK /\ ReloadIsDue /\ StartedFrom /\ [Next]_vars => ReloadIsDue' /\ StartedFrom'
<1> SUFFICES ASSUME TypeOK, ReloadIsDue, StartedFrom, [Next]_vars
             PROVE  ReloadIsDue' /\ StartedFrom'
  OBVIOUS
<1>1. ASSUME phase' = phase, book'["server"] = book["server"], file' = file,
             notices' = notices, blind' = blind, timers' = timers, watch_events' = watch_events
      PROVE  ReloadIsDue' /\ StartedFrom'
  BY <1>1 DEF ReloadIsDue, StartedFrom
<1>2. ASSUME NEW x, Put(x), phase' = phase, book' = book
      PROVE  ReloadIsDue' /\ StartedFrom'
  BY <1>2 DEF Put, ReloadIsDue, StartedFrom
<1>3. ASSUME NEW s \in Saver, Backup(s) \/ Place(s) \/ PlaceByCopy(s) \/ Truncate(s) \/ WriteFile(s)
      PROVE  ReloadIsDue' /\ StartedFrom'
  BY <1>2, <1>3 DEF Backup, Place, PlaceByCopy, Truncate, WriteFile, bookVars
<1>4. ASSUME NEW s \in Saver, Fail(s) \/ WriteTmp(s) \/ Commit(s) \/ Finally(s)
      PROVE  ReloadIsDue' /\ StartedFrom'
  BY <1>1, <1>4 DEF Fail, WriteTmp, Commit, Finally, fileVars, bookVars, watchVars
<1>5. CASE Request
  <2>1. book'["server"] = book["server"]
    BY <1>5 DEF Request, Edit, discard_changes, event_rules_save, schedule_save, TypeOK
  <2>2. phase' = phase /\ UNCHANGED <<fileVars, watchVars>>
    BY <1>5 DEF Request, Edit, discard_changes, event_rules_save, schedule_save, Begin
  <2> QED
    BY <1>1, <2>1, <2>2 DEF fileVars, watchVars
<1>6. ASSUME NEW p \in Process, Notified(p)
      PROVE  ReloadIsDue' /\ StartedFrom'
  <2>1. CASE p = "server"
    <3>1. watch_events'["server"] > 0 /\ timers'["server"] > 0
      BY <1>6, <2>1 DEF Notified, TypeOK
    <3> QED
      BY <1>6, <2>1, <3>1 DEF Notified, ReloadIsDue, StartedFrom
  <2>2. CASE p = "console"
    BY <1>6, <2>2 DEF Notified, ReloadIsDue, StartedFrom, bookVars, TypeOK
  <2> QED
    BY <2>1, <2>2
<1>7. ASSUME NEW p \in Process, TimerReload(p)
      PROVE  ReloadIsDue' /\ StartedFrom'
  <2>1. CASE p = "server"
    BY <1>7, <2>1 DEF TimerReload, Loads, ReloadIsDue, StartedFrom, TypeOK
  <2>2. CASE p = "console"
    BY <1>7, <2>2 DEF TimerReload, ReloadIsDue, StartedFrom, TypeOK
  <2> QED
    BY <2>1, <2>2
<1>8. ASSUME NEW p \in Process, TimerIdle(p)
      PROVE  ReloadIsDue' /\ StartedFrom'
  <2>1. watch_events' = watch_events /\ phase' = phase /\ UNCHANGED <<fileVars, bookVars>>
    BY <1>8 DEF TimerIdle
  <2>2. watch_events["server"] > 0 => timers'["server"] = timers["server"]
    BY <1>8 DEF TimerIdle, TypeOK
  <2> QED
    BY <2>1, <2>2 DEF ReloadIsDue, StartedFrom, fileVars, bookVars
<1>9. ASSUME NEW p \in Process, Die(p)
      PROVE  ReloadIsDue' /\ StartedFrom'
  <2>1. CASE p = "server"
    BY <1>9, <2>1 DEF Die, ReloadIsDue, StartedFrom, TypeOK
  <2>2. CASE p = "console"
    BY <1>9, <2>2 DEF Die, ReloadIsDue, StartedFrom, TypeOK
  <2> QED
    BY <2>1, <2>2
<1>10. ASSUME NEW p \in Process, Restart(p) \/ watch_rules(p)
       PROVE  ReloadIsDue' /\ StartedFrom'
  <2>1. CASE p = "server"
    BY <1>10, <2>1 DEF Restart, watch_rules, Loads, ReloadIsDue, StartedFrom, TypeOK, fileVars,
                       bookVars, watchVars
  <2>2. CASE p = "console"
    BY <1>10, <2>2 DEF Restart, watch_rules, ReloadIsDue, StartedFrom, TypeOK, fileVars,
                       bookVars, watchVars
  <2> QED
    BY <2>1, <2>2
<1>11. CASE UNCHANGED vars
  BY <1>1, <1>11 DEF vars
<1> QED
  BY <1>3, <1>4, <1>5, <1>6, <1>7, <1>8, <1>9, <1>10, <1>11
     DEF Next, Proceed, Watch, Start, TimerThrows, Crash

----------------------------------------------------------------------------
(* The theorems                                                            *)

LEMMA Invariance == Spec => []IInv
<1>1. Init => IInv
  <2> SUFFICES ASSUME Init PROVE IInv
    OBVIOUS
  <2>1. TypeOK
    BY InitType
  <2>2. Pending = {} /\ Holder = {}
    BY DEF Init, Pending, Holder
  <2>3. LockCounted /\ OneSaver
    BY <2>2, FS_EmptySet DEF Init, LockCounted, OneSaver
  <2>4. SavePlaces /\ Committed /\ NothingSavedIsLost /\ ReloadIsDue /\ StartedFrom
    BY DEF Init, SavePlaces, Committed, NothingSavedIsLost, ReloadIsDue, StartedFrom
  <2> QED
    BY <2>1, <2>3, <2>4 DEF IInv
<1>2. IInv /\ [Next]_vars => IInv'
  BY TypeStep, LockStep, KeptStep, ReloadStep DEF IInv
<1> QED
  BY <1>1, <1>2, PTL DEF Spec

\* Every reachable state is well-typed; in particular the counter that is the
\* lock of save_yaml_async and save_yaml_git_async never becomes negative.
THEOREM StoreTypeCorrect == Spec => []TypeOK
<1>1. IInv => TypeOK
  BY DEF IInv
<1> QED
  BY <1>1, Invariance, PTL

\* saving_counter lets one save at a time work on the file, with any number of
\* requests and with failing and rejected ones among them.
THEOREM OneSaveAtATime == Spec => []OneSaver
<1>1. IInv => OneSaver
  BY DEF IInv
<1> QED
  BY <1>1, Invariance, PTL

\* What a save has stored stays in the file, in a backup or in a commit, whatever
\* fails or dies later.
THEOREM SavedIsKept == Spec => []NothingSavedIsLost
<1>1. IInv => NothingSavedIsLost
  BY DEF IInv
<1> QED
  BY <1>1, Invariance, PTL

\* watch_rules never leaves a running server with other rules than the file's and
\* nothing under way to reload them.
THEOREM NoMissedReload == Spec => []ReloadIsDue
<1>1. IInv => ReloadIsDue
  BY DEF IInv
<1> QED
  BY <1>1, Invariance, PTL
=============================================================================
