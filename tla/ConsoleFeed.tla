---------------------------- MODULE ConsoleFeed ----------------------------
(***************************************************************************)
(* How the events in the database reach the grids of the consoles.  A       *)
(* console looks through a filter; the socket joins the filter's room, the   *)
(* grid is filled from one query, and from then on one poller per filter    *)
(* sends what has changed since its last query to the room.  Rows that have *)
(* left a filter, and deletions nobody announced, are found by sending the  *)
(* room the ids that belong in it.  Every query takes time: an answer is    *)
(* read at one moment and sent at another, and a change is stamped some time *)
(* before it is written.                                                   *)
(*                                                                         *)
(* What is abstracted: an event is its state_change and the one field that  *)
(* filters look at; sending and showing are one step, as the messages of a  *)
(* socket keep their order; the view limit is above the number of events.   *)
(***************************************************************************)
EXTENDS Naturals, FiniteSets

CONSTANTS
  Event,       \* the _ids that events can have
  Client,      \* the consoles
  Filter,      \* the filters in use
  AllFilter,   \* the filter {}
  Kind,        \* the values of the field that filters look at
  Cleared,     \* the kind of a cleared event
  Matches,     \* Matches[f]: the kinds that filter f selects
  None,        \* no room
  Absent,      \* no document, or no row
  Unread,      \* a query that the database has not answered
  MaxClock,    \* bound: the last moment
  MaxWrites,   \* bound: how many writes and deletions are made
  MaxLooks,    \* bound: how often a console connects or changes its filter
  MaxFills,    \* bound: how many populate queries a console has at a time
  MaxAnswers   \* bound: how many answers with ids a filter has at a time

ASSUME FeedAssumption ==
  /\ AllFilter \in Filter /\ None \notin Filter
  /\ Cleared \in Kind
  /\ Matches \in [Filter -> SUBSET Kind] /\ Matches[AllFilter] = Kind
  /\ {MaxClock, MaxWrites, MaxLooks, MaxFills, MaxAnswers} \subseteq Nat

Time == 0..MaxClock

Doc == [kind : Kind, state_change : Time]

ASSUME MarkerAssumption ==
  Absent \notin Doc /\ Unread \notin [Event -> Doc \cup {Absent}]

\* The rows of a grid, or the documents that a query finds, by _id.
Rows == [Event -> Doc \cup {Absent}]

\* Who writes: the event server without telling the console, or an operator.
Writer == {"server", "update", "clear"}

VARIABLES
  clock,
  alerts,      \* the documents in the database
  used,        \* the _ids given so far
  clears,      \* is a clear's delayed list of ids to come
  deleted,     \* the deletions done and not announced yet
  room,        \* room[c]: the filter whose room the console is in
  grid,        \* grid[c]: the rows it shows
  fills,       \* the populate queries under way
  instances,   \* the filters that have a poller
  running,     \* those whose poller is marked as running
  chain,       \* chain[f]: what the poller waits for
  last_query_value,
  found,       \* found[f]: what the poll's query found
  asked,       \* the filters whose ids have been asked for
  answers,     \* the lists of ids read and not sent yet
  late,        \* history: <<f, e>> whose write was stamped for a time that f's poller had passed
  overtaken,   \* history: <<c, e>> whose row an older answer has replaced
  writes, looks  \* bounds

dbVars == <<alerts, used, late, writes>>
pollVars == <<instances, running, chain, last_query_value, found>>
idsVars == <<asked, answers>>
clientVars == <<room, grid, fills, overtaken, looks>>
noticeVars == <<clears, deleted>>
vars == <<clock, dbVars, noticeVars, clientVars, pollVars, idsVars>>

Empty == [e \in Event |-> Absent]

Init ==
  /\ clock = 0
  /\ alerts = Empty /\ used = {} /\ clears = FALSE /\ deleted = {}
  /\ room = [c \in Client |-> None]
  /\ grid = [c \in Client |-> Empty]
  /\ fills = {}
  /\ instances = {} /\ running = {}
  /\ chain = [f \in Filter |-> "none"]
  /\ last_query_value = [f \in Filter |-> 0]
  /\ found = [f \in Filter |-> Empty]
  /\ asked = {} /\ answers = {}
  /\ late = {} /\ overtaken = {} /\ writes = 0 /\ looks = 0

Members(f) == {c \in Client : room[c] = f}

Present(rows) == {e \in Event : rows[e] # Absent}

\* What the filter finds in the database.
Find(f) ==
  [e \in Event |-> IF alerts[e] # Absent /\ alerts[e].kind \in Matches[f]
                   THEN alerts[e] ELSE Absent]

\* What of it is newer than a moment.
get_since_async(f, last) ==
  [e \in Event |-> IF Find(f)[e] # Absent /\ Find(f)[e].state_change > last
                   THEN Find(f)[e] ELSE Absent]

\* Mutant: the next poll asks for what changes from now on.
NewestNow(rows, last) == clock

\* The newest state_change that was found.
Newest(rows, last) ==
  IF Present(rows) = {} THEN last
  ELSE CHOOSE t \in {rows[e].state_change : e \in Present(rows)} :
         \A e \in Present(rows) : rows[e].state_change <= t

\* f's poller will not ask for this moment again.
Passed(f, t) ==
  \/ t <= last_query_value[f]
  \/ \E e \in Present(found[f]) : t <= found[f][e].state_change

----------------------------------------------------------------------------
(* Writing                                                                 *)

Tick ==
  /\ clock < MaxClock
  /\ clock' = clock + 1
  /\ UNCHANGED <<dbVars, noticeVars, clientVars, pollVars, idsVars>>

OnScreen(e) == \E c \in Client : room[c] # None /\ grid[c][e] # Absent

\* The server inserts or updates, an operator's update finds the event or does
\* nothing; an _id that has been deleted is not given again.
Written(e, doc, by) ==
  IF alerts[e] # Absent \/ (by = "server" /\ e \notin used)
  THEN [alerts EXCEPT ![e] = doc]
  ELSE alerts

\* Mutant: no list of ids is asked for after an update, or by a poll.
IdsDueNever(filters) == {}

\* emit_current_ids: the list for {} is only sent after a clear.
IdsDue(filters) == filters \ {AllFilter}

\* A write reaches the database.  The writer took the time before it waited for
\* the database, and for the archive before that, so the document may carry any
\* moment up to now; an operator's write is announced.
Commit(e, doc, by) ==
  /\ writes < MaxWrites /\ writes' = writes + 1
  /\ doc.state_change <= clock
  /\ by = "clear" => doc.kind = Cleared
  /\ by # "server" => e \in used
  /\ alerts' = Written(e, doc, by)
  /\ used' = used \cup {e}
  /\ late' = {x \in late : x[2] # e} \cup
             {<<f, e>> : f \in {g \in instances : Passed(g, doc.state_change)}}
  /\ overtaken' = {x \in overtaken : x[2] # e}
  /\ asked' = IF by = "server" THEN asked ELSE asked \cup IdsDue(instances)
  /\ clears' = (clears \/ by = "clear")
  /\ UNCHANGED <<clock, deleted, room, grid, fills, looks, pollVars, answers>>

\* 21 seconds after a clear all filters get their ids.
ClearTimer ==
  /\ clears
  /\ clears' = FALSE
  /\ asked' = asked \cup instances
  /\ UNCHANGED <<clock, dbVars, deleted, clientVars, pollVars, answers>>

\* events::delete, and then its announcement to everybody.
Delete(e) ==
  /\ writes < MaxWrites /\ writes' = writes + 1
  /\ OnScreen(e)
  /\ alerts' = [alerts EXCEPT ![e] = Absent]
  /\ deleted' = deleted \cup {e}
  /\ late' = {x \in late : x[2] # e}
  /\ UNCHANGED <<clock, used, clears, clientVars, pollVars, idsVars>>

Deletes(e) ==
  /\ e \in deleted
  /\ deleted' = deleted \ {e}
  /\ grid' = [c \in Client |-> IF room[c] = None THEN grid[c]
                               ELSE [grid[c] EXCEPT ![e] = Absent]]
  /\ UNCHANGED <<clock, dbVars, clears, room, fills, overtaken, looks, pollVars, idsVars>>

\* A trigger of the server, events::delete::all or a hand in the database
\* deletes: no console is told.
Vanish(e) ==
  /\ writes < MaxWrites /\ writes' = writes + 1
  /\ alerts[e] # Absent
  /\ alerts' = [alerts EXCEPT ![e] = Absent]
  /\ late' = {x \in late : x[2] # e}
  /\ UNCHANGED <<clock, used, noticeVars, clientVars, pollVars, idsVars>>

----------------------------------------------------------------------------
(* Consoles                                                                *)

\* fetch_id_and_start: a new poller starts from now, an idle one from where it
\* had come to.
FetchAndStart(f) ==
  /\ instances' = instances \cup {f}
  /\ last_query_value' = IF f \in instances THEN last_query_value
                         ELSE [last_query_value EXCEPT ![f] = clock]
  /\ running' = running \cup {f}
  /\ chain' = IF f \in running THEN chain ELSE [chain EXCEPT ![f] = "delay"]
  /\ UNCHANGED found

\* The socket leaves its room for the filter's, and asks for the rows.
Join(c, f) ==
  /\ Cardinality({x \in fills : x.client = c}) < MaxFills
  /\ looks < MaxLooks /\ looks' = looks + 1
  /\ room' = [room EXCEPT ![c] = f]
  /\ fills' = fills \cup {[client |-> c, filter |-> f, rows |-> Unread]}
  /\ overtaken' = {x \in overtaken : x[1] # c}
  /\ FetchAndStart(f)
  /\ UNCHANGED <<clock, dbVars, noticeVars, idsVars>>

\* A new socket gets its user's default filter when it first asks for rows.
Connect(c, f) == room[c] = None /\ Join(c, f) /\ UNCHANGED grid

\* set_view, set_group, set_severity: the console clears its grid.
SetView(c, f) == room[c] # None /\ Join(c, f) /\ grid' = [grid EXCEPT ![c] = Empty]

Disconnect(c) ==
  /\ room[c] # None
  /\ room' = [room EXCEPT ![c] = None]
  /\ fills' = {x \in fills : x.client # c}
  /\ overtaken' = {o \in overtaken : o[1] # c}
  /\ UNCHANGED <<clock, dbVars, noticeVars, grid, looks, pollVars, idsVars>>

PopulateRead(x) ==
  /\ x \in fills /\ x.rows = Unread
  /\ fills' = (fills \ {x}) \cup {[x EXCEPT !.rows = Find(x.filter)]}
  /\ UNCHANGED <<clock, dbVars, noticeVars, room, grid, overtaken, looks, pollVars, idsVars>>

\* The rows replace the grid, whichever filter the console looks through by now.
Inserts(x) ==
  /\ x \in fills /\ x.rows # Unread
  /\ fills' = fills \ {x}
  /\ grid' = [grid EXCEPT ![x.client] = x.rows]
  /\ LET f == room[x.client]
     IN overtaken' = {o \in overtaken : o[1] # x.client} \cup
          {<<x.client, e>> : e \in {d \in Present(Find(f)) :
             x.rows[d] # alerts[d] /\ alerts[d].state_change <= last_query_value[f]}}
  /\ UNCHANGED <<clock, dbVars, noticeVars, room, looks, pollVars, idsVars>>

----------------------------------------------------------------------------
(* Polling                                                                 *)

\* The delay is over: the ids are asked for, and what is new is looked up.
PollRead(f) ==
  /\ chain[f] = "delay"
  /\ chain' = [chain EXCEPT ![f] = "found"]
  /\ asked' = asked \cup IdsDue({f})
  /\ found' = [found EXCEPT ![f] = get_since_async(f, last_query_value[f])]
  /\ UNCHANGED <<clock, dbVars, noticeVars, clientVars, instances, running, last_query_value,
                 answers>>

\* The rows that are shown are updated, the others added.
OnDeltas(rows, docs) == [e \in Event |-> IF docs[e] # Absent THEN docs[e] ELSE rows[e]]

\* Mutant: the poll ends and its poller stays marked as running.
StopForgotten(f) == running

stop(f) == running \ {f}

\* What was found is sent to the room; the poll goes on while there is somebody.
PollEmit(f) ==
  /\ chain[f] = "found"
  /\ last_query_value' = [last_query_value EXCEPT ![f] = Newest(found[f], @)]
  /\ grid' = [c \in Client |-> IF c \in Members(f) THEN OnDeltas(grid[c], found[f]) ELSE grid[c]]
  /\ found' = [found EXCEPT ![f] = Empty]
  /\ chain' = [chain EXCEPT ![f] = IF Members(f) # {} THEN "delay" ELSE "none"]
  /\ running' = IF Members(f) # {} THEN running ELSE stop(f)
  /\ UNCHANGED <<clock, dbVars, noticeVars, room, fills, overtaken, looks, instances, idsVars>>

\* The ids are read; those of a poll may be read before the poll's documents.
IdsRead(f) ==
  /\ f \in asked \cup (IF chain[f] = "delay" THEN IdsDue({f}) ELSE {})
  /\ Cardinality({a \in answers : a.filter = f}) < MaxAnswers
  /\ asked' = asked \ {f}
  /\ answers' = answers \cup {[filter |-> f, ids |-> Present(Find(f))]}
  /\ UNCHANGED <<clock, dbVars, noticeVars, clientVars, pollVars>>

\* Rows whose id is not in the list are removed.
OnIds(rows, ids) == [e \in Event |-> IF e \in ids THEN rows[e] ELSE Absent]

IdsEmit(a) ==
  /\ a \in answers
  /\ answers' = answers \ {a}
  /\ grid' = [c \in Client |-> IF c \in Members(a.filter) THEN OnIds(grid[c], a.ids) ELSE grid[c]]
  /\ overtaken' = overtaken \cup
       (Members(a.filter) \X {e \in Present(Find(a.filter)) : e \notin a.ids})
  /\ UNCHANGED <<clock, dbVars, noticeVars, room, fills, looks, pollVars, asked>>

----------------------------------------------------------------------------

Writing ==
  \/ Tick
  \/ \E e \in Event, doc \in Doc, by \in Writer : Commit(e, doc, by)
  \/ ClearTimer
  \/ \E e \in Event : Delete(e) \/ Deletes(e) \/ Vanish(e)

Looking ==
  \/ \E c \in Client, f \in Filter : Connect(c, f) \/ SetView(c, f)
  \/ \E c \in Client : Disconnect(c)
  \/ \E x \in fills : PopulateRead(x) \/ Inserts(x)

Polling ==
  \/ \E f \in Filter : PollRead(f) \/ PollEmit(f) \/ IdsRead(f)
  \/ \E a \in answers : IdsEmit(a)

Next == Writing \/ Looking \/ Polling

Spec == Init /\ [][Next]_vars

\* Timers run out and the database answers; nobody has to write, look or delete.
FairSpec ==
  /\ Spec
  /\ \A f \in Filter :
       /\ WF_vars(PollRead(f)) /\ WF_vars(PollEmit(f))
       /\ WF_vars(IdsRead(f))
       /\ WF_vars(\E a \in answers : a.filter = f /\ IdsEmit(a))
  /\ \A c \in Client :
       /\ WF_vars(\E x \in fills : x.client = c /\ PopulateRead(x))
       /\ WF_vars(\E x \in fills : x.client = c /\ Inserts(x))
  /\ \A e \in Event : WF_vars(Deletes(e))

----------------------------------------------------------------------------
(* Properties                                                              *)

Fill == [client : Client, filter : Filter, rows : Rows \cup {Unread}]

TypeOK ==
  /\ clock \in Time /\ alerts \in Rows /\ used \subseteq Event
  /\ clears \in BOOLEAN /\ deleted \subseteq Event
  /\ room \in [Client -> Filter \cup {None}] /\ grid \in [Client -> Rows]
  /\ fills \subseteq Fill
  /\ instances \subseteq Filter /\ running \subseteq instances
  /\ chain \in [Filter -> {"none", "delay", "found"}]
  /\ last_query_value \in [Filter -> Time] /\ found \in [Filter -> Rows]
  /\ asked \subseteq instances
  /\ answers \subseteq [filter : Filter, ids : SUBSET Event]
  /\ late \subseteq Filter \X Event /\ overtaken \subseteq Client \X Event
  /\ writes \in 0..MaxWrites /\ looks \in 0..MaxLooks

\* A room somebody is in is polled, whoever came, left and came back while a
\* query was under way.
RoomIsPolled == \A c \in Client : room[c] # None => chain[room[c]] # "none"

\* What a poller has passed its console shows: a matching event is missing from a
\* grid that has been filled, or is there in an old version, only when its write
\* was stamped for a time that the poller had passed, or when an answer that was
\* read before the write was sent after it.
MissedOnlyByRace ==
  \A c \in Client, e \in Event :
    LET f == room[c]
    IN (/\ f # None
        /\ \A x \in fills : x.client # c
        /\ e \in Present(Find(f))
        /\ alerts[e].state_change <= last_query_value[f]
        /\ <<f, e>> \notin late /\ <<c, e>> \notin overtaken)
       => grid[c][e] = alerts[e]

\* A console that stays with a filter other than {} ends up showing no event that
\* has left the filter or the database, announced or not.
GhostsLeave ==
  \A c \in Client, f \in Filter \ {AllFilter} :
    <>[](room[c] = f) => <>[](room[c] = f => Present(grid[c]) \subseteq Present(Find(f)))
=============================================================================
