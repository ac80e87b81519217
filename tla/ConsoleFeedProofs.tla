------------------------- MODULE ConsoleFeedProofs -------------------------
(***************************************************************************)
(* Proofs about ConsoleFeed, for any number of consoles, filters and       *)
(* events: a room with members is polled; types, by which no ids are asked *)
(* for a filter that has no poller and no poller runs that has not been    *)
(* made; and what a poller has passed its consoles show, except for the    *)
(* races that ConsoleFeed keeps as history.                                *)
(***************************************************************************)
EXTENDS ConsoleFeed, TLAPS, WellFoundedInduction

ChainState == {"none", "delay", "found"}

\* The types the argument needs, and the two facts it rests on: a poller is
\* marked as running exactly while its chain goes on.
PollTypes ==
  /\ room \in [Client -> Filter \cup {None}]
  /\ chain \in [Filter -> ChainState]
  /\ running \subseteq Filter

MarkedWhilePolling == \A f \in Filter : f \in running <=> chain[f] # "none"

PollInv == PollTypes /\ MarkedWhilePolling /\ RoomIsPolled

\* Fetching and starting a poller leaves it polling, and every other as it was.
LEMMA StartPolls ==
  ASSUME PollInv, NEW f \in Filter, FetchAndStart(f)
  PROVE  /\ chain' \in [Filter -> ChainState] /\ running' \subseteq Filter
         /\ MarkedWhilePolling'
         /\ chain'[f] # "none"
         /\ \A g \in Filter : chain[g] # "none" => chain'[g] # "none"
<1>1. running' = running \cup {f} BY DEF FetchAndStart
<1>2. CASE f \in running
  <2>1. chain' = chain BY <1>2 DEF FetchAndStart
  <2>2. chain[f] # "none" BY <1>2 DEF PollInv, MarkedWhilePolling
  <2> QED BY <1>1, <1>2, <2>1, <2>2 DEF PollInv, PollTypes, MarkedWhilePolling
<1>3. CASE f \notin running
  <2>1. chain' = [chain EXCEPT ![f] = "delay"] BY <1>3 DEF FetchAndStart
  <2>2. chain' \in [Filter -> ChainState] BY <2>1 DEF PollInv, PollTypes, ChainState
  <2>3. \A g \in Filter : chain'[g] = IF g = f THEN "delay" ELSE chain[g]
    BY <2>1 DEF PollInv, PollTypes
  <2> QED BY <1>1, <2>2, <2>3 DEF PollInv, PollTypes, MarkedWhilePolling
<1> QED BY <1>2, <1>3

\* Joining a room keeps the invariant.
LEMMA JoinKeepsPolling ==
  ASSUME PollInv, NEW c \in Client, NEW f \in Filter, Join(c, f)
  PROVE  PollInv'
<1>1. FetchAndStart(f) /\ room' = [room EXCEPT ![c] = f] BY DEF Join
<1>2. /\ chain' \in [Filter -> ChainState] /\ running' \subseteq Filter
      /\ MarkedWhilePolling'
      /\ chain'[f] # "none"
      /\ \A g \in Filter : chain[g] # "none" => chain'[g] # "none"
  BY <1>1, StartPolls
<1>3. room' \in [Client -> Filter \cup {None}] BY <1>1 DEF PollInv, PollTypes
<1>4. RoomIsPolled'
  <2> SUFFICES ASSUME NEW d \in Client, room'[d] # None PROVE chain'[room'[d]] # "none"
    BY DEF RoomIsPolled
  <2>1. CASE d = c BY <1>1, <1>2, <2>1 DEF PollInv, PollTypes
  <2>2. CASE d # c
    <3>1. room'[d] = room[d] BY <1>1, <2>2 DEF PollInv, PollTypes
    <3>2. room[d] \in Filter /\ chain[room[d]] # "none"
      BY <3>1 DEF PollInv, PollTypes, RoomIsPolled
    <3> QED BY <1>2, <3>1, <3>2
  <2> QED BY <2>1, <2>2
<1> QED BY <1>2, <1>3, <1>4 DEF PollInv, PollTypes

\* So does a poll that finds its query answered: it ends only in an empty room.
LEMMA EmitKeepsPolling ==
  ASSUME PollInv, NEW f \in Filter, PollEmit(f)
  PROVE  PollInv'
<1>1. /\ room' = room
      /\ chain' = [chain EXCEPT ![f] = IF Members(f) # {} THEN "delay" ELSE "none"]
      /\ running' = IF Members(f) # {} THEN running ELSE stop(f)
      /\ chain[f] = "found"
  BY DEF PollEmit
<1>2. chain' \in [Filter -> ChainState] BY <1>1 DEF PollInv, PollTypes, ChainState
<1>3. \A g \in Filter :
        chain'[g] = IF g = f THEN IF Members(f) # {} THEN "delay" ELSE "none" ELSE chain[g]
  BY <1>1 DEF PollInv, PollTypes
<1>4. f \in running BY <1>1 DEF PollInv, MarkedWhilePolling
<1>5. MarkedWhilePolling' /\ running' \subseteq Filter
  <2>1. CASE Members(f) # {} BY <1>1, <1>3, <1>4, <2>1 DEF PollInv, PollTypes, MarkedWhilePolling
  <2>2. CASE Members(f) = {}
    <3>1. running' = running \ {f} BY <1>1, <2>2 DEF stop
    <3> QED BY <1>3, <2>2, <3>1 DEF PollInv, PollTypes, MarkedWhilePolling
  <2> QED BY <2>1, <2>2
<1>6. RoomIsPolled'
  <2> SUFFICES ASSUME NEW c \in Client, room[c] # None PROVE chain'[room[c]] # "none"
    BY <1>1 DEF RoomIsPolled
  <2>1. room[c] \in Filter /\ chain[room[c]] # "none"
    BY DEF PollInv, PollTypes, RoomIsPolled
  <2>2. CASE room[c] = f
    <3>1. c \in Members(f) BY <2>2 DEF Members
    <3> QED BY <1>3, <2>2, <3>1
  <2>3. CASE room[c] # f BY <1>3, <2>1, <2>3
  <2> QED BY <2>2, <2>3
<1> QED BY <1>1, <1>2, <1>5, <1>6 DEF PollInv, PollTypes

\* The invariant holds initially.
LEMMA PollInvInit == Init => PollInv
<1> SUFFICES ASSUME Init PROVE PollInv OBVIOUS
<1>1. PollTypes BY DEF Init, PollTypes, ChainState
<1>2. MarkedWhilePolling BY DEF Init, MarkedWhilePolling
<1>3. RoomIsPolled BY DEF Init, RoomIsPolled
<1> QED BY <1>1, <1>2, <1>3 DEF PollInv

\* Every step keeps it.
LEMMA PollInvStep == PollInv /\ [Next]_vars => PollInv'
<1> SUFFICES ASSUME PollInv, [Next]_vars PROVE PollInv' OBVIOUS
<1>a. CASE UNCHANGED <<room, chain, running>>
  BY <1>a DEF PollInv, PollTypes, MarkedWhilePolling, RoomIsPolled
<1>1. CASE Writing
  BY <1>1, <1>a DEF Writing, Tick, Commit, ClearTimer, Delete, Deletes, Vanish, clientVars, pollVars
<1>2. CASE Looking
  <2>1. ASSUME NEW c \in Client, NEW f \in Filter, Connect(c, f) \/ SetView(c, f) PROVE PollInv'
    BY <2>1, JoinKeepsPolling DEF Connect, SetView
  <2>2. ASSUME NEW c \in Client, Disconnect(c) PROVE PollInv'
    <3>1. /\ room' = [room EXCEPT ![c] = None]
          /\ chain' = chain /\ running' = running
      BY <2>2 DEF Disconnect, pollVars
    <3>2. PollTypes' BY <3>1 DEF PollInv, PollTypes
    <3>3. MarkedWhilePolling' BY <3>1 DEF PollInv, MarkedWhilePolling
    <3>4. RoomIsPolled' BY <3>1 DEF PollInv, PollTypes, RoomIsPolled
    <3> QED BY <3>2, <3>3, <3>4 DEF PollInv
  <2>3. ASSUME NEW x \in fills, PopulateRead(x) \/ Inserts(x) PROVE PollInv'
    BY <2>3, <1>a DEF PopulateRead, Inserts, pollVars
  <2> QED BY <1>2, <2>1, <2>2, <2>3 DEF Looking
<1>3. CASE Polling
  <2>1. ASSUME NEW f \in Filter, PollRead(f) PROVE PollInv'
    <3>1. /\ room' = room /\ running' = running
          /\ chain' = [chain EXCEPT ![f] = "found"] /\ chain[f] = "delay"
      BY <2>1 DEF PollRead, clientVars
    <3>2. \A g \in Filter : chain'[g] = IF g = f THEN "found" ELSE chain[g]
      BY <3>1 DEF PollInv, PollTypes
    <3>3. PollTypes' BY <3>1 DEF PollInv, PollTypes, ChainState
    <3>4. MarkedWhilePolling' BY <3>1, <3>2 DEF PollInv, MarkedWhilePolling
    <3>5. RoomIsPolled' BY <3>1, <3>2 DEF PollInv, PollTypes, RoomIsPolled
    <3> QED BY <3>3, <3>4, <3>5 DEF PollInv
  <2>2. ASSUME NEW f \in Filter, PollEmit(f) PROVE PollInv'
    BY <2>2, EmitKeepsPolling
  <2>3. ASSUME NEW f \in Filter, IdsRead(f) PROVE PollInv'
    BY <2>3, <1>a DEF IdsRead, clientVars, pollVars
  <2>4. ASSUME NEW a \in answers, IdsEmit(a) PROVE PollInv'
    BY <2>4, <1>a DEF IdsEmit, pollVars
  <2> QED BY <1>3, <2>1, <2>2, <2>3, <2>4 DEF Polling
<1>4. CASE UNCHANGED vars BY <1>4, <1>a DEF vars, clientVars, pollVars
<1> QED BY <1>1, <1>2, <1>3, <1>4 DEF Next

\* A room somebody is in is polled, however consoles come, leave and come back
\* while the queries of a poller are under way (mongopoll.ts:186-207).
THEOREM RoomsArePolled == Spec => []RoomIsPolled
<1>1. PollInv => RoomIsPolled BY DEF PollInv
<1> QED BY <1>1, PollInvInit, PollInvStep, PTL DEF Spec

----------------------------------------------------------------------------
(* Types                                                                   *)

\* What a filter finds are rows, and so is what is new of it.
LEMMA FindsRows ==
  ASSUME alerts \in Rows, NEW f \in Filter
  PROVE  Find(f) \in Rows /\ \A last : get_since_async(f, last) \in Rows
<1>1. Find(f) \in Rows BY DEF Find, Rows
<1> QED BY <1>1 DEF get_since_async, Rows

\* An empty grid has the type of a grid.
LEMMA EmptyIsRows == Empty \in Rows
BY DEF Empty, Rows

Less == {ss \in Nat \X Nat : ss[1] < ss[2]}

\* No sequence of naturals descends for ever.
LEMMA LessIsWellFounded == IsWellFoundedOn(Less, Nat)
BY NatLessThanWellFounded DEF OpToRel, Less

\* Every non-empty set of moments has a latest one: they are bounded.
LEMMA HasLatest ==
  ASSUME NEW S \in SUBSET Time, S # {}
  PROVE  \E t \in S : \A u \in S : u <= t
<1> DEFINE Left == {MaxClock - t : t \in S}
<1>1. MaxClock \in Nat BY FeedAssumption
<1>2. Left \subseteq Nat BY <1>1 DEF Time
<1>3. Left # {} OBVIOUS
<1>4. PICK m \in Left : \A n \in Left : <<n, m>> \notin Less
  <2> HIDE DEF Left
  <2> QED BY <1>2, <1>3, LessIsWellFounded, WFMin
<1>5. PICK t \in S : m = MaxClock - t BY <1>4
<1>6. ASSUME NEW u \in S PROVE u <= t
  <2>1. MaxClock - u \in Left /\ <<MaxClock - u, m>> \notin Less BY <1>4
  <2>2. ~ (MaxClock - u < m) BY <2>1, <1>2, <1>4 DEF Less
  <2> QED BY <2>2, <1>1, <1>5 DEF Time
<1> QED BY <1>6

\* The newest of what a query found: the value before if it found nothing, and
\* otherwise the state_change of a document that none of the others exceeds.
LEMMA NewestIsLatest ==
  ASSUME NEW rows \in Rows, NEW last \in Time
  PROVE  /\ Newest(rows, last) \in Time
         /\ Present(rows) = {} => Newest(rows, last) = last
         /\ Present(rows) # {} =>
              /\ \E e \in Present(rows) : Newest(rows, last) = rows[e].state_change
              /\ \A e \in Present(rows) : rows[e].state_change <= Newest(rows, last)
<1>1. CASE Present(rows) = {} BY <1>1 DEF Newest
<1>2. CASE Present(rows) # {}
  <2> DEFINE Moments == {rows[e].state_change : e \in Present(rows)}
  <2>1. \A e \in Present(rows) : rows[e].state_change \in Time BY DEF Present, Rows, Doc
  <2>2. Moments \in SUBSET Time BY <2>1
  <2>3. Moments # {} BY <1>2
  <2>4. \E t \in Moments : \A u \in Moments : u <= t
    <3> HIDE DEF Moments
    <3> QED BY <2>2, <2>3, HasLatest
  <2>5. \E t \in Moments : \A e \in Present(rows) : rows[e].state_change <= t BY <2>4
  <2>6. /\ Newest(rows, last) \in Moments
        /\ \A e \in Present(rows) : rows[e].state_change <= Newest(rows, last)
    BY <1>2, <2>5 DEF Newest
  <2> QED BY <1>2, <2>2, <2>6
<1> QED BY <1>1, <1>2

\* A changed row leaves the rows well typed.
LEMMA RowsWritten ==
  ASSUME NEW rows \in Rows, NEW e \in Event, NEW row \in Doc \cup {Absent}
  PROVE  [rows EXCEPT ![e] = row] \in Rows
BY DEF Rows

\* The type invariant holds initially.
LEMMA TypesInit == Init => TypeOK
<1> SUFFICES ASSUME Init PROVE TypeOK OBVIOUS
<1>1. Empty \in Rows BY EmptyIsRows
<1>2. 0 \in Time /\ 0 \in 0..MaxWrites /\ 0 \in 0..MaxLooks BY FeedAssumption DEF Time
<1>3. /\ clock \in Time /\ alerts \in Rows /\ used \subseteq Event
      /\ clears \in BOOLEAN /\ deleted \subseteq Event
      /\ room \in [Client -> Filter \cup {None}] /\ grid \in [Client -> Rows]
      /\ fills \subseteq Fill
  BY <1>1, <1>2 DEF Init
<1>4. /\ instances \subseteq Filter /\ running \subseteq instances
      /\ chain \in [Filter -> {"none", "delay", "found"}]
      /\ last_query_value \in [Filter -> Time] /\ found \in [Filter -> Rows]
      /\ asked \subseteq instances
      /\ answers \subseteq [filter : Filter, ids : SUBSET Event]
  BY <1>1, <1>2 DEF Init
<1>5. /\ late \subseteq Filter \X Event /\ overtaken \subseteq Client \X Event
      /\ writes \in 0..MaxWrites /\ looks \in 0..MaxLooks
  BY <1>2 DEF Init
<1> QED BY <1>3, <1>4, <1>5 DEF TypeOK

\* Every step of a writer keeps it.
LEMMA WritingKeepsTypes ==
  ASSUME TypeOK, Writing
  PROVE  TypeOK'
<1> USE FeedAssumption
<1>1. CASE Tick
  <2>1. clock' \in Time BY <1>1 DEF Tick, TypeOK, Time
  <2> QED BY <1>1, <2>1 DEF Tick, TypeOK, dbVars, noticeVars, clientVars, pollVars, idsVars
<1>2. ASSUME NEW e \in Event, NEW doc \in Doc, NEW by \in Writer, Commit(e, doc, by) PROVE TypeOK'
  <2>1. alerts' \in Rows BY <1>2, RowsWritten DEF Commit, Written, TypeOK
  <2>2. used' \subseteq Event /\ writes' \in 0..MaxWrites /\ clears' \in BOOLEAN
    BY <1>2 DEF Commit, TypeOK
  <2>3. late' \subseteq Filter \X Event /\ overtaken' \subseteq Client \X Event
    BY <1>2 DEF Commit, TypeOK
  <2>4. asked' \subseteq instances BY <1>2 DEF Commit, IdsDue, TypeOK
  <2> QED BY <1>2, <2>1, <2>2, <2>3, <2>4 DEF Commit, TypeOK, pollVars
<1>3. CASE ClearTimer
  BY <1>3 DEF ClearTimer, TypeOK, dbVars, clientVars, pollVars
<1>4. ASSUME NEW e \in Event, Delete(e) \/ Vanish(e) PROVE TypeOK'
  <2>1. /\ alerts' = [alerts EXCEPT ![e] = Absent]
        /\ writes < MaxWrites /\ writes' = writes + 1
        /\ late' = {x \in late : x[2] # e}
    BY <1>4 DEF Delete, Vanish
  <2>2. alerts' \in Rows BY <2>1, RowsWritten DEF TypeOK
  <2>3. writes' \in 0..MaxWrites /\ late' \subseteq Filter \X Event BY <2>1 DEF TypeOK
  <2>4. deleted' \subseteq Event BY <1>4 DEF Delete, Vanish, noticeVars, TypeOK
  <2>5. UNCHANGED <<clock, used, clears, clientVars, pollVars, idsVars>>
    BY <1>4 DEF Delete, Vanish, noticeVars
  <2> QED BY <2>2, <2>3, <2>4, <2>5 DEF TypeOK, clientVars, pollVars, idsVars
<1>5. ASSUME NEW e \in Event, Deletes(e) PROVE TypeOK'
  <2>1. \A c \in Client : [grid[c] EXCEPT ![e] = Absent] \in Rows BY RowsWritten DEF TypeOK
  <2>2. grid' \in [Client -> Rows] BY <1>5, <2>1 DEF Deletes, TypeOK
  <2> QED BY <1>5, <2>2 DEF Deletes, TypeOK, dbVars, pollVars, idsVars
<1> QED BY <1>1, <1>2, <1>3, <1>4, <1>5 DEF Writing

\* Every step of a console keeps it.
LEMMA LookingKeepsTypes ==
  ASSUME TypeOK, Looking
  PROVE  TypeOK'
<1> USE FeedAssumption
<1>1. ASSUME NEW c \in Client, NEW f \in Filter, Connect(c, f) \/ SetView(c, f) PROVE TypeOK'
  <2>1. Join(c, f) BY <1>1 DEF Connect, SetView
  <2>2. grid' \in [Client -> Rows] BY <1>1, EmptyIsRows DEF Connect, SetView, TypeOK
  <2>3. /\ instances' \subseteq Filter /\ running' \subseteq instances'
        /\ chain' \in [Filter -> {"none", "delay", "found"}]
        /\ last_query_value' \in [Filter -> Time] /\ found' = found
    BY <2>1 DEF Join, FetchAndStart, TypeOK
  <2>4. fills' \subseteq Fill
    <3>1. [client |-> c, filter |-> f, rows |-> Unread] \in Fill BY DEF Fill
    <3> QED BY <2>1, <3>1 DEF Join, TypeOK
  <2>5. /\ room' \in [Client -> Filter \cup {None}]
        /\ overtaken' \subseteq Client \X Event /\ looks' \in 0..MaxLooks
    BY <2>1 DEF Join, TypeOK
  <2>6. asked' \subseteq instances' BY <2>1 DEF Join, FetchAndStart, idsVars, TypeOK
  <2> QED BY <2>1, <2>2, <2>3, <2>4, <2>5, <2>6 DEF Join, TypeOK, dbVars, noticeVars, idsVars
<1>2. ASSUME NEW c \in Client, Disconnect(c) PROVE TypeOK'
  BY <1>2 DEF Disconnect, TypeOK, dbVars, noticeVars, pollVars, idsVars
<1>3. ASSUME NEW x \in fills, PopulateRead(x) PROVE TypeOK'
  <2>1. x \in Fill BY DEF TypeOK
  <2>2. Find(x.filter) \in Rows BY <2>1, FindsRows DEF TypeOK, Fill
  <2>3. [x EXCEPT !.rows = Find(x.filter)] \in Fill BY <2>1, <2>2 DEF Fill
  <2>4. fills' \subseteq Fill BY <1>3, <2>3 DEF PopulateRead, TypeOK
  <2> QED BY <1>3, <2>4 DEF PopulateRead, TypeOK, dbVars, noticeVars, pollVars, idsVars
<1>4. ASSUME NEW x \in fills, Inserts(x) PROVE TypeOK'
  <2>1. x.client \in Client /\ x.rows \in Rows BY <1>4 DEF Inserts, TypeOK, Fill
  <2>2. grid' \in [Client -> Rows] BY <1>4, <2>1 DEF Inserts, TypeOK
  <2>3. overtaken' \subseteq Client \X Event
    <3>1. Present(Find(room[x.client])) \subseteq Event BY DEF Present
    <3> QED BY <1>4, <2>1, <3>1 DEF Inserts, TypeOK
  <2>4. fills' \subseteq Fill BY <1>4 DEF Inserts, TypeOK
  <2> QED BY <1>4, <2>2, <2>3, <2>4 DEF Inserts, TypeOK, dbVars, noticeVars, pollVars, idsVars
<1> QED BY <1>1, <1>2, <1>3, <1>4 DEF Looking

\* Every step of a poller keeps it: what polls is an instance.
LEMMA PollingKeepsTypes ==
  ASSUME TypeOK, PollInv, Polling
  PROVE  TypeOK'
<1>1. ASSUME NEW f \in Filter, PollRead(f) PROVE TypeOK'
  <2>1. f \in instances BY <1>1 DEF PollRead, PollInv, MarkedWhilePolling, TypeOK
  <2>2. asked' \subseteq instances BY <1>1, <2>1 DEF PollRead, IdsDue, TypeOK
  <2>3. found' \in [Filter -> Rows] BY <1>1, FindsRows DEF PollRead, TypeOK
  <2>4. chain' \in [Filter -> {"none", "delay", "found"}] BY <1>1 DEF PollRead, TypeOK
  <2> QED BY <1>1, <2>2, <2>3, <2>4 DEF PollRead, TypeOK, dbVars, noticeVars, clientVars
<1>2. ASSUME NEW f \in Filter, PollEmit(f) PROVE TypeOK'
  <2>1. Newest(found[f], last_query_value[f]) \in Time BY NewestIsLatest DEF TypeOK
  <2>2. last_query_value' \in [Filter -> Time] BY <1>2, <2>1 DEF PollEmit, TypeOK
  <2>3. \A c \in Client : OnDeltas(grid[c], found[f]) \in Rows BY DEF OnDeltas, TypeOK, Rows
  <2>4. grid' \in [Client -> Rows] BY <1>2, <2>3 DEF PollEmit, TypeOK
  <2>5. found' \in [Filter -> Rows] BY <1>2, EmptyIsRows DEF PollEmit, TypeOK
  <2>6. chain' \in [Filter -> {"none", "delay", "found"}] BY <1>2 DEF PollEmit, TypeOK
  <2>7. running' \subseteq instances BY <1>2 DEF PollEmit, stop, TypeOK
  <2> QED BY <1>2, <2>2, <2>4, <2>5, <2>6, <2>7 DEF PollEmit, TypeOK, dbVars, noticeVars, idsVars
<1>3. ASSUME NEW f \in Filter, IdsRead(f) PROVE TypeOK'
  <2>1. [filter |-> f, ids |-> Present(Find(f))] \in [filter : Filter, ids : SUBSET Event]
    BY DEF Present
  <2>2. answers' \subseteq [filter : Filter, ids : SUBSET Event] /\ asked' \subseteq instances
    BY <1>3, <2>1 DEF IdsRead, TypeOK
  <2> QED BY <1>3, <2>2 DEF IdsRead, TypeOK, dbVars, noticeVars, clientVars, pollVars
<1>4. ASSUME NEW a \in answers, IdsEmit(a) PROVE TypeOK'
  <2>1. \A c \in Client : OnIds(grid[c], a.ids) \in Rows BY DEF OnIds, TypeOK, Rows
  <2>2. grid' \in [Client -> Rows] BY <1>4, <2>1 DEF IdsEmit, TypeOK
  <2>3. overtaken' \subseteq Client \X Event BY <1>4 DEF IdsEmit, TypeOK, Members, Present
  <2>4. answers' \subseteq answers BY <1>4 DEF IdsEmit
  <2> QED BY <1>4, <2>2, <2>3, <2>4 DEF IdsEmit, TypeOK, dbVars, noticeVars, pollVars
<1> QED BY <1>1, <1>2, <1>3, <1>4 DEF Polling

\* No step leaves the types.
LEMMA TypesStep == TypeOK /\ PollInv /\ [Next]_vars => TypeOK'
<1> SUFFICES ASSUME TypeOK, PollInv, [Next]_vars PROVE TypeOK' OBVIOUS
<1>1. CASE UNCHANGED vars
  BY <1>1 DEF TypeOK, vars, dbVars, noticeVars, clientVars, pollVars, idsVars
<1>2. CASE Writing BY <1>2, WritingKeepsTypes
<1>3. CASE Looking BY <1>3, LookingKeepsTypes
<1>4. CASE Polling BY <1>4, PollingKeepsTypes
<1> QED BY <1>1, <1>2, <1>3, <1>4 DEF Next

\* The state stays well typed, and ids are asked for only where there is a poller
\* (mongopoll.ts:299-305).
THEOREM TypesHold == Spec => []TypeOK
<1>1. Spec => []PollInv BY PollInvInit, PollInvStep, PTL DEF Spec
<1> QED BY <1>1, TypesInit, TypesStep, PTL DEF Spec

----------------------------------------------------------------------------
(* Rows                                                                    *)

\* What is shown, found or deleted has once been written.
KnownIds ==
  \A e \in Event \ used :
    /\ alerts[e] = Absent /\ e \notin deleted
    /\ \A c \in Client : grid[c][e] = Absent
    /\ \A f \in Filter : found[f][e] = Absent
    /\ \A x \in fills : x.rows # Unread => x.rows[e] = Absent

\* A deletion that is still to be announced is not undone by then.
DeletedIsGone == \A e \in deleted : alerts[e] = Absent

\* A poller keeps what it has found for no longer than it takes to send it.
FoundIsSent == \A f \in Filter : chain[f] # "found" => found[f] = Empty

\* Of the events that match, and were not written for a moment f's poller had
\* passed, none is skipped: the poller has sent it, is about to send it, or will
\* still ask for its moment.
NothingSkipped ==
  \A f \in Filter, e \in Event :
    e \in Present(Find(f)) /\ <<f, e>> \notin late
    => \/ found[f][e] = alerts[e]
       \/ found[f][e] = Absent /\ alerts[e].state_change <= last_query_value[f]
       \/ ~ Passed(f, alerts[e].state_change)

\* Where the grid of c is to show e as it is.
Due(c, e) ==
  /\ room[c] # None
  /\ \A x \in fills : x.client # c
  /\ e \in Present(Find(room[c]))
  /\ alerts[e].state_change <= last_query_value[room[c]]
  /\ <<room[c], e>> \notin late /\ <<c, e>> \notin overtaken

DueIsShown == \A c \in Client, e \in Event : Due(c, e) => grid[c][e] = alerts[e]

Typed == TypeOK /\ PollInv

RowsInv == Typed /\ KnownIds /\ DeletedIsGone /\ FoundIsSent /\ NothingSkipped /\ DueIsShown

\* An event is found by a filter that selects its kind, if it is there.
LEMMA FoundBy ==
  ASSUME NEW f \in Filter, NEW e
  PROVE  e \in Present(Find(f)) <=>
           e \in Event /\ alerts[e] # Absent /\ alerts[e].kind \in Matches[f]
BY DEF Present, Find

\* The moments of what is there and of what has been found.
LEMMA MomentsAreTimes ==
  ASSUME TypeOK
  PROVE  /\ \A e \in Event : alerts[e] # Absent => alerts[e].state_change \in Time
         /\ \A f \in Filter : \A e \in Present(found[f]) :
              e \in Event /\ found[f][e].state_change \in Time
         /\ \A f \in Filter : last_query_value[f] \in Time
         /\ Time \subseteq Nat
BY FeedAssumption DEF TypeOK, Rows, Doc, Present, Time

\* A poller that has found nothing has passed what it will not query again.
LEMMA PassedByEmpty ==
  ASSUME TypeOK, NEW f \in Filter, found[f] = Empty, NEW t
  PROVE  /\ Passed(f, t) <=> t <= last_query_value[f]
         /\ \A e \in Event : found[f][e] = Absent
BY DEF Passed, Present, Empty

\* Skipping nothing is trivial for a poller that has found nothing.
LEMMA EmptySkipsNothing ==
  ASSUME TypeOK, NEW f \in Filter, found[f] = Empty, NEW e \in Event
  PROVE  \/ found[f][e] = Absent /\ alerts[e].state_change <= last_query_value[f]
         \/ ~ Passed(f, alerts[e].state_change)
BY PassedByEmpty

\* The invariant holds initially: nothing is known, and nobody is in a room.
LEMMA RowsInvInit == Init => RowsInv
<1> SUFFICES ASSUME Init PROVE RowsInv OBVIOUS
<1>1. Typed BY PollInvInit, TypesInit DEF Typed
<1>2. KnownIds BY DEF Init, KnownIds, Empty
<1>3. DeletedIsGone /\ FoundIsSent BY DEF Init, DeletedIsGone, FoundIsSent
<1>4. NothingSkipped BY FoundBy DEF Init, NothingSkipped, Empty
<1>5. DueIsShown BY DEF Init, DueIsShown, Due
<1> QED BY <1>1, <1>2, <1>3, <1>4, <1>5 DEF RowsInv

\* Nothing is skipped by a step that neither writes nor polls.
LEMMA NothingSkippedStays ==
  ASSUME NothingSkipped, UNCHANGED <<alerts, late, found, last_query_value>>
  PROVE  NothingSkipped'
BY DEF NothingSkipped, Find, Passed, Present

\* An event that a step leaves alone is matched as before.
LEMMA MatchStays ==
  ASSUME NEW f \in Filter, NEW e \in Event, alerts'[e] = alerts[e]
  PROVE  (e \in Present(Find(f)))' <=> e \in Present(Find(f))
BY DEF Present, Find

\* A room with a member has a poller.
LEMMA RoomHasPoller ==
  ASSUME Typed, NEW c \in Client, room[c] # None
  PROVE  room[c] \in Filter /\ room[c] \in instances /\ room[c] \in running
<1>1. room[c] \in Filter BY DEF Typed, TypeOK
<1>2. room[c] \in running
  BY <1>1 DEF Typed, PollInv, RoomIsPolled, MarkedWhilePolling
<1> QED BY <1>1, <1>2 DEF Typed, TypeOK

\* A write keeps the invariant: a poller has not passed its moment, or it is late.
LEMMA CommitKeepsRows ==
  ASSUME RowsInv, NEW e \in Event, NEW doc \in Doc, NEW by \in Writer, Commit(e, doc, by)
  PROVE  KnownIds' /\ DeletedIsGone' /\ FoundIsSent' /\ NothingSkipped' /\ DueIsShown'
<1>1. /\ UNCHANGED <<deleted, room, grid, fills, instances, chain, found, last_query_value>>
      /\ used' = used \cup {e}
      /\ alerts' = Written(e, doc, by)
      /\ late' = {x \in late : x[2] # e} \cup
                 {<<f, e>> : f \in {g \in instances : Passed(g, doc.state_change)}}
      /\ overtaken' = {x \in overtaken : x[2] # e}
  BY DEF Commit, pollVars
<1>2. \A d \in Event : d # e => alerts'[d] = alerts[d]
  BY <1>1 DEF Written, RowsInv, Typed, TypeOK, Rows
<1>3. alerts'[e] = doc \/ (alerts'[e] = Absent /\ alerts[e] = Absent)
  BY <1>1 DEF Written, RowsInv, Typed, TypeOK, Rows
<1>4. \A f \in Filter, d \in Event : d # e =>
        /\ <<f, d>> \in late' <=> <<f, d>> \in late
        /\ \A c \in Client : <<c, d>> \in overtaken' <=> <<c, d>> \in overtaken
  BY <1>1
<1>5. \A f \in instances : <<f, e>> \notin late' => ~ Passed(f, doc.state_change)
  BY <1>1
<1>6. \A f \in Filter : \A t : Passed(f, t)' <=> Passed(f, t) BY <1>1 DEF Passed, Present
<1>7. KnownIds' BY <1>1, <1>2 DEF RowsInv, KnownIds
<1>8. DeletedIsGone'
  <2>1. \A d \in deleted : d \in used /\ d \in Event
    BY DEF RowsInv, KnownIds, Typed, TypeOK
  <2>2. e \in deleted => alerts'[e] = Absent
    BY <1>1, <2>1 DEF Written, RowsInv, DeletedIsGone, Typed, TypeOK, Rows
  <2> QED BY <1>1, <1>2, <2>1, <2>2 DEF RowsInv, DeletedIsGone
<1>9. FoundIsSent' BY <1>1 DEF RowsInv, FoundIsSent, Empty
<1>10. NothingSkipped'
  <2> SUFFICES ASSUME NEW f \in Filter, NEW d \in Event,
                      (d \in Present(Find(f)))', <<f, d>> \notin late'
               PROVE  \/ found[f][d] = alerts'[d]
                      \/ found[f][d] = Absent /\ alerts'[d].state_change <= last_query_value[f]
                      \/ ~ Passed(f, alerts'[d].state_change)
    BY <1>1, <1>6 DEF NothingSkipped
  <2>1. CASE d # e
    <3>1. d \in Present(Find(f)) BY <1>2, <2>1, MatchStays
    <3>2. <<f, d>> \notin late BY <1>4, <2>1
    <3> QED BY <1>2, <2>1, <3>1, <3>2 DEF RowsInv, NothingSkipped
  <2>2. CASE d = e
    <3>1. alerts'[e] = doc BY <1>3, <2>2 DEF Present, Find
    <3>2. CASE f \in instances BY <1>5, <2>2, <3>1, <3>2
    <3>3. CASE f \notin instances
      <4>1. found[f] = Empty
        BY <3>3 DEF RowsInv, FoundIsSent, Typed, TypeOK, PollInv, MarkedWhilePolling
      <4> QED BY <4>1, PassedByEmpty DEF RowsInv, Typed
    <3> QED BY <3>2, <3>3
  <2> QED BY <2>1, <2>2
<1>11. DueIsShown'
  <2> SUFFICES ASSUME NEW c \in Client, NEW d \in Event, Due(c, d)'
               PROVE  grid[c][d] = alerts'[d]
    BY <1>1 DEF DueIsShown
  <2>1. /\ room[c] # None /\ \A x \in fills : x.client # c
        /\ (d \in Present(Find(room[c])))'
        /\ alerts'[d].state_change <= last_query_value[room[c]]
        /\ <<room[c], d>> \notin late' /\ <<c, d>> \notin overtaken'
    BY <1>1 DEF Due
  <2>2. room[c] \in Filter /\ room[c] \in instances BY <2>1, RoomHasPoller DEF RowsInv
  <2>3. CASE d # e
    <3>1. d \in Present(Find(room[c])) BY <1>1, <1>2, <2>1, <2>2, <2>3, MatchStays DEF Present, Find
    <3>2. Due(c, d) BY <1>2, <1>4, <2>1, <2>2, <2>3, <3>1 DEF Due
    <3> QED BY <1>2, <2>3, <3>2 DEF RowsInv, DueIsShown
  <2>4. CASE d = e
    <3>1. alerts'[e] = doc BY <1>3, <2>1, <2>4 DEF Present, Find
    <3>2. ~ Passed(room[c], doc.state_change) BY <1>5, <2>1, <2>2, <2>4
    <3> QED BY <2>1, <2>4, <3>1, <3>2 DEF Passed
  <2> QED BY <2>3, <2>4
<1> QED BY <1>7, <1>8, <1>9, <1>10, <1>11

\* A deletion keeps it: what is gone is neither due nor to be found.
LEMMA RemovalKeepsRows ==
  ASSUME RowsInv, NEW e \in Event, Delete(e) \/ Vanish(e)
  PROVE  KnownIds' /\ DeletedIsGone' /\ FoundIsSent' /\ NothingSkipped' /\ DueIsShown'
<1>1. /\ UNCHANGED <<used, room, grid, fills, chain, found, last_query_value, overtaken>>
      /\ alerts' = [alerts EXCEPT ![e] = Absent]
      /\ late' = {x \in late : x[2] # e}
  BY DEF Delete, Vanish, noticeVars, clientVars, pollVars
<1>2. deleted' = deleted \/ (deleted' = deleted \cup {e} /\ e \in used)
  <2>1. Delete(e) => e \in used BY DEF Delete, OnScreen, RowsInv, KnownIds
  <2> QED BY <2>1 DEF Delete, Vanish, noticeVars
<1>3. /\ \A d \in Event : d # e => alerts'[d] = alerts[d]
      /\ alerts'[e] = Absent
  BY <1>1 DEF RowsInv, Typed, TypeOK, Rows
<1>4. \A f, d : d # e => (<<f, d>> \in late' <=> <<f, d>> \in late) BY <1>1
<1>5. \A f \in Filter : \A t : Passed(f, t)' <=> Passed(f, t) BY <1>1 DEF Passed, Present
<1>6. KnownIds' BY <1>1, <1>2, <1>3 DEF RowsInv, KnownIds
<1>7. DeletedIsGone' BY <1>2, <1>3 DEF RowsInv, DeletedIsGone, Typed, TypeOK
<1>8. FoundIsSent' BY <1>1 DEF RowsInv, FoundIsSent, Empty
<1>9. NothingSkipped'
  <2> SUFFICES ASSUME NEW f \in Filter, NEW d \in Event,
                      (d \in Present(Find(f)))', <<f, d>> \notin late'
               PROVE  \/ found[f][d] = alerts'[d]
                      \/ found[f][d] = Absent /\ alerts'[d].state_change <= last_query_value[f]
                      \/ ~ Passed(f, alerts'[d].state_change)
    BY <1>1, <1>5 DEF NothingSkipped
  <2>1. d # e BY <1>3 DEF Present, Find
  <2>2. d \in Present(Find(f)) BY <1>3, <2>1, MatchStays
  <2> QED BY <1>3, <1>4, <2>1, <2>2 DEF RowsInv, NothingSkipped
<1>10. DueIsShown'
  <2> SUFFICES ASSUME NEW c \in Client, NEW d \in Event, Due(c, d)'
               PROVE  grid[c][d] = alerts'[d]
    BY <1>1 DEF DueIsShown
  <2>1. d # e /\ room[c] # None BY <1>1, <1>3 DEF Due, Present, Find
  <2>2. room[c] \in Filter BY <2>1, RoomHasPoller DEF RowsInv
  <2>3. d \in Present(Find(room[c])) BY <1>1, <1>3, <2>1, <2>2, MatchStays DEF Due, Present, Find
  <2>4. Due(c, d) BY <1>1, <1>3, <1>4, <2>1, <2>3 DEF Due
  <2> QED BY <1>3, <2>1, <2>4 DEF RowsInv, DueIsShown
<1> QED BY <1>6, <1>7, <1>8, <1>9, <1>10

\* What is due after a step was due before, unless the step changed what it is
\* due by.
LEMMA DueBefore ==
  ASSUME NEW c \in Client, NEW e \in Event, Due(c, e)', UNCHANGED alerts, UNCHANGED late,
         room'[c] = room[c],
         last_query_value'[room[c]] = last_query_value[room[c]],
         (\A x \in fills' : x.client # c) => (\A x \in fills : x.client # c),
         <<c, e>> \in overtaken => <<c, e>> \in overtaken'
  PROVE  Due(c, e)
<1>1. (e \in Present(Find(room[c])))' <=> e \in Present(Find(room[c])) BY DEF Present, Find
<1> QED BY <1>1 DEF Due

\* An announced deletion keeps it: the event is not in the database.
LEMMA DeletesKeepsRows ==
  ASSUME RowsInv, NEW e \in Event, Deletes(e)
  PROVE  KnownIds' /\ DeletedIsGone' /\ FoundIsSent' /\ NothingSkipped' /\ DueIsShown'
<1>1. /\ UNCHANGED <<alerts, used, late, room, fills, overtaken, chain, found, last_query_value>>
      /\ deleted' = deleted \ {e} /\ e \in deleted
      /\ grid' = [c \in Client |-> IF room[c] = None THEN grid[c]
                                   ELSE [grid[c] EXCEPT ![e] = Absent]]
  BY DEF Deletes, dbVars, pollVars
<1>2. alerts[e] = Absent BY <1>1 DEF RowsInv, DeletedIsGone
<1>3. \A c \in Client, d \in Event :
        /\ d # e => grid'[c][d] = grid[c][d]
        /\ grid[c][d] = Absent => grid'[c][d] = Absent
  BY <1>1 DEF RowsInv, Typed, TypeOK, Rows
<1>4. KnownIds' BY <1>1, <1>3 DEF RowsInv, KnownIds
<1>5. DeletedIsGone' BY <1>1 DEF RowsInv, DeletedIsGone
<1>6. FoundIsSent' BY <1>1 DEF RowsInv, FoundIsSent, Empty
<1>7. NothingSkipped' BY <1>1, NothingSkippedStays DEF RowsInv
<1>8. DueIsShown'
  <2> SUFFICES ASSUME NEW c \in Client, NEW d \in Event, Due(c, d)'
               PROVE  grid'[c][d] = alerts[d]
    BY <1>1 DEF DueIsShown
  <2>1. Due(c, d) BY <1>1, DueBefore
  <2>2. d # e BY <1>2, <2>1 DEF Due, Present, Find
  <2> QED BY <1>3, <2>1, <2>2 DEF RowsInv, DueIsShown
<1> QED BY <1>4, <1>5, <1>6, <1>7, <1>8

\* Joining a room keeps it: the console waits for its rows, and a new poller has
\* nothing to skip.
LEMMA JoinKeepsRows ==
  ASSUME RowsInv, NEW c \in Client, NEW f \in Filter, Join(c, f),
         \/ UNCHANGED grid
         \/ grid' = [grid EXCEPT ![c] = Empty]
  PROVE  KnownIds' /\ DeletedIsGone' /\ FoundIsSent' /\ NothingSkipped' /\ DueIsShown'
<1>1. /\ UNCHANGED <<alerts, used, late, deleted, found>>
      /\ room' = [room EXCEPT ![c] = f]
      /\ fills' = fills \cup {[client |-> c, filter |-> f, rows |-> Unread]}
      /\ overtaken' = {x \in overtaken : x[1] # c}
      /\ last_query_value' = IF f \in instances THEN last_query_value
                             ELSE [last_query_value EXCEPT ![f] = clock]
      /\ chain' = IF f \in running THEN chain ELSE [chain EXCEPT ![f] = "delay"]
  BY DEF Join, FetchAndStart, dbVars, noticeVars
<1>2. \A g \in Filter : chain'[g] # "found" => chain[g] # "found"
  BY <1>1 DEF RowsInv, Typed, PollInv, PollTypes, MarkedWhilePolling
<1>3. \A d \in Client :
        /\ d # c => grid'[d] = grid[d] /\ room'[d] = room[d]
        /\ \A e \in Event : grid[d][e] = Absent => grid'[d][e] = Absent
  BY <1>1 DEF RowsInv, Typed, TypeOK, Rows, Empty
<1>4. \A g \in instances : last_query_value'[g] = last_query_value[g]
  BY <1>1 DEF RowsInv, Typed, TypeOK
<1>5. KnownIds' BY <1>1, <1>3 DEF RowsInv, KnownIds
<1>6. DeletedIsGone' BY <1>1 DEF RowsInv, DeletedIsGone
<1>7. FoundIsSent' BY <1>1, <1>2 DEF RowsInv, FoundIsSent, Empty
<1>8. NothingSkipped'
  <2> SUFFICES ASSUME NEW g \in Filter, NEW e \in Event,
                      e \in Present(Find(g)), <<g, e>> \notin late
               PROVE  \/ found[g][e] = alerts[e]
                      \/ found[g][e] = Absent /\ alerts[e].state_change <= last_query_value'[g]
                      \/ ~ Passed(g, alerts[e].state_change)'
    BY <1>1 DEF NothingSkipped, Present, Find
  <2>1. CASE g \in instances
    <3>1. Passed(g, alerts[e].state_change)' <=> Passed(g, alerts[e].state_change)
      BY <1>1, <1>4, <2>1 DEF Passed, Present
    <3> QED BY <1>4, <2>1, <3>1 DEF RowsInv, NothingSkipped
  <2>2. CASE g \notin instances
    <3>1. found[g] = Empty
      BY <2>2 DEF RowsInv, FoundIsSent, Typed, TypeOK, PollInv, MarkedWhilePolling
    <3> QED BY <1>1, <3>1 DEF Passed, Present, Empty
  <2> QED BY <2>1, <2>2
<1>9. DueIsShown'
  <2> SUFFICES ASSUME NEW d \in Client, NEW e \in Event, Due(d, e)'
               PROVE  grid'[d][e] = alerts[e]
    BY <1>1 DEF DueIsShown
  <2>1. d # c
    <3>1. [client |-> c, filter |-> f, rows |-> Unread] \in fills' BY <1>1
    <3>2. [client |-> c, filter |-> f, rows |-> Unread].client = c OBVIOUS
    <3> QED BY <3>1, <3>2 DEF Due
  <2>2. room[d] # None BY <1>3, <2>1 DEF Due
  <2>3. room[d] \in instances BY <2>2, RoomHasPoller DEF RowsInv
  <2>4. Due(d, e) BY <1>1, <1>3, <1>4, <2>1, <2>3, DueBefore
  <2> QED BY <1>3, <2>1, <2>4 DEF RowsInv, DueIsShown
<1> QED BY <1>5, <1>6, <1>7, <1>8, <1>9

\* A console that leaves is owed nothing.
LEMMA DisconnectKeepsRows ==
  ASSUME RowsInv, NEW c \in Client, Disconnect(c)
  PROVE  KnownIds' /\ DeletedIsGone' /\ FoundIsSent' /\ NothingSkipped' /\ DueIsShown'
<1>1. /\ UNCHANGED <<alerts, used, late, deleted, grid, chain, found, last_query_value>>
      /\ room' = [room EXCEPT ![c] = None]
      /\ fills' = {x \in fills : x.client # c}
      /\ overtaken' = {o \in overtaken : o[1] # c}
  BY DEF Disconnect, dbVars, noticeVars, pollVars
<1>2. KnownIds' BY <1>1 DEF RowsInv, KnownIds
<1>3. DeletedIsGone' /\ FoundIsSent' BY <1>1 DEF RowsInv, DeletedIsGone, FoundIsSent, Empty
<1>4. NothingSkipped' BY <1>1, NothingSkippedStays DEF RowsInv
<1>5. DueIsShown'
  <2> SUFFICES ASSUME NEW d \in Client, NEW e \in Event, Due(d, e)'
               PROVE  grid[d][e] = alerts[e]
    BY <1>1 DEF DueIsShown
  <2>1. d # c BY <1>1 DEF Due, RowsInv, Typed, TypeOK
  <2>2. room'[d] = room[d] BY <1>1, <2>1 DEF RowsInv, Typed, TypeOK
  <2>3. Due(d, e) BY <1>1, <2>1, <2>2, DueBefore
  <2> QED BY <2>3 DEF RowsInv, DueIsShown
<1> QED BY <1>2, <1>3, <1>4, <1>5

\* An answered populate query is still a query under way.
LEMMA PopulateKeepsRows ==
  ASSUME RowsInv, NEW x \in fills, PopulateRead(x)
  PROVE  KnownIds' /\ DeletedIsGone' /\ FoundIsSent' /\ NothingSkipped' /\ DueIsShown'
<1> DEFINE y == [x EXCEPT !.rows = Find(x.filter)]
<1>1. /\ UNCHANGED <<alerts, used, late, deleted, room, grid, overtaken, chain, found,
                     last_query_value>>
      /\ fills' = (fills \ {x}) \cup {y}
  BY DEF PopulateRead, dbVars, noticeVars, pollVars
<1>2. y.client = x.client /\ y.rows = Find(x.filter) BY DEF RowsInv, Typed, TypeOK, Fill
<1>3. \A e \in Event \ used : y.rows[e] = Absent BY <1>2 DEF Find, RowsInv, KnownIds
<1> HIDE DEF y
<1>4. KnownIds'
  <2>1. \A z \in fills' : z = y \/ z \in fills BY <1>1
  <2> QED BY <1>1, <1>3, <2>1 DEF RowsInv, KnownIds
<1>5. DeletedIsGone' /\ FoundIsSent' BY <1>1 DEF RowsInv, DeletedIsGone, FoundIsSent, Empty
<1>6. NothingSkipped' BY <1>1, NothingSkippedStays DEF RowsInv
<1>7. DueIsShown'
  <2> SUFFICES ASSUME NEW c \in Client, NEW e \in Event, Due(c, e)'
               PROVE  grid[c][e] = alerts[e]
    BY <1>1 DEF DueIsShown
  <2>1. (\A z \in fills' : z.client # c) => (\A z \in fills : z.client # c) BY <1>1, <1>2
  <2>2. Due(c, e) BY <1>1, <2>1, DueBefore
  <2> QED BY <2>2 DEF RowsInv, DueIsShown
<1> QED BY <1>4, <1>5, <1>6, <1>7

\* The rows of a populate query keep it: what they lack is overtaken.
LEMMA InsertsKeepsRows ==
  ASSUME RowsInv, NEW x \in fills, Inserts(x)
  PROVE  KnownIds' /\ DeletedIsGone' /\ FoundIsSent' /\ NothingSkipped' /\ DueIsShown'
<1> DEFINE f == room[x.client]
           Lost == {d \in Present(Find(f)) :
                      x.rows[d] # alerts[d] /\ alerts[d].state_change <= last_query_value[f]}
<1>1. /\ UNCHANGED <<alerts, used, late, deleted, room, chain, found, last_query_value>>
      /\ x.rows # Unread
      /\ fills' = fills \ {x}
      /\ grid' = [grid EXCEPT ![x.client] = x.rows]
      /\ overtaken' = {o \in overtaken : o[1] # x.client} \cup {<<x.client, e>> : e \in Lost}
  BY DEF Inserts, dbVars, noticeVars, pollVars
<1>2. x.client \in Client BY DEF RowsInv, Typed, TypeOK, Fill
<1>3. /\ grid'[x.client] = x.rows
      /\ \A c \in Client : c # x.client => grid'[c] = grid[c]
  BY <1>1, <1>2 DEF RowsInv, Typed, TypeOK
<1>4. KnownIds' BY <1>1, <1>3 DEF RowsInv, KnownIds
<1>5. DeletedIsGone' /\ FoundIsSent' BY <1>1 DEF RowsInv, DeletedIsGone, FoundIsSent, Empty
<1>6. NothingSkipped' BY <1>1, NothingSkippedStays DEF RowsInv
<1>7. DueIsShown'
  <2> SUFFICES ASSUME NEW c \in Client, NEW e \in Event, Due(c, e)'
               PROVE  grid'[c][e] = alerts[e]
    BY <1>1 DEF DueIsShown
  <2>1. CASE c # x.client
    <3>1. Due(c, e) BY <1>1, <2>1, DueBefore
    <3> QED BY <1>3, <2>1, <3>1 DEF RowsInv, DueIsShown
  <2>2. CASE c = x.client
    <3>1. /\ e \in Present(Find(f)) /\ alerts[e].state_change <= last_query_value[f]
          /\ <<c, e>> \notin overtaken'
      BY <1>1, <2>2 DEF Due, Present, Find
    <3>2. e \notin Lost BY <1>1, <2>2, <3>1
    <3> QED BY <1>3, <2>2, <3>1, <3>2
  <2> QED BY <2>1, <2>2
<1> QED BY <1>4, <1>5, <1>6, <1>7

\* A poll's query keeps it: what it does not find is older than what it asks for.
LEMMA PollReadKeepsRows ==
  ASSUME RowsInv, NEW f \in Filter, PollRead(f)
  PROVE  KnownIds' /\ DeletedIsGone' /\ FoundIsSent' /\ NothingSkipped' /\ DueIsShown'
<1> DEFINE news == get_since_async(f, last_query_value[f])
<1>1. /\ UNCHANGED <<alerts, used, late, deleted, room, grid, fills, overtaken,
                     last_query_value>>
      /\ chain' = [chain EXCEPT ![f] = "found"]
      /\ found' = [found EXCEPT ![f] = news]
  BY DEF PollRead, dbVars, noticeVars, clientVars
<1>2. /\ chain'[f] = "found" /\ found'[f] = news
      /\ \A g \in Filter : g # f => chain'[g] = chain[g] /\ found'[g] = found[g]
  BY <1>1 DEF RowsInv, Typed, TypeOK
<1>3. \A e \in Event : e \notin used => news[e] = Absent
  BY DEF get_since_async, Find, RowsInv, KnownIds
<1>4. KnownIds' BY <1>1, <1>2, <1>3 DEF RowsInv, KnownIds
<1>5. DeletedIsGone' BY <1>1 DEF RowsInv, DeletedIsGone
<1>6. FoundIsSent' BY <1>2 DEF RowsInv, FoundIsSent, Empty
<1>7. NothingSkipped'
  <2> SUFFICES ASSUME NEW g \in Filter, NEW e \in Event,
                      e \in Present(Find(g)), <<g, e>> \notin late
               PROVE  \/ found'[g][e] = alerts[e]
                      \/ found'[g][e] = Absent /\ alerts[e].state_change <= last_query_value[g]
                      \/ ~ Passed(g, alerts[e].state_change)'
    BY <1>1 DEF NothingSkipped, Present, Find
  <2>1. CASE g = f
    <3>1. Find(f)[e] = alerts[e] /\ alerts[e] # Absent
      BY <2>1, FoundBy DEF Find
    <3>2. CASE alerts[e].state_change > last_query_value[f]
      BY <1>2, <2>1, <3>1, <3>2 DEF get_since_async
    <3>3. CASE ~ (alerts[e].state_change > last_query_value[f])
      <4>1. alerts[e].state_change <= last_query_value[f]
        BY <3>1, <3>3, MomentsAreTimes DEF RowsInv, Typed
      <4>2. news[e] = Absent BY <3>1, <3>3 DEF get_since_async
      <4>3. found'[g][e] = Absent BY <1>2, <2>1, <4>2
      <4> QED BY <2>1, <4>1, <4>3
    <3> QED BY <3>2, <3>3
  <2>2. CASE g # f
    <3>1. Passed(g, alerts[e].state_change)' <=> Passed(g, alerts[e].state_change)
      BY <1>1, <1>2, <2>2 DEF Passed, Present
    <3> QED BY <1>2, <2>2, <3>1 DEF RowsInv, NothingSkipped
  <2> QED BY <2>1, <2>2
<1>8. DueIsShown'
  <2> SUFFICES ASSUME NEW c \in Client, NEW e \in Event, Due(c, e)'
               PROVE  grid[c][e] = alerts[e]
    BY <1>1 DEF DueIsShown
  <2>1. Due(c, e) BY <1>1, DueBefore
  <2> QED BY <2>1 DEF RowsInv, DueIsShown
<1> QED BY <1>4, <1>5, <1>6, <1>7, <1>8

\* What a poll found keeps it when it is sent: of the events it passes by, each is
\* among what was found or has been shown before.
LEMMA PollEmitKeepsRows ==
  ASSUME RowsInv, NEW f \in Filter, PollEmit(f)
  PROVE  KnownIds' /\ DeletedIsGone' /\ FoundIsSent' /\ NothingSkipped' /\ DueIsShown'
<1> DEFINE newest == Newest(found[f], last_query_value[f])
<1>1. /\ UNCHANGED <<alerts, used, late, deleted, room, fills, overtaken>>
      /\ last_query_value' = [last_query_value EXCEPT ![f] = newest]
      /\ grid' = [c \in Client |-> IF c \in Members(f) THEN OnDeltas(grid[c], found[f])
                                   ELSE grid[c]]
      /\ found' = [found EXCEPT ![f] = Empty]
      /\ chain' = [chain EXCEPT ![f] = IF Members(f) # {} THEN "delay" ELSE "none"]
  BY DEF PollEmit, dbVars, noticeVars
<1>2. /\ found'[f] = Empty /\ last_query_value'[f] = newest
      /\ \A g \in Filter : g # f => /\ chain'[g] = chain[g] /\ found'[g] = found[g]
                                    /\ last_query_value'[g] = last_query_value[g]
  BY <1>1 DEF RowsInv, Typed, TypeOK
<1>3. \A c \in Client, e \in Event :
        grid'[c][e] = IF room[c] = f /\ found[f][e] # Absent THEN found[f][e] ELSE grid[c][e]
  BY <1>1 DEF OnDeltas, Members
<1>4. /\ newest \in Time
      /\ Present(found[f]) = {} => newest = last_query_value[f]
      /\ Present(found[f]) # {} => \E d \in Present(found[f]) : newest = found[f][d].state_change
  BY NewestIsLatest DEF RowsInv, Typed, TypeOK
<1> HIDE DEF newest
<1>5. KnownIds' BY <1>1, <1>2, <1>3 DEF RowsInv, KnownIds, Empty
<1>6. DeletedIsGone' BY <1>1 DEF RowsInv, DeletedIsGone
<1>7. FoundIsSent' BY <1>2 DEF RowsInv, FoundIsSent, Empty
<1>8. NothingSkipped'
  <2> SUFFICES ASSUME NEW g \in Filter, NEW e \in Event,
                      e \in Present(Find(g)), <<g, e>> \notin late
               PROVE  \/ found'[g][e] = alerts[e]
                      \/ found'[g][e] = Absent /\ alerts[e].state_change <= last_query_value'[g]
                      \/ ~ Passed(g, alerts[e].state_change)'
    BY <1>1 DEF NothingSkipped, Present, Find
  <2>1. CASE g = f
    <3>1. found'[g][e] = Absent BY <1>2, <2>1 DEF Empty
    <3>2. Passed(g, alerts[e].state_change)' => alerts[e].state_change <= last_query_value'[g]
      <4>1. \A d \in Event : found'[g][d] = Absent BY <1>2, <2>1 DEF Empty
      <4> QED BY <1>1, <4>1 DEF Passed, Present
    <3> QED BY <3>1, <3>2
  <2>2. CASE g # f
    <3>1. found'[g] = found[g] /\ last_query_value'[g] = last_query_value[g] BY <1>2, <2>2
    <3>2. Passed(g, alerts[e].state_change)' <=> Passed(g, alerts[e].state_change)
      BY <1>1, <3>1 DEF Passed, Present
    <3> QED BY <3>1, <3>2 DEF RowsInv, NothingSkipped
  <2> QED BY <2>1, <2>2
<1>9. DueIsShown'
  <2> SUFFICES ASSUME NEW c \in Client, NEW e \in Event, Due(c, e)'
               PROVE  grid'[c][e] = alerts[e]
    BY <1>1 DEF DueIsShown
  <2>1. CASE room[c] # f
    <3>1. room[c] # None BY <1>1 DEF Due
    <3>2. room[c] \in Filter BY <3>1, RoomHasPoller DEF RowsInv
    <3>3. Due(c, e) BY <1>1, <1>2, <2>1, <3>2, DueBefore
    <3> QED BY <1>3, <2>1, <3>3 DEF RowsInv, DueIsShown
  <2>2. CASE room[c] = f
    <3>1. /\ e \in Present(Find(f)) /\ <<f, e>> \notin late
          /\ alerts[e].state_change <= newest
      BY <1>1, <1>2, <2>2 DEF Due, Present, Find
    <3>2. alerts[e].state_change <= last_query_value[f] => grid[c][e] = alerts[e]
      BY <1>1, <2>2, <3>1 DEF RowsInv, DueIsShown, Due
    <3>3. CASE found[f][e] = alerts[e]
      <4>1. alerts[e] # Absent BY <3>1, FoundBy
      <4> QED BY <1>3, <2>2, <3>3, <4>1
    <3>4. CASE found[f][e] = Absent /\ alerts[e].state_change <= last_query_value[f]
      BY <1>3, <3>2, <3>4
    <3>5. CASE ~ Passed(f, alerts[e].state_change)
      <4>1. CASE Present(found[f]) = {} BY <1>4, <3>1, <3>5, <4>1 DEF Passed
      <4>2. CASE Present(found[f]) # {} BY <1>4, <3>1, <3>5, <4>2 DEF Passed
      <4> QED BY <4>1, <4>2
    <3> QED BY <3>1, <3>3, <3>4, <3>5 DEF RowsInv, NothingSkipped
  <2> QED BY <2>1, <2>2
<1> QED BY <1>5, <1>6, <1>7, <1>8, <1>9

\* A list of ids keeps it: what it takes from a grid by mistake is overtaken.
LEMMA IdsEmitKeepsRows ==
  ASSUME RowsInv, NEW a \in answers, IdsEmit(a)
  PROVE  KnownIds' /\ DeletedIsGone' /\ FoundIsSent' /\ NothingSkipped' /\ DueIsShown'
<1> DEFINE f == a.filter
<1>1. /\ UNCHANGED <<alerts, used, late, deleted, room, fills, chain, found, last_query_value>>
      /\ grid' = [c \in Client |-> IF c \in Members(f) THEN OnIds(grid[c], a.ids) ELSE grid[c]]
      /\ overtaken' = overtaken \cup
           (Members(f) \X {e \in Present(Find(f)) : e \notin a.ids})
  BY DEF IdsEmit, dbVars, noticeVars, pollVars
<1>2. \A c \in Client, e \in Event :
        grid'[c][e] = IF room[c] = f /\ e \notin a.ids THEN Absent ELSE grid[c][e]
  BY <1>1 DEF OnIds, Members
<1>3. KnownIds' BY <1>1, <1>2 DEF RowsInv, KnownIds
<1>4. DeletedIsGone' /\ FoundIsSent' BY <1>1 DEF RowsInv, DeletedIsGone, FoundIsSent, Empty
<1>5. NothingSkipped' BY <1>1, NothingSkippedStays DEF RowsInv
<1>6. DueIsShown'
  <2> SUFFICES ASSUME NEW c \in Client, NEW e \in Event, Due(c, e)'
               PROVE  grid'[c][e] = alerts[e]
    BY <1>1 DEF DueIsShown
  <2>1. Due(c, e) BY <1>1, DueBefore
  <2>2. ~ (room[c] = f /\ e \notin a.ids)
    BY <1>1, <2>1 DEF Due, Members
  <2> QED BY <1>2, <2>1, <2>2 DEF RowsInv, DueIsShown
<1> QED BY <1>3, <1>4, <1>5, <1>6

\* So does every step that leaves documents, rows and polls alone.
LEMMA OthersKeepRows ==
  ASSUME RowsInv,
         UNCHANGED <<alerts, used, late, deleted, room, grid, fills, overtaken, chain, found,
                     last_query_value>>
  PROVE  KnownIds' /\ DeletedIsGone' /\ FoundIsSent' /\ NothingSkipped' /\ DueIsShown'
<1>1. KnownIds' BY DEF RowsInv, KnownIds
<1>2. DeletedIsGone' /\ FoundIsSent' BY DEF RowsInv, DeletedIsGone, FoundIsSent, Empty
<1>3. NothingSkipped' BY NothingSkippedStays DEF RowsInv
<1>4. DueIsShown'
  <2> SUFFICES ASSUME NEW c \in Client, NEW e \in Event, Due(c, e)' PROVE grid[c][e] = alerts[e]
    BY DEF DueIsShown
  <2>1. Due(c, e) BY DueBefore
  <2> QED BY <2>1 DEF RowsInv, DueIsShown
<1> QED BY <1>1, <1>2, <1>3, <1>4

\* Every step keeps the invariant.
LEMMA RowsInvStep == RowsInv /\ [Next]_vars => RowsInv'
<1> SUFFICES ASSUME RowsInv, [Next]_vars PROVE RowsInv' OBVIOUS
<1> DEFINE Kept == KnownIds' /\ DeletedIsGone' /\ FoundIsSent' /\ NothingSkipped' /\ DueIsShown'
<1>a. Typed' BY PollInvStep, TypesStep DEF RowsInv, Typed
<1>b. Kept => RowsInv' BY <1>a DEF RowsInv
<1>1. CASE UNCHANGED vars
  <2>1. Kept
    BY <1>1, OthersKeepRows DEF vars, dbVars, noticeVars, clientVars, pollVars
  <2> QED BY <2>1, <1>b
<1>2. CASE Writing
  <2>1. CASE Tick \/ ClearTimer
    <3>1. Kept
      BY <2>1, OthersKeepRows DEF Tick, ClearTimer, dbVars, noticeVars, clientVars, pollVars
    <3> QED BY <3>1, <1>b
  <2>2. ASSUME NEW e \in Event, NEW doc \in Doc, NEW by \in Writer, Commit(e, doc, by)
        PROVE RowsInv'
    BY <2>2, CommitKeepsRows, <1>b
  <2>3. ASSUME NEW e \in Event, Delete(e) \/ Vanish(e) PROVE RowsInv'
    BY <2>3, RemovalKeepsRows, <1>b
  <2>4. ASSUME NEW e \in Event, Deletes(e) PROVE RowsInv'
    BY <2>4, DeletesKeepsRows, <1>b
  <2> QED BY <1>2, <2>1, <2>2, <2>3, <2>4 DEF Writing
<1>3. CASE Looking
  <2>1. ASSUME NEW c \in Client, NEW f \in Filter, Connect(c, f) \/ SetView(c, f) PROVE RowsInv'
    <3>1. Join(c, f) /\ (UNCHANGED grid \/ grid' = [grid EXCEPT ![c] = Empty])
      BY <2>1 DEF Connect, SetView
    <3> QED BY <3>1, JoinKeepsRows, <1>b
  <2>2. ASSUME NEW c \in Client, Disconnect(c) PROVE RowsInv'
    BY <2>2, DisconnectKeepsRows, <1>b
  <2>3. ASSUME NEW x \in fills, PopulateRead(x) PROVE RowsInv'
    BY <2>3, PopulateKeepsRows, <1>b
  <2>4. ASSUME NEW x \in fills, Inserts(x) PROVE RowsInv'
    BY <2>4, InsertsKeepsRows, <1>b
  <2> QED BY <1>3, <2>1, <2>2, <2>3, <2>4 DEF Looking
<1>4. CASE Polling
  <2>1. ASSUME NEW f \in Filter, PollRead(f) PROVE RowsInv'
    BY <2>1, PollReadKeepsRows, <1>b
  <2>2. ASSUME NEW f \in Filter, PollEmit(f) PROVE RowsInv'
    BY <2>2, PollEmitKeepsRows, <1>b
  <2>3. ASSUME NEW f \in Filter, IdsRead(f) PROVE RowsInv'
    <3>1. Kept BY <2>3, OthersKeepRows DEF IdsRead, dbVars, noticeVars, clientVars, pollVars
    <3> QED BY <3>1, <1>b
  <2>4. ASSUME NEW a \in answers, IdsEmit(a) PROVE RowsInv'
    BY <2>4, IdsEmitKeepsRows, <1>b
  <2> QED BY <1>4, <2>1, <2>2, <2>3, <2>4 DEF Polling
<1> QED BY <1>1, <1>2, <1>3, <1>4 DEF Next

\* What a poller has passed its consoles show, except where a write came with a
\* moment the poller had passed, or an older answer was sent after it: no event is
\* skipped by asking for what is newer than the newest found (mongopoll.ts:231-284).
THEOREM MissedOnlyByRaces == Spec => []MissedOnlyByRace
<1>1. RowsInv => MissedOnlyByRace BY DEF RowsInv, DueIsShown, Due, MissedOnlyByRace
<1> QED BY <1>1, RowsInvInit, RowsInvStep, PTL DEF Spec
=============================================================================
