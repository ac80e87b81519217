# Panther, specified

TLA+ modules, TLC configurations and machine-checked proofs for the Panther event
console (`packages/` of this repository). Everything here is written from the
code: each definition that models code is listed with its source lines in
`PROJECT.json` under `map`.

Panther collects events from log files, syslog, IMAP folders and HTTP, runs them
through rules, stores them as *alerts* in MongoDB with a tally of repetitions, and
shows them live in a web console where operators acknowledge, assign, clear and
delete them and edit the rules.

## The system

| Component | Source | State it keeps | Operations |
|---|---|---|---|
| Monitor client | `oa-event-monitors/common/monitor_client.js` | socket, column profile, `queue` and `q_data` of pending events | `start`, `sendAlert`, `addEventToQueue`, `flushBufferQueue` |
| Agent skeleton | `oa-event-monitors/common/index.js` | the agent's rules, its HTTP token cache | start stages, `newalert`, `http_auth`, `/create` |
| Log tailer | `oa-event-monitors/lib/utils/*.js` | the size seen by the last poll, open read streams, the tracker file | poll, `data` of a stream, `stop`, `start` with `where_to_start_from` |
| Input agents | `oa-event-monitors/lib/{imap,http,syslogd,graylog}` | http: cached replies of the API key service; IMAP: its `topUid` file | token check, one handler per message |
| Monitor server | `oa-event-server/lib/monitor_server.js` | alerts, occurrences, inventory, tracking collections | `insert_event(s)`, `insertevent`, `promisedUpsertAlert` |
| Automations | `oa-event-server/lib/{triggers,automations,actions,external_commands}.js` | firings under way with the rows they found | periodic delete, update, action per row, external command |
| Rules engine | `oa-event-rules/src/{event_rules,groups,group,rule_set,rule,action,event}.ts` | the event under way, with its stop, discard and match marks | `EventRules.run` |
| Rules editing | `oa-event-rules/src/{groups,rule_set,schedules}.ts`, `oa-event-console/app/socketio/{rule,event_rules,schedule}.ts` | groups and their order, rules by index, schedules by name | add, update, move, rename, delete |
| Rules store | `oa-event-rules/src/event_rules.ts`, `oa-event-console/lib/import-export.ts` | the rules file, the copies of it in console and server, the edited flag | save, git save, watch, reload, import |
| Schedules | `oa-event-rules/src/{schedule,schedules,select_schedule}.ts` | named weekly windows, each with a count of references | `is_in`, create, delete, select by |
| Mongo pollers | `oa-event-console/lib/{mongopoll,mongopollers}.ts` | one poll loop per query, its `last_query_value` | `start`, `db_find`, `stop` |
| Socket rooms | `oa-event-console/lib/{evsocket,socketio}.ts` | which socket listens to which filter | `filter_room`, disconnect |
| Event operations | `oa-event-console/app/socketio/events.ts` | alerts and the archive | acknowledge, assign, severity, clear, delete, delete all |
| Users, views, API keys | `oa-event-console/app/socketio/{user,view,apikeys}.ts`, `app/model` | MongoDB documents, filed under the username | create, rename, delete, set default |
| TinyCache | `oa-tinycache/src/tiny_cache.ts` | items with insertion time, one pending force-expiry | `set`, `get`, `expire`, `expire_force` |
| Errors, logging, helpers | `oa-errors`, `oa-logging`, `oa-helpers` | none | formatting and wrapping |
| Browser code | `oa-event-console/app/assets` | the page | rendering |

How they interact:

    input agents --newalert--> agent rules --sendAlert--> monitor client
        ==socket.io==> monitor server --server rules--> MongoDB
    automations --timer--> MongoDB            mongo pollers --poll--> MongoDB
    rules editing (console) --save--> rules file --fs.watch--> console, server
    mongo pollers --emit--> socket rooms --> browsers

The behaviours that are hard here:

* several writes of one insert run concurrently, and the acknowledgement the
  agent gets depends on which of them fails, and with what error;
* a buffered batch is sent without acknowledgement and a lost connection loses it;
* two inserts of a new identifier race for a unique index;
* the rules are edited in memory by several operators while they are being saved
  or reloaded, and a second process watches the same file;
* marks left on an event by one rule set (stopped, matched) are read by the next;
* pollers start, fail and stop while browsers join and leave their rooms;
* automations query, then act on the result of a second evaluation of the query, and
  fire again before the last firing has ended;
* operators clear and delete events that are being counted, raised and removed by
  others, through several database calls, with an archive to be kept complete and a
  route that stops waiting after twenty seconds;
* a log grows, and is truncated, between the poll that sees its size and the stream that
  reads it, and several streams are read at once;
* replies about API tokens are asked for concurrently, arrive late and are cached;
* the requests of one user's tabs interleave between their calls to MongoDB;
* references to schedules are counted apart from the rules that hold them, in a store of the
  process that is not always the book's.

What makes each component correct is stated by its properties below; every
hazard we know of, with the line where it bites, is in `PROJECT.json`.

## The modules

| Module | What it models | Composed by |
|---|---|---|
| `EventWire` | events, messages and the socket that client and server share | both |
| `MonitorClient` | `monitor_client.js`: validation, sending, folding, flushing | `EventPipeline` |
| `MonitorServer` | `monitor_server.js`: receiving, the concurrent writes of an insert, answering | `EventPipeline` |
| `EventPipeline` | the two on one connection that can be lost | |
| `EventDelivery` | abstract: what the path promises about counts | refined by `EventPipeline` |
| `RulesEngine` | one event through agent rules, global rules and groups | |
| `RulesBook` | the rules in the console's memory, edited by several operators | |
| `RulesStore` | the rules file between two processes: saving, watching, reloading, dying | |
| `ConsoleFeed` | alerts to browser grids: rooms, populate, polls, lists of ids, deletions | |
| `TinyCache` | `oa-tinycache`: the cache, its expiry and its limit | `HttpAgent` |
| `CacheContract` | abstract: what a client of a cache may rely on | refined by `TinyCache` |
| `HttpAgent` | the http agent's token check: cache, concurrent calls to the service | `InputAgents` |
| `LogTailer` | a log file polled, read by streams, truncated; the agent restarted | `InputAgents` |
| `InputAgents` | one agent process, of either kind, or a cache by itself | |
| `AlertStore` | the alerts as operators, automations and the event server share them | the next two |
| `EventOps` | the operators' requests on events, call by call, and the archive | `ConsoleOperations` |
| `Automations` | the triggers and their overlapping firings | `ConsoleOperations` |
| `ConsoleOperations` | the three on the same alerts | |
| `Accounts` | users, views and API keys, call by call | `ConsoleAdmin` |
| `Schedules` | reference counts through edits, uploads, saves and reloads; `is_in` | `ConsoleAdmin` |
| `ConsoleAdmin` | the settings pages, one at a time | |
| `EventPathProofs`, `RulesEngineProofs`, `RulesBookProofs`, `RulesStoreProofs`, `ConsoleFeedProofs`, `InputAgentsProofs`, `ConsoleOperationsProofs`, `ConsoleAdminProofs` | theorems | |

The `MC*` modules give values to those constants that a `.cfg` cannot write.
Operators whose comment starts with "Mutant:" are not part of the
model: each is a plausible mistake in the definition below it, and replacing that
definition by it must make TLC report a property (`PROJECT.json`, `mutants`).

### The event path: `MonitorClient`, `MonitorServer`, `EventPipeline`

`sendAlert` is one action: validation and clean-up, and then either an emit with the
caller's callback or `addEventToQueue`. `queue` and `q_data` are the fields of that
name. `flushBufferQueue` is the interval timer. `calls[n]` is what the code keeps in
closures: which of the two callbacks of the n-th call has been called, and with what.
Messages emitted on a socket that is down wait in `sendBuffer`, as socket.io's do.

On the server, `Receive` takes a message off the wire; `insertevent` starts all
writes of an event at once, and `ops[k].part` is the state of each of its promises.
A write ends in an action of its own, so writes of different events interleave. The
upsert is two steps, because the unique index can refuse the insert in between.
`Promise.all` answers at the first rejection, or when the last write is done.

An event is its identifier, its tally and whether its columns are complete, missing,
null or have a bad date: nothing else decides what these functions do. MongoDB is
external: a write is done or fails.

`Disconnect` loses the messages on the wire, the acknowledgements and the
right of running inserts to answer, as their callbacks belong to the old socket.

### The rules: `RulesEngine`

An event object is the marks that rules leave on it. Whether a rule selects the
event, and which actions it has, is chosen when it runs: every rule book with
these rule sets is covered. `RunRule` is one turn of the loop in `RuleSet.run`,
with the checks before and after it; `EndGlobals`, `SelectGroup`, `EndGroup` and
`EndGroups` are the loop of `EventRules.run`; `newalert` and `insertevent` are the
decisions taken on the result by agent and server.

### The rules in memory: `RulesBook`

One action per request of `socketio/event_rules.ts`. A group lives in `store` and
in `store_order`, which the code changes in separate statements; each action makes
both changes, in the code's order. A position comes from a screen, so any position
that any screen has been shown (`shown`) is an input. JavaScript's `splice`
beyond the end, and the `undefined` it yields, are modelled as they behave.
`OlderRoutes` are the three requests of `socketio/rule.ts` that edit the same book: they
flag before they edit, and write no commit message; `unrecorded` is history and counts the
rules they replace or remove. `update_agent` flags an agent's book; its settings are not kept.

### The rules file: `RulesStore`

A book is a version number. A save is a chain of promises, and `pc[s]` says how
far save `s` is; between two steps anything may happen, each step may fail, and each
process may die. `Backup` and `Place` are the two moves of `save_yaml_async`
(`PlaceByCopy` when `mv` must copy between file systems), `Truncate`, `WriteFile`
and `Commit` those of the git variant. Only saves write the file here: an import
(`lib/import-export.ts`), which copies over it without the lock, is a step of `Schedules`. `saving_counter` is the lock, exactly as
counted. `notices` stands for `fs.watch`, `watch_events` and `timers` for the
callback's queue and its one second delays.

History variables: `answered` (what the last save that answered "saved" had
stored), `replaced` (a backup took the place of one of the same name), `unsaved`
(the console's book has an edit that was flagged and never stored) and `blind` (the
file changed between the server's load and its watch).

### The live console: `ConsoleFeed`

Every answer from MongoDB is two steps, read and sent, and they interleave with
writes. `last_query_value`, `running` and `instances` are the pollers' fields;
`chain[f]` is where the promise chain of filter `f` is. `Join` is `filter_room`
with `fetch_id_and_start`; `SetView` the requests that change the filter, with
the clearing of the grid by the browser; `Inserts`, `OnDeltas`, `OnIds`, `Deletes`
what the browser does with the four messages. A filter is the set of values it
selects of one field; clearing an event moves it out of every filter but `{}`.

A write carries the time at which its writer started, which may be any time before
the write: the console takes the time and then copies events to the archive, the
event server takes it before the upsert. `late` marks the writes for which a
poller had by then passed that time, `overtaken` the rows that an answer read before
a write has replaced or removed after it.

### The input agents: `TinyCache`, `HttpAgent`, `LogTailer`

`store` is the Map of `TinyCache`, as the sequence in which it is walked: `set` deletes
the key and appends it anew, `expire` walks from the oldest and stops at the first item that
is not expired, `expire_force` is due on the next tick (`expire_force_scheduled`) and no time
passes before it has run. `options` are the two settings of the constructor that matter,
`latest` and `answer` history. `CacheContract` knows nothing of a store: a lookup
answers with the last value set while it lasts, or it is a miss.

`checkTokenAsync` looks into the cache and on a miss asks the service; `ServiceReplies`
is the moment at which the service decides, `ReplyArrives` the moment at which the
agent caches that and passes the request on or refuses it. `ServiceChanges` may come
between any two. A failed call is not cached.

In `LogTailer` the log is a sequence of bytes, each known by its line and place.
`Poll` is the listener of `fs.watchFile`: it opens a stream on the window from the size it
saw last to the size it sees now, both ends included. `Data` is the `data` listener of
one of the open streams: a chunk, as long as the file is by then, is split at its
newlines, and the end of the window goes into the tracker file. `start` computes the
offset from the tracker and watches from the size of the file instead, as the code does.

### Operators and automations: `AlertStore`, `EventOps`, `Automations`

An `Event` is a document with its `_id`. A request goes through `stage`s, one per call to
MongoDB: `CopyFind` and `CopyExecute` for the archive copy, `Lookup` for the severity or
the user, then `UpdateMany` or `DeleteMany`. A call may fail, a bulk insert and an update of
many documents may fail after part of them. `OnFailure` says what the client is then told,
which differs by handler: nothing for clear and delete, whose errors only raise `error`;
success for assign and delete all, whose route answers with what the handler returned.
`Timeout` is the route answering for the handler, which goes on.

A firing holds the rows its query found. `RemoveMatching` evaluates the query of
`find_and_delete_clears` again; `ActOnRow` runs the criteria of `find_ups`' action for the
time the row had when it was found; `UpdateMatching` is a single call. `latestUp` is
history.

### Accounts and schedules: `Accounts`, `Schedules`

A request in `Accounts` is a process: what it has checked stays in `requests[r]` while
others are served. `CreateInitial` creates the initial views of a new account, all at
once; `DeleteUser` calls the three `delete_user` at once, each a `deleteOne`.
`UnsetDefault` and `SetDefault` are the two updates of `view::set_default`. `Shown` is an
assumption about the browser, not a check of the code: a request names a view of the user who
makes it, or one that is gone. Neither `view.ts` nor `filters.ts` asks who owns it. `disturbed` is
history: users whose views were touched by overlapping requests, a failure between two
updates, or a removal or renaming.

In `Schedules` a schedule is its `ref_count` and a rule is the schedule it selects by. The
counts change where the code changes them and nowhere else: a rule that is removed or
changed leaves its count behind, a schedule that is created again starts at none. `reload`
puts the schedules of the file in place before the rules, and keeps the old rules if one of
the new ones does not load. A rule finds and counts its schedule in `Schedules.schedules`, one
store for the whole process, which is the book's until an uploaded file is validated
(`upload`): then `detached` holds, rules find the names `offered` by the upload, and their
counts go there, until the book is reloaded. `activate` puts an accepted upload in the place of
the file. `remade` and `uncounted` are history: schedules created again under a name in use, and
schedules a rule came to select by while the store was detached and the book's count was 0. A
save is one step here; its own steps are in `RulesStore`.
`is_in` is a pure function; `Tick` lets a clock run through a week to look at it.

## What is checked

Twelve runs. Those that pass end without an error; those marked *violation* check
one statement that the repository makes and the code does not keep.

| Run | Question |
|---|---|
| `PipelineSafe` | is the buffer's bookkeeping right and is it flushed, are callers told the truth when writes fail and connections are lost, is rule tracking best effort, is everything counted at most once |
| `AckedNotStored` *violation* | is an event stored when its sender is told so |
| `BatchNotProcessed` *violation* | is a received batch processed |
| `RulesMarks` | do stop, discard and tracking marks reach as far as they should and no further |
| `RulesBook` | do edits keep the two structures of groups in step, and lose nothing |
| `RulesStore` | is a save safe from failures, crashes and other saves; does the server follow |
| `EditsForgotten` *violation* | does the flag tell that there are edits to save |
| `ConsoleFeed` | do grids show what pollers have passed, and lose what is gone |
| `InputAgents` | does the cache keep its contract and its limit, for how long is a withdrawn token accepted, are log lines handed on whole and once |
| `ConsoleOperations` | is the archive complete, are answers true, do automations spare what was raised, when operators, automations and the event server work on the same alerts |
| `ConsoleAdmin` | do default views, the limit on keys and references to schedules survive concurrent requests and long sequences of edits; do schedules divide the day |
| `UsedScheduleDeleted` *violation* | is a schedule deleted only if no rule is using it |

### Bounds, and why they are enough

* `PipelineSafe`: two identifiers, one of which the rules discard, two calls, writes
  that fail, disconnections, both settings of buffering; with rule tracking on, one
  call (`Bounded` in `MCEventPipeline`), which takes every combination of failing writes.
  Folding needs two calls for one identifier, reordering on a reconnection two messages;
  that a third call for another in between changes nothing is what the theorems about
  `MonitorClient` add, for any number of calls and any server.
  The races are between two inserts of one identifier and between an insert and a
  disconnection. `OccurrenceLimit` is 1 in place of 1440, so that the second occurrence
  meets it.
* `RulesMarks`: an agent rule, two global rules, groups of two
  rules, so that a mark can be left in each place and read in the next; every rule
  may have any of five lists of actions. The log of rules bounds the run by itself.
* `RulesBook`: three names, three rules, four edits, from two files whose `_order`
  disagrees with their groups in the two possible ways. A rename there and back, and
  a delete, stale move, and one more edit fit in four.
* `RulesStore`: two edits, two saves, one crash, with and without `rules.git`; one
  timer of the console and two of the server. Every pair of steps of two saves
  interleaves, a crash falls between any two steps, and a change arrives before,
  while and after a timer runs.
* `ConsoleFeed`: one event, two writes or deletions of it, one console with two looks
  at two filters (connecting, changing, leaving and coming back), two populate
  queries under way, two moments. All races are between one event's write and one
  query; a late write needs two moments, and a populate overtaken by another two
  looks. The view limit is not modelled: it is above the number of events.
* `InputAgents`: three keys and a limit of two, so that a third goes over it; values
  last one tick of four, so that old, renewed and expired items meet in one store; one
  of the keys is a token, for which two requests overlap; a call takes up to one tick.
  Three lines of two characters and chunks of five bytes, so that a window ends inside a
  chunk and a chunk inside a line; two streams open at a time, one truncation, one restart.
* `ConsoleOperations`: a down and an up, one or two times, tallies of one or two, the
  severities 0 and 3. Without automations two requests, of any of the six
  operations, on one event: the races are between two requests, their failures and
  occurrences in between. With automations, one request about the down, and two firings
  that overlap before it (`Bounded` in `MCConsoleOperations`). That constraint stops no
  handler and no timer, only what is asked, fired or inserted, so the answers
  that the liveness property is about are all explored.
* `ConsoleAdmin`: two users with two initial views each, three requests, taken to be
  interchangeable (symmetry; no liveness is checked there), a limit of one key; two
  schedules, two rules and five edits, which suffice to count up a schedule, remake it,
  delete it and reload, or to validate an upload, select by it, delete, activate and reload; two days of six minutes, every schedule of them.

`CHECK_DEADLOCK FALSE` stands in every `.cfg`: agents may stop sending, operators
editing and browsers looking, and the bounds end every behaviour.

### Fairness, and why the code justifies it

* `EventPipeline`: socket.io reconnects by itself and delivers what is on a live
  connection; the driver settles every write; `flushBufferQueue` is a `setInterval` that
  is never cleared. Nothing makes a caller call or a connection fail.
* `RulesStore`: a promise in a save settles; the file system notifies and timers
  run out; whoever supervises the processes starts them again. Nobody has to edit or save.
* `ConsoleFeed`: `Promise.delay` ends, the driver answers every query, sockets
  deliver. Nobody has to write, look or delete, and the 21 second timer of a clear
  needs no fairness.
* `InputAgents`: `fs.watchFile` keeps polling and every stream delivers what it has. None
  for the cache, whose contract allows it to forget.
* `ConsoleOperations`: MongoDB answers or fails every call of a request, and the timer
  of its route runs; for each request. Nobody has to ask, and no automation has to fire.
* `ConsoleAdmin`: none, its properties are about safety.

### What the properties say

*Event path.* `QueueMatchesData`: `queue` and `q_data` name the same identifiers, each
once. `TallyConserved`: folding and flushing lose no count. `OccurrencesFaithful`: the
occurrences of a pending event are its own calls in order. `SentInOrder`:
messages reach the wire in the order of the calls they carry.
`PendingIsFlushed`: no event waits for ever. `AnsweredAfterWrites`: a caller is told
of success when every write has ended and none has reported an error. An upsert that
fails, but for a duplicate key, reports none (`monitor_server.js:358`) and counts as ended; that
its event is not in the database is the violation of `AckedIsStored`. `CreatedOnce`: one caller at most is told
it created an alert. `TrackingIsBestEffort`: a tracking write that
fails fails no event. `CompleteIsAnswered`: every complete event is answered or its
connection lost. `AtMostOnce`: `EventPipeline` implements `EventDelivery`: no count
is stored twice or invented. The refinement maps the tallies in the queue, on the
wire, in the send buffer and in running upserts to `owed`.

*Rules.* `DiscardedIsDropped`: on the server a discard is final, even though later
actions run. `AtMostOneAfterStop`: one rule at most runs after a stop.
`CutShortByOwnRule`: a rule set is left early only for its own rule's stop.
`MatchesAttributed`: tracked matches are recorded under their rule set.

*Book.* `OrderMatchesStore`, `GroupsConserved`, `EditsAreFlagged` as named;
`NoSilentLoss`: a rule leaves a rule set only with a commit message that says so, or
by a reload, but for what the older routes replace or remove, which no message records
(`unrecorded`; without the exception TLC finds it).

*Store.* `OneSaver`: the counter admits one save at a time, although requests that
are turned away count it down as well. `NothingSavedIsLost`: what a save stored is
in the file, a backup or a commit, through later saves and crashes; an import, which
overwrites the file outside the lock, is not in this module and can take it away.
`ReloadIsDue`: a server whose rules are not the file's has a reload coming. `ServerCatchesUp`: it makes it.

*Console.* `RoomIsPolled`: a room with somebody in it is polled, however consoles come
and go during a query. `MissedOnlyByRace`: a row is missing or old, once its poller
has passed it, only by a late write or an overtaking answer. Both
do occur, without either exception TLC finds the race. `GhostsLeave`: who stays with
a filter other than `{}` ends up without rows that have left it.

*Input agents.* `StoreInOrder`: the order of insertion is the order of expiry, on which
`expire` relies. `WithinLimit`: without the timer a cache is over its limit only until the
next tick. `ServesLatest`: `TinyCache` implements `CacheContract`: no value is served
that was replaced, deleted or has expired. `WithdrawnInTime`: a withdrawn token is
accepted for the lifetime of a cached reply and one call at most. `HandedOnIntact`: what
is handed on is a whole line, handed on once, but for the first byte of a next line that the
inclusive end of a window takes, lines cut at the edge of a chunk, and files that shrink
while they are read. `WrittenIsHandedOn`: every character of a line written while the agent
watches is handed on in the end.

*Operators and automations.* `ArchiveHolds`: what a request cleared or deleted is in the
archive with everything it had when the operator asked. `SuccessIsDone`: success is
answered for what has been done to every event that is left; assign and delete
all are excepted, and TLC shows why when they are not. `EveryRequestAnswered`: each request
is answered, but for a clear or delete whose database call failed or that names no event. `AutomationsSpareRaised`:
an automation removes only what is clear when it removes it, and clears only a down that is
older than an up, however firings overlap and events recur meanwhile.

*Accounts and schedules.* `OneDefaultView`: requests that do not overlap leave a user one
default view, given that browsers name views of their own user (`Shown`). `KeysNearLimit`: requests that count keys at the same time exceed the limit
by fewer than there are of them. `SavedRulesLoad`: a rule of the saved file has its schedule,
through any edits, uploads, imports, saves and reloads, unless that schedule was created again
under a name in use, or a rule came to select by it while the store of the process was an
upload's and the book did not count it. `OnlyUnusedDeleted`, what `schedule.ts:202` asks for, is
violated by the second of these: it excepts the first, and TLC needs three steps, an upload, a
rule created and a schedule deleted. `OneOfTwoShifts`: of a schedule and its
reverse exactly one holds at each minute of their days, the first of the day excepted.

The type invariant of every module is a theorem; only the run of `ConsoleOperations` lists
one as well.

## What is proved

`tlapm` checks the proofs for every value of the constants that satisfies the named
assumptions; those say no more than that bounds are natural numbers, that markers
such as "no file" are not data, and that a rule set is a sequence of rules.

| Module | Theorems | The inductive invariant, and why |
|---|---|---|
| `EventPathProofs`, the client | `ClientTypeCorrect`, `ClientQueueMatchesData`, `ClientTallyConserved`, `ClientOccurrencesFaithful`, `ClientSentInOrder` | types and `QueueMatchesData` support each other: folding tests membership in `q_data` and appends to `queue`, so each must imply the other's absence. For the order, `OrderInv`: while the socket is up nothing waits in `sendBuffer`; without it a new message could pass an old one, or a reconnection put an old one last |
| `EventPathProofs`, the pipeline | `PipelineImplementsClient`, `PipelineTypeCorrect`, `PipelineAnsweredAfterWrites`, `PipelineCreatedOnce`, `PipelineTrackingIsBestEffort`, `PipelineDeliversAtMostOnce` | `PathInv`: a message under way without buffering has one call, which waits (`MessagesInv`); an insert handles the event of its call, which is no longer under way and which no other insert has (`OpsInv`); each acknowledgement, on its way or arrived, is true of an insert of its call (`AnswersInv`); the insert that created an alert left a count behind (`CreationsInv`). Without `OpsInv` one call could be answered by two inserts. For the refinement, what is owed of an identifier is the sum of what is queued, under way and in unfinished inserts; each step moves a tally from one to the next (a stutter), adds one (a call), stores one, or forgets some. Sums are cardinalities of disjoint sets, one element per count, so that the theorems about finite sets apply and no induction is needed |
| `RulesEngineProofs` | `RulesTypeCorrect`, `StopIsBounded`, `DiscardIsFinalOnServer`, `TrackingAttribution`, `SetsAreCutByTheirOwnRules` | what has been logged must be reflected in the marks: a logged stop is on the event, a logged discard in `discard_id`, and matches not yet recorded are those of the current rule set. For sets cut short, `CutInv`: a set that is still to run carries no mark of the set before it, and the last rule that was logged either may be the last of its set or its set is still running |
| `RulesBookProofs` | `BookTypeCorrect`, `OrderNeverDiverges`, `GroupsAreConserved`, `ServerEditsFlagged`, `NothingLostSilently` | groups keep their own name and uuid, so that a deletion or rename removes one name from the order and one uuid from the store; lemmas say what `splice` does to a sequence. `NothingLostSilently` names its exceptions: a message, a reload, or a request of the older routes. Nothing is lost by a move because each place that holds a rule before it has a place of its own that holds the same rule after it: an injection between places, whatever the two positions |
| `RulesStoreProofs` | `StoreTypeCorrect`, `OneSaveAtATime`, `SavedIsKept`, `NoMissedReload` | the counter equals the requests not over yet, which makes the one that found it at one alone; where each save is says what the file and the backups must hold |
| `ConsoleFeedProofs` | `RoomsArePolled`, `TypesHold`, `MissedOnlyByRaces` | a poller is marked as running exactly while its chain goes on; so a join finds a live chain or starts one, and a chain ends only in an empty room. For the rows, `NothingSkipped`: an event that matches and is not late was sent, is about to be, or lies after everything the poll under way has found. Without it nothing says that taking the newest of an answer as the next starting point passes no other event by. Supported by: a poller without a query holds nothing; a deletion not announced yet is not undone; a non-empty set of bounded moments has a latest, from the well-foundedness of `<` |
| `InputAgentsProofs`, the cache | `CacheTypeCorrect`, `CacheInOrder`, `CacheWithinLimit`, `CacheServesLatest` | keys once, expiry in order, every item the latest of its key, and no item expiring later than the next one set would: without the last, appending would break the order. Lemmas say what removing one item, dropping a prefix and appending do to such a store. The refinement maps each operation to a step of the contract or a stutter |
| `InputAgentsProofs`, the agents | `HttpWithdrawnInTime`, `TailerHandsOnIntact`, `AgentsUseTheCache`, `InputTypeCorrect` | `HttpInv`: a call under way is no older than the latency, the token it found was valid when it was asked about or later, and so a cached reply expires in time (`FoundExpires`): the bound on acceptance rests on what is in the store, not on what was answered. `TailerInv`: the log holds whole lines; the windows of open streams begin and end where lines do and do not overlap; what was handed on is behind them (`HandedOnIsPast`). Windows are inclusive, so the first character of the next line is read twice, and it is the second character of a handed-on line that no open stream reaches any more. In an agent the cache changes only by its own operations, so that its theorems hold there |
| `ConsoleOperationsProofs` | `OperationsTypeCorrect`, `ArchiveIsComplete`, `SuccessMeansDone`, `AutomationsSpare` | `Sound(r)` for each request: the events it named only gain occurrences and history lines while they are there (`Lasting`), what it has found holds as much as it saw (`Holding`), what it is about to write is in the archive (`Copied`), success comes with the last call (`Succeeded`). And `UpTimes`: `latestUp` exceeds the time of every up that is there or was found. Without `Lasting` a copy made later than the request could hold less than the operator saw |
| `ConsoleAdminProofs` | `AdminTypeCorrect`, `ShiftsShareTheDay`, `DeletedSchedulesHaveNoRules`, `DefaultsStaySingle`, `KeysStayNearLimit` | `CountedEnough`: the count of a schedule that is watched, neither remade nor uncounted, is at least one while a rule of the book selects by it, so that what is saved names only schedules saved with it. While the store is an upload's a rule adds to no count of the book, but one that is positive stays so, as no edit lowers it; what `activate` installs was validated, and so holds its schedules (`ValidLoads`). `AccountsInv`: at most one request is between its calls on the views of an undisturbed user, and `Between` says which default view is there at each of its steps. `KeysNearLimit` is inductive with types: it counts the keys together with the requests about to save one, and a request joins those only while there are fewer keys than the limit. For types, the rules file holds no more rules than the book may, as a reload makes them its own |

Each module's argument has the same shape: the initial states satisfy the
invariant, one lemma per action shows that it keeps it, and a last step combines them.
The theorems about `MonitorClient` hold for any server: the client's specification
lets messages be taken and acknowledged in any order, or never.
`PipelineImplementsClient` says that `MonitorServer` is such a server.

The run of `ConsoleFeed` has one event and one console; that several events do not hide
one another, by the newest of them moving the starting point, is what
`MissedOnlyByRaces` adds.

`OneOfTwoShifts` needs no strengthening but types: the two ranges share the ends
of `Within`, which is open below and closed above. It holds for days of any length.

Both refinements, of `EventDelivery` by `EventPipeline` and of `CacheContract` by
`TinyCache`, every invariant that a run checks, and its action properties, are theorems.
The assumption with most to it is `ViewsFit`: the bound on views leaves room for those that
all users start with.

Only model-checked are the liveness properties (`PendingIsFlushed`, `CompleteIsAnswered`,
`ServerCatchesUp`, `GhostsLeave`, `WrittenIsHandedOn`, `EveryRequestAnswered`), for which
the prover has no reasoning about fairness, and the four disagreements with what
the repository says, which are counterexamples.

## Not modelled, and why

* The IMAP agent: it uses `ImapConnection`, which the `imap` 0.8 that `package.json` asks for
  does not export, and `path.exists`, which node no longer has: it cannot start as it is. The syslog daemon, graylog and the listeners of the agent skeleton
  hand each message to `newalert` (in `RulesEngine`) and keep nothing.
* `LogTokenizer`: a pure function from a line to an event.
* Signals, heartbeats and start-up of agents and servers: run once, in one order.
* Passwords, sessions and logging in; `view::update`, which changes none of what is kept in
  `Accounts`; `schedule::update::days`; the activity log, which nothing reads back.
* Loading automation files, and external commands.
* A poll whose query fails ends the console (`errors.ts:58`), and with it every room.
* Routes, pages, errors, logging, helpers: no state to be wrong. Browser code: w2ui is
  third-party, and the forms of the rules editor hold only what they show; what grids do
  with the server's messages is in `ConsoleFeed`.
* `ClientManager.js`, `DeltaManager.js`: from before the console read MongoDB itself.

## Seen while modelling

Beyond the findings in `PROJECT.json`:

* `monitor_server.js:356` retries a duplicate key with `findAndModify`, which this
  version of mongoose does not have: the loser of the race for a new identifier is
  answered with an error.
* `monitor_server.js:567`: an event with a mandatory column that is null passes the
  client's check, and the server never answers it.
* `action.ts:681`: on an agent a discard is a negative severity, and an action after it
  that sets the severity sends the event on.
* `event_rules.ts:384`: backups are named to the second with a twelve hour clock. With
  equal names TLC finds a file torn by a crash being moved over the good backup;
  `NothingSavedIsLost` is therefore stated for different names.
* With `rules.git` on, the schedule handlers save without a commit, so the next git
  save truncates the only copy of what they stored.
* A failed second move leaves no file, and `stat` then refuses every later save.
* A change of the file between load and watch at start-up is never noticed.
* The console is told of its own save and reloads a second later: edits made in between
  are gone. The commit message of a git save is taken from the messages of that
  moment, including those of edits that are not in it.
* `event_rules.ts:923` (console) flags the server's book whichever book's rule moved;
  `group.action` keeps its name through a rename; a name twice in `_order` is kept twice.
* The view `{}` gets no lists of ids ("doesn't need a list of ids", `mongopoll.ts:299`):
  an alert deleted by a trigger stays on such a grid until somebody clears an event
  or the console populates again. `GhostsLeave` excepts it.
* `triggers.js:400` sets `state_change` on a function and not on the update it returns:
  consoles do not poll what a trigger changed.
* The poll replaces a filter's own condition on `state_change` with its own
  (`mongopoll.ts:269`).
* `events::delete::all` emits another event than the one listened for.
* `event_rules.ts:674` looks for the stop after a rule: the first rule of what follows a
  global stop or discard still runs, against "This stops rule processing completely"
  (`action.ts:514`). `AtMostOneAfterStop` says it is one.
* The older routes `rule::update` and `rule::delete` (`rule.ts:164`, `268`) write no commit
  message, so that a rule they remove is in no message of the commit that drops it;
  `rule::create` flags a group as edited and then fails, as a group has no `add`.
* `event_rules.ts:364` (console): `agent::update` sets the flag last, so that a part that is
  refused leaves the parts before it changed and not flagged.
* An import (`lib/import-export.ts:82`) copies over the rules file without the lock of a save.
* `rule_set.ts:151`: a move from a position that is gone puts `undefined` into a rule set,
  which `add` and `insert` take care to keep out ("Is this a real Rule?", `rule_set.ts:113`).

Input agents:

* The offset from the tracker file is only logged (`log_tailer.js:102`): what was written
  while the agent was down is never read. The syslog agent is given no `logfile`.
* `http/index.js` passes a lifetime to `set` and to `get`, `news.ts` a `time` to the
  constructor: the cache knows neither, so a refusal is kept for 60 seconds and not for 10.
* `OaMon.httpListen` does not call back when an agent has its own port, and the http
  agent's `start` never does. On SIGINT the alert about stopping stays in the buffer when
  the flush interval is longer than the delay before exit.

Operators and automations:

* A delete or clear whose database call fails is answered only by the route's
  time limit, if at all, and one of no events never; a failed assign or delete all is answered as a success.
* `events::severity` to 0 clears without a copy in the archive, as do `delete::all` and the
  older `deletes` handler of `fixme.ts`.
* An occurrence does not change the severity (`monitor_server.js`): a fault that comes back
  after a clear is deleted with it by `find_and_delete_clears`.
* `highsev_unowned` runs a command that never calls back, so its first row is its last;
  `01_find_older_system` computes its threshold once, when it is loaded; `hightally` raises
  events that have been cleared.

Accounts and schedules:

* Removing a user removes one view and one API key (`filters.ts:184`; the comment above it
  says "delete filters belonging to a user"); renaming one leaves both under the old name.
* Two tabs setting defaults at once leave two of them, or none (`filters.ts:116`).
* `ref_count` is never decremented, so that a schedule cannot be deleted once it was used,
  until a reload; and creating one by a name in use starts at none, so that it can be deleted
  from under a rule, and the saved file does not load again. A reload that fails leaves the
  file's schedules with the old rules.
* Validating an uploaded file replaces the store in which rules find and count schedules
  (`import-export.ts:149`, `schedules.ts:30`), whether the file is then activated or not: until
  the next reload `schedule::delete` removes schedules that rules use (`UsedScheduleDeleted`),
  and a rule cannot select by a schedule that the upload does not have.
* The first minute of a day is in no schedule that spans midnight, and such a schedule
  counts only the current day. `schedule::update::days` changes the days that count only
  with the next reload.

## Plan

1. Done: the event path, the rules engine, the rules book, the rules store, the live
   console, the input agents, operators and automations, accounts and schedules, each with
   theorems.
2. Done: every invariant and every action property that a run checks, and both
   refinements, are theorems. Left to TLC: liveness.
3. Compositions worth stating: `RulesEngine` as the refinement of "some identifiers are
   discarded" that `MonitorServer` assumes; `RulesBook` and `Schedules` under `RulesStore`,
   with a version standing for a book; `ConsoleFeed` reading what `EventOps` writes.
