------------------------------ MODULE EventOps ------------------------------
(***************************************************************************)
(* What operators do to events through the console (app/socketio/events.ts *)
(* over the routes of lib/socketio.ts).  Every request goes through its    *)
(* database calls one by one; each may fail, and between any two of them   *)
(* other requests, the event server and the automations do theirs.         *)
(*                                                                         *)
(* What is abstracted: acknowledge, its variant with a note, unacknowledge *)
(* and external_id are the one operation "update"; an updateMany or        *)
(* deleteMany that succeeds is one step, one that fails has been applied   *)
(* to any of its documents; of a copy only the tally and the history are   *)
(* kept; the activity log, which is only written to, is left out.          *)
(***************************************************************************)
EXTENDS AlertStore

CONSTANT MaxIds   \* bound: how many events one request names

ASSUME OpsAssumption == MaxIds \in Nat

VARIABLES
  requests,   \* requests[r]: where the request has got to
  archive     \* the EventArchive collection, each copy with the request that made it

opsVars == <<requests, archive>>

Operation == {"clear", "delete", "severity", "update", "assign", "delete::all"}

Stage == {"idle", "find", "copy", "lookup", "write", "done"}

Snapshot == [tally : 1..MaxTally, history : SUBSET Request]

\* The documents a request knows of, by event.
Snapshots == UNION {[S -> Snapshot] : S \in SUBSET Event}

\* seen: the documents as they were when the request came in; docs: those that
\* were found to be copied; took: the events it has changed; failed: a call to
\* the database failed.
RequestState ==
  [stage : Stage, op : Operation, severity : Severity, ids : SUBSET Event,
   seen : Snapshots, docs : Snapshots, answer : {"none", "ok", "error", "timeout"},
   took : SUBSET Event, failed : BOOLEAN]

Copy == [request : Request, event : Event, doc : Snapshot]

OpsTypeOK ==
  /\ requests \in [Request -> RequestState]
  /\ archive \subseteq Copy

NoDocs == [e \in {} |-> 0]

Idle == [stage |-> "idle", op |-> "update", severity |-> 0, ids |-> {}, seen |-> NoDocs,
         docs |-> NoDocs, answer |-> "none", took |-> {}, failed |-> FALSE]

OpsInit ==
  /\ requests = [r \in Request |-> Idle]
  /\ archive = {}

----------------------------------------------------------------------------
at(r, stage) == requests[r].stage = stage

Goes(r, state) == requests' = [requests EXCEPT ![r] = state]

\* A socket.io acknowledgement is sent once: only the first answer counts.
Answer(r, a) == IF requests[r].answer = "none" THEN a ELSE requests[r].answer

FoundNow(ids) ==
  [e \in ids \cap Present |-> [tally |-> alerts[e].tally, history |-> alerts[e].history]]

\* History: what the archive must hold of the events if they go.
SeenBy(op, ids) == IF op \in {"clear", "delete"} THEN FoundNow(ids) ELSE NoDocs

\* Mutant: the events are removed or cleared first, and copied then.
FirstStageUncopied(op) ==
  CASE op \in {"severity", "assign"} -> "lookup" [] OTHER -> "write"

\* Which call to the database comes first.
FirstStage(op) ==
  CASE op \in {"clear", "delete"} -> "find"
    [] op \in {"severity", "assign"} -> "lookup"
    [] OTHER -> "write"

\* A request comes in from a console, whose rows may be gone by now.  To clear
\* or delete nothing only sends a message: the handler ends without an answer.
\* That delete::all is for an administrator (events.ts:326) is left out.
Ask(r) ==
  /\ at(r, "idle")
  /\ \E op \in Operation, s \in Severity :
     \E ids \in SUBSET {e \in Event : alerts[e] # NotYet} :
       /\ Cardinality(ids) <= MaxIds
       /\ op # "severity" => s = 0
       /\ op = "delete::all" => ids = {}
       /\ IF ids = {} /\ op \in {"clear", "delete"}
          THEN Goes(r, [Idle EXCEPT !.stage = "done", !.op = op])
          ELSE Goes(r, [Idle EXCEPT !.stage = FirstStage(op), !.op = op, !.severity = s,
                                    !.ids = ids, !.seen = SeenBy(op, ids)])
  /\ UNCHANGED <<storeVars, archive>>

\* Mutant: an update that failed is answered like one that succeeded.
OnFailureOk(op) == IF op \in {"clear", "delete"} THEN "none" ELSE "ok"

\* How a failure ends.  clear and delete only raise 'error' in the server;
\* assign and delete::all do so too, and their route answers with what the
\* handler returned; the others hand the error to the client.
OnFailure(op) ==
  CASE op \in {"clear", "delete"} -> "none"
    [] op \in {"assign", "delete::all"} -> "ok"
    [] OTHER -> "error"

Fails(r, took) ==
  Goes(r, [requests[r] EXCEPT !.stage = "done", !.answer = Answer(r, OnFailure(requests[r].op)),
                              !.failed = TRUE, !.took = took, !.docs = NoDocs])

\* Mutant: with nothing to copy the handler ends, and its client waits.
AfterFindNothing(docs) == IF DOMAIN docs = {} THEN "done" ELSE "copy"

\* If nothing is there any more, nothing is copied, and the handler goes on.
AfterFind(docs) == IF DOMAIN docs = {} THEN "write" ELSE "copy"

\* copy_events_async: find.
CopyFind(r) ==
  /\ at(r, "find")
  /\ \/ LET docs == FoundNow(requests[r].ids) IN
        Goes(r, [requests[r] EXCEPT !.stage = AfterFind(docs), !.docs = docs])
     \/ Fails(r, {})
  /\ UNCHANGED <<storeVars, archive>>

Copies(r, S) ==
  {[request |-> r, event |-> e, doc |-> requests[r].docs[e]] : e \in S}

\* copy_events_async: the unordered bulk insert, which may fail in part.
CopyExecute(r) ==
  /\ at(r, "copy")
  /\ \/ /\ archive' = archive \cup Copies(r, DOMAIN requests[r].docs)
        /\ Goes(r, [requests[r] EXCEPT !.stage = "write", !.docs = NoDocs])
     \/ \E S \in SUBSET DOMAIN requests[r].docs :
          /\ archive' = archive \cup Copies(r, S)
          /\ Fails(r, {})
  /\ UNCHANGED storeVars

\* Severity.findOne or User.findOne: the value may not exist.
Lookup(r) ==
  /\ at(r, "lookup")
  /\ Goes(r, [requests[r] EXCEPT !.stage = "write"]) \/ Fails(r, {})
  /\ UNCHANGED <<storeVars, archive>>

\* Mutant: the place of the severity in the list is stored, not its value.
WrittenByPlace(r, doc) ==
  LET q == requests[r] IN
  [doc EXCEPT !.history = @ \cup {r},
              !.severity = CASE q.op = "clear" -> 0
                             [] q.op = "severity" -> q.severity + 1
                             [] OTHER -> @]

\* $set and $push of one updateMany: a line goes into the history.
Written(r, doc) ==
  LET q == requests[r] IN
  [doc EXCEPT !.history = @ \cup {r},
              !.severity = CASE q.op = "clear" -> 0
                             [] q.op = "severity" -> q.severity
                             [] OTHER -> @]

\* The last call has been made, to the documents S.
Completes(r, S) ==
  Goes(r, [requests[r] EXCEPT !.stage = "done", !.answer = Answer(r, "ok"), !.took = S])

\* apply_updates_db.  An assignment that has changed nothing is an error.
UpdateMany(r) ==
  LET ids == requests[r].ids \cap Present IN
  /\ at(r, "write") /\ requests[r].op \notin {"delete", "delete::all"}
  /\ \E S \in SUBSET ids :
       /\ alerts' = Updated([e \in S |-> Written(r, alerts[e])])
       /\ (S = ids /\ Completes(r, S)) \/ Fails(r, S)
  /\ UNCHANGED <<latestUp, archive>>

\* events::delete and events::delete::all: deleteMany.
DeleteMany(r) ==
  LET ids == IF requests[r].op = "delete" THEN requests[r].ids \cap Present ELSE Present IN
  /\ at(r, "write") /\ requests[r].op \in {"delete", "delete::all"}
  /\ \E S \in SUBSET ids :
       /\ alerts' = Removed(S)
       /\ (S = ids /\ Completes(r, S)) \/ Fails(r, S)
  /\ UNCHANGED <<latestUp, archive>>

\* The route gives its handler 20 seconds and then answers for it; the handler
\* goes on.
Timeout(r) ==
  /\ requests[r].stage \notin {"idle", "done"}
  /\ requests[r].answer = "none"
  /\ Goes(r, [requests[r] EXCEPT !.answer = "timeout"])
  /\ UNCHANGED <<storeVars, archive>>

Handler(r) ==
  CopyFind(r) \/ CopyExecute(r) \/ Lookup(r) \/ UpdateMany(r) \/ DeleteMany(r)

OpsNext(r) == Ask(r) \/ Handler(r) \/ Timeout(r)

----------------------------------------------------------------------------
(* Properties                                                              *)

\* What an operator cleared or deleted is in the archive, by that request, with
\* every occurrence and every history line it had when the operator asked:
\* whatever came in between, failed in part or was asked at the same time, only
\* what came after the request can be missing.
ArchiveHolds ==
  \A r \in Request :
    requests[r].op \in {"clear", "delete"} =>
      \A e \in requests[r].took : \E c \in archive :
        /\ c.request = r /\ c.event = e
        /\ c.doc.tally >= requests[r].seen[e].tally
        /\ requests[r].seen[e].history \subseteq c.doc.history

\* A request that is answered with success was done to every event it named
\* that is still there, and what it deleted stays away.  assign and delete::all
\* are left out: their failures are answered with success too.
SuccessIsDone ==
  \A r \in Request :
    LET q == requests[r] IN
    q.answer = "ok" /\ q.op \notin {"assign", "delete::all"} =>
      \A e \in q.ids \cap Present : q.op # "delete" /\ r \in alerts[e].history

\* Every request is answered, unless it is a clear or a delete that names no
\* event, or one for which a call to the database has failed: these handlers only
\* raise an 'error', and the client's callback is never called.
EveryRequestAnswered ==
  \A r \in Request :
    requests[r].stage # "idle" ~>
      \/ requests[r].answer # "none"
      \/ /\ requests[r].op \in {"clear", "delete"}
         /\ requests[r].failed \/ requests[r].ids = {}
=============================================================================
