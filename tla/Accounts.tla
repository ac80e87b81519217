------------------------------ MODULE Accounts ------------------------------
(***************************************************************************)
(* Users, their views and their API keys: the requests of                  *)
(* app/socketio/{user,view,apikeys}.ts on the collections of app/model.    *)
(*                                                                         *)
(* A request is one process of the console.  Between two of its calls to   *)
(* MongoDB the calls of others are served; every call may fail.  What is   *)
(* in a view but its owner and whether it is the default, passwords, and   *)
(* the mails that are sent, are left out; so are view::update and the      *)
(* requests that only read.                                                *)
(***************************************************************************)
EXTENDS Naturals, FiniteSets

CONSTANTS
  User,          \* usernames
  InitialView,   \* the views every new account gets
  DefaultView,   \* the one of them that is its default
  Request,       \* the requests explored
  apikey_limit,  \* app.apikey_limit
  MaxViews       \* bound: views ever made

ASSUME AccountsAssumption ==
  /\ IsFiniteSet(User) /\ User # {} /\ IsFiniteSet(InitialView)
  /\ IsFiniteSet(Request) /\ Request # {}
  /\ DefaultView \in InitialView
  /\ apikey_limit \in Nat /\ MaxViews \in Nat

\* The bound leaves room for the views that all users may start with.
ASSUME ViewsFit == Cardinality(User) * Cardinality(InitialView) <= MaxViews

VARIABLES
  users,      \* the User collection
  views,      \* the Filters collection: from _id to owner and default
  made,       \* how many _ids were given to views
  apikeys,    \* the ApiKey collection: how many each user has
  requests,   \* where each request has got to
  disturbed   \* history: users whose views were left to a race or an error

accountVars == <<users, views, made, apikeys, requests, disturbed>>

Operation == {"none", "user::create", "user::delete", "view::delete", "view::set_default",
              "apikey::create"}

View == [user : User, default : BOOLEAN]

\* op, of those that make more than one call; step: the call it makes next; todo: the
\* calls it makes at the same time.
RequestState ==
  [op : Operation, user : User, view : 0..MaxViews,
   step : {"idle", "create", "token", "remove", "deleteOne", "set", "save", "done"},
   todo : SUBSET (InitialView \cup {"user", "views", "apikeys"}),
   answer : {"none", "ok", "error"}]

AccountsTypeOK ==
  /\ users \subseteq User
  /\ made \in 0..MaxViews
  /\ DOMAIN views \subseteq 1..made /\ \A v \in DOMAIN views : views[v] \in View
  /\ apikeys \in [User -> Nat]
  /\ requests \in [Request -> RequestState]
  /\ disturbed \subseteq User

Idle == [op |-> "none", user |-> CHOOSE u \in User : TRUE, view |-> 0, step |-> "idle",
         todo |-> {}, answer |-> "none"]

\* The documents of ApiKey, when each user has as many keys as `counts` says.
Keys(counts) == UNION {{u} \X (1..counts[u]) : u \in User}

\* Any of the users have accounts with as many views as a new one gets, one of them
\* the default.
AccountsInit ==
  /\ users \in SUBSET User
  /\ made = Cardinality(users) * Cardinality(InitialView)
  /\ \E owner \in [1..made -> users], default \in [users -> 1..made] :
       /\ \A u \in users :
            /\ Cardinality({v \in 1..made : owner[v] = u}) = Cardinality(InitialView)
            /\ owner[default[u]] = u
       /\ views = [v \in 1..made |-> [user |-> owner[v], default |-> default[owner[v]] = v]]
  /\ apikeys \in {counts \in [User -> 0..apikey_limit] : Cardinality(Keys(counts)) <= apikey_limit}
  /\ requests = [r \in Request |-> Idle]
  /\ disturbed = {}

----------------------------------------------------------------------------
Views(u) == {v \in DOMAIN views : views[v].user = u}

Defaults(u) == {v \in Views(u) : views[v].default}

Removed(vs) == [v \in DOMAIN views \ vs |-> views[v]]

Inserted(u, default) ==
  [v \in DOMAIN views \cup {made + 1} |->
     IF v = made + 1 THEN [user |-> u, default |-> default] ELSE views[v]]

at(r, step) == requests[r].step = step

\* Request r goes on to another call.
Goes(r, op, u, v, step, todo) ==
  requests' = [requests EXCEPT ![r] =
    [op |-> op, user |-> u, view |-> v, step |-> step, todo |-> todo, answer |-> "none"]]

Answers(r, answer) ==
  requests' = [requests EXCEPT ![r] = [Idle EXCEPT !.step = "done", !.answer = answer]]

\* Requests between their calls on the views of u.
Underway(u) ==
  {r \in Request : requests[r].user = u /\ requests[r].op \notin {"none", "apikey::create"}}

Disturbs(u) == disturbed' = disturbed \cup {u}

\* History: a request on the views of u begins while others are between their calls.
Overlaps(u) == IF Underway(u) # {} THEN Disturbs(u) ELSE UNCHANGED disturbed

\* The view a request of u names.  An assumption about the browser, which names
\* what the screen of u shows: a view of u, or one that is gone by now.  Neither
\* view.ts:193-229 nor filters.ts asks who owns the view.
Shown(u, v) == v \in DOMAIN views => views[v].user = u

----------------------------------------------------------------------------
(* user.ts *)

\* User.register refuses a name in use.
Register(r, u) ==
  /\ at(r, "idle")
  /\ IF u \in users
     THEN Answers(r, "error") /\ UNCHANGED <<users, disturbed>>
     ELSE /\ users' = users \cup {u}
          /\ Goes(r, "user::create", u, 0, "create", InitialView)
          /\ IF Views(u) # {} THEN Disturbs(u) ELSE Overlaps(u)
  /\ UNCHANGED <<views, made, apikeys>>

\* setup_initial_views creates all of them at once.  The request is answered when
\* the first fails; the others are created all the same.
CreateInitial(r, name, succeeds) ==
  LET q == requests[r]
      left == q.todo \ {name} IN
  /\ q.op = "user::create" /\ name \in q.todo /\ made < MaxViews
  /\ IF succeeds
     THEN views' = Inserted(q.user, name = DefaultView) /\ made' = made + 1 /\ UNCHANGED disturbed
     ELSE Disturbs(q.user) /\ UNCHANGED <<views, made>>
  /\ IF left = {} /\ (~succeeds \/ q.answer = "error")
     THEN Answers(r, "error")
     ELSE requests' = [requests EXCEPT
            ![r].todo = left,
            ![r].answer = IF succeeds THEN @ ELSE "error",
            ![r].step = IF left = {} THEN "token" ELSE @]
  /\ UNCHANGED <<users, apikeys>>

\* findOne and save give the account its first token; its user may be gone again.
GenerateToken(r) ==
  /\ at(r, "token")
  /\ Answers(r, IF requests[r].user \in users THEN "ok" ELSE "error")
  /\ UNCHANGED <<users, views, made, apikeys, disturbed>>

\* findByIdAndUpdate may give the account another name, unless that is in use.  What
\* it owns is filed under its name, and is not renamed.
Update(r, u, name) ==
  /\ at(r, "idle")
  /\ IF u \in users /\ name \notin users
     THEN users' = (users \ {u}) \cup {name} /\ disturbed' = disturbed \cup {u, name}
     ELSE UNCHANGED <<users, disturbed>>
  /\ Answers(r, IF u \in users /\ name \in users \ {u} THEN "error" ELSE "ok")
  /\ UNCHANGED <<views, made, apikeys>>

\* The three delete_user are called at once.
DeleteUser(r, u) ==
  /\ at(r, "idle")
  /\ Goes(r, "user::delete", u, 0, "remove", {"user", "views", "apikeys"})
  /\ Disturbs(u)
  /\ UNCHANGED <<users, views, made, apikeys>>

\* Each of them is a deleteOne: it removes one document, if there is one.
DeleteOf(r, part) ==
  LET u == requests[r].user
      left == requests[r].todo \ {part} IN
  /\ at(r, "remove") /\ part \in requests[r].todo
  /\ users' = IF part = "user" THEN users \ {u} ELSE users
  /\ IF part = "views" /\ Views(u) # {}
     THEN \E v \in Views(u) : views' = Removed({v})
     ELSE UNCHANGED views
  /\ apikeys' = IF part = "apikeys" /\ apikeys[u] > 0 THEN [apikeys EXCEPT ![u] = @ - 1] ELSE apikeys
  /\ IF left = {} THEN Answers(r, "ok") ELSE requests' = [requests EXCEPT ![r].todo = left]
  /\ UNCHANGED <<made, disturbed>>

----------------------------------------------------------------------------
(* view.ts and model/filters.ts, for the user u who is logged in *)

CreateView(r, u) ==
  /\ at(r, "idle") /\ u \in users /\ made < MaxViews
  /\ views' = Inserted(u, FALSE) /\ made' = made + 1
  /\ Answers(r, "ok")
  /\ UNCHANGED <<users, apikeys, disturbed>>

\* A default view is refused.
Refused(v) == v \in DOMAIN views /\ views[v].default

DeleteView(r, u, v) ==
  /\ at(r, "idle") /\ u \in users /\ Shown(u, v)
  /\ IF Refused(v)
     THEN Answers(r, "error") /\ UNCHANGED disturbed
     ELSE Goes(r, "view::delete", u, v, "deleteOne", {}) /\ Overlaps(u)
  /\ UNCHANGED <<users, views, made, apikeys>>

DeleteOne(r) ==
  /\ at(r, "deleteOne")
  /\ views' = Removed({requests[r].view})
  /\ Answers(r, "ok")
  /\ UNCHANGED <<users, made, apikeys, disturbed>>

\* A mutant of Unset: the condition names no user.
UnsetEveryones(u) == {v \in DOMAIN views : views[v].default}

\* The views that a request of u takes the default from.
Unset(u) == Defaults(u)

UnsetDefault(r, u, v) ==
  /\ at(r, "idle") /\ u \in users /\ Shown(u, v)
  /\ views' = [w \in DOMAIN views |-> IF w \in Unset(u) THEN [views[w] EXCEPT !.default = FALSE] ELSE views[w]]
  /\ Goes(r, "view::set_default", u, v, "set", {})
  /\ Overlaps(u)
  /\ UNCHANGED <<users, made, apikeys>>

\* findByIdAndUpdate finds nothing when the view is gone, and the request fails.
SetDefault(r) ==
  LET v == requests[r].view IN
  /\ at(r, "set")
  /\ IF v \in DOMAIN views
     THEN views' = [views EXCEPT ![v].default = TRUE] /\ Answers(r, "ok") /\ UNCHANGED disturbed
     ELSE UNCHANGED views /\ Answers(r, "error") /\ Disturbs(requests[r].user)
  /\ UNCHANGED <<users, made, apikeys>>

----------------------------------------------------------------------------
(* apikeys.ts *)

ApiKeys == Cardinality(Keys(apikeys))

\* A mutant of LimitReached: one too many.
LimitPassed == ApiKeys > apikey_limit

\* ApiKey.count() against app.apikey_limit.
LimitReached == ApiKeys >= apikey_limit

CountKeys(r, u) ==
  /\ at(r, "idle") /\ u \in users
  /\ IF LimitReached THEN Answers(r, "error") ELSE Goes(r, "apikey::create", u, 0, "save", {})
  /\ UNCHANGED <<users, views, made, apikeys, disturbed>>

SaveKey(r) ==
  /\ at(r, "save")
  /\ apikeys' = [apikeys EXCEPT ![requests[r].user] = @ + 1]
  /\ Answers(r, "ok")
  /\ UNCHANGED <<users, views, made, disturbed>>

\* The list shows the keys of all users; the key may be gone by now.
DeleteKey(r) ==
  /\ at(r, "idle")
  /\ \/ \E u \in User : apikeys[u] > 0 /\ apikeys' = [apikeys EXCEPT ![u] = @ - 1]
     \/ UNCHANGED apikeys
  /\ Answers(r, "ok")
  /\ UNCHANGED <<users, views, made, disturbed>>

\* A call fails, and its request with it; what the request did before stays done.
CallFails(r) ==
  /\ requests[r].step \in {"token", "deleteOne", "set", "save"}
  /\ Answers(r, "error")
  /\ IF at(r, "set") THEN Disturbs(requests[r].user) ELSE UNCHANGED disturbed
  /\ UNCHANGED <<users, views, made, apikeys>>

----------------------------------------------------------------------------
UserRequests(r) ==
  \/ \E u \in User : Register(r, u) \/ DeleteUser(r, u) \/ \E name \in User : Update(r, u, name)
  \/ \E name \in InitialView, succeeds \in BOOLEAN : CreateInitial(r, name, succeeds)
  \/ GenerateToken(r)
  \/ \E part \in {"user", "views", "apikeys"} : DeleteOf(r, part)

ViewRequests(r) ==
  \/ \E u \in User : CreateView(r, u) \/ \E v \in 1..made : DeleteView(r, u, v) \/ UnsetDefault(r, u, v)
  \/ DeleteOne(r) \/ SetDefault(r)

KeyRequests(r) ==
  \/ \E u \in User : CountKeys(r, u)
  \/ SaveKey(r) \/ DeleteKey(r)

----------------------------------------------------------------------------
(* A user has exactly one default view, whatever its requests do one after *)
(* another: it is lost or doubled only by requests on the same views that  *)
(* overlap, by setting a default that is gone or whose second write fails, *)
(* or with an account that was removed or renamed.                         *)
OneDefaultView ==
  \A u \in users :
    u \in disturbed \/ Underway(u) # {} \/ Cardinality(Defaults(u)) = 1

(* The limit on API keys is counted before a key is saved.  Requests that  *)
(* count at the same time all pass it, and take the number of keys over it *)
(* by no more than there are of them beside the first.                     *)
KeysNearLimit ==
  LET saving == {r \in Request : at(r, "save")} IN
  ApiKeys + Cardinality(saving) <= apikey_limit + (Cardinality(Request) - 1)
=============================================================================
