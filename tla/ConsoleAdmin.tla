---------------------------- MODULE ConsoleAdmin ----------------------------
(***************************************************************************)
(* What administrators keep through the console besides rules: accounts    *)
(* with their views, API keys, and schedules.  They share nothing, and are *)
(* explored one at a time.                                                 *)
(***************************************************************************)
EXTENDS Accounts, Schedules

VARIABLE page   \* the settings page the administrators are at

vars == <<accountVars, bookVars, calendarVars, page>>

Page == {"accounts", "apikeys", "schedules", "calendar"}

\* What is not looked at starts from one of its initial states.
Init ==
  /\ page \in Page
  /\ AccountsInit
  /\ page \notin {"accounts", "apikeys"} => users = {}
  /\ page # "apikeys" => \A u \in User : apikeys[u] = 0
  /\ BookInit /\ (page # "schedules" => file.schedules = {})
  /\ CalendarInit
  /\ page # "calendar" => schedule = [start |-> 0, end |-> 1, isoDays |-> {1}]

AccountsPage ==
  /\ page = "accounts"
  /\ \E r \in Request : UserRequests(r) \/ ViewRequests(r) \/ CallFails(r)
  /\ UNCHANGED <<bookVars, calendarVars, page>>

KeysPage ==
  /\ page = "apikeys"
  /\ \E r \in Request : UserRequests(r) \/ KeyRequests(r) \/ CallFails(r)
  /\ UNCHANGED <<bookVars, calendarVars, page>>

Book == page = "schedules" /\ BookNext /\ UNCHANGED <<accountVars, calendarVars, page>>

Calendar == page = "calendar" /\ Tick /\ UNCHANGED <<accountVars, bookVars, page>>

Next == AccountsPage \/ KeysPage \/ Book \/ Calendar

Spec == Init /\ [][Next]_vars

TypeOK ==
  /\ page \in Page
  /\ AccountsTypeOK
  /\ BookTypeOK
  /\ CalendarTypeOK
=============================================================================
