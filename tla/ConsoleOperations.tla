------------------------- MODULE ConsoleOperations -------------------------
(***************************************************************************)
(* Operators, automations and the event server at work on the same alerts. *)
(***************************************************************************)
EXTENDS EventOps, Automations

CONSTANTS
  Enabled,  \* the settings of `automations` in server.ini to consider
  Asked     \* bound: the requests explored with each setting

ASSUME EnabledAssumption == Enabled \subseteq BOOLEAN /\ Asked \in [Enabled -> SUBSET Request]

VARIABLE automations   \* are the automations enabled

vars == <<storeVars, opsVars, firings, automations>>

Init ==
  /\ automations \in Enabled
  /\ StoreInit
  /\ OpsInit
  /\ AutomationsInit

EventServer ==
  /\ \E e \in Event : Insert(e) \/ Recur(e)
  /\ UNCHANGED <<opsVars, firings, automations>>

Operators == (\E r \in Asked[automations] : OpsNext(r)) /\ UNCHANGED <<firings, automations>>

Triggers == automations /\ AutomationsNext /\ UNCHANGED <<opsVars, automations>>

Next == EventServer \/ Operators \/ Triggers

\* MongoDB answers or fails every call, and the timers run.
Fairness ==
  \A r \in Request :
    /\ WF_vars(Handler(r) /\ UNCHANGED <<firings, automations>>)
    /\ WF_vars(Timeout(r) /\ UNCHANGED <<firings, automations>>)

Spec == Init /\ [][Next]_vars /\ Fairness

TypeOK ==
  /\ automations \in Enabled
  /\ StoreTypeOK
  /\ OpsTypeOK
  /\ AutomationsTypeOK

AutomationsSpareRaised == [][Triggers => SparesRaised]_vars
=============================================================================
