---------------------------- MODULE InputAgents ----------------------------
(***************************************************************************)
(* The mechanisms of the input agents.  An agent process runs one agent,   *)
(* the one its `agent:type` names (OaMon.loadAgent): the http agent with   *)
(* its token cache, or the syslog agent with its log tailer.  TinyCache is *)
(* also run by itself, for the callers that use more of it.                *)
(***************************************************************************)
EXTENDS HttpAgent, LogTailer

VARIABLE
  agent_type   \* what this process runs

inputVars == <<agent_type, httpVars, tailerVars>>

AgentType == {"http", "syslog", "cache"}

Init ==
  /\ agent_type \in AgentType
  /\ HttpInit
  /\ agent_type # "cache" => options = [bg_expire |-> FALSE, limit_expire_only |-> FALSE]
  /\ TailerInit

Http == agent_type = "http" /\ HttpNext /\ UNCHANGED <<agent_type, tailerVars>>

Cache ==
  /\ agent_type = "cache"
  /\ CacheNext
  /\ UNCHANGED <<agent_type, requests, valid, lastValid, tailerVars>>

Tailer == agent_type = "syslog" /\ TailerNext /\ UNCHANGED <<agent_type, httpVars>>

Next == Http \/ Cache \/ Tailer

Fairness ==
  /\ WF_inputVars(agent_type = "syslog" /\ Poll /\ UNCHANGED <<agent_type, httpVars>>)
  /\ WF_inputVars(agent_type = "syslog" /\ Streams /\ UNCHANGED <<agent_type, httpVars>>)

Spec == Init /\ [][Next]_inputVars /\ Fairness

TypeOK ==
  /\ agent_type \in AgentType
  /\ HttpTypeOK
  /\ TailerTypeOK
=============================================================================
