----------------------------- MODULE HttpAgent -----------------------------
(***************************************************************************)
(* The token check of the http agent (oa-event-monitors/lib/http): every   *)
(* request carries a token, which is looked up in a TinyCache and, on a    *)
(* miss, asked of the API key service.  Requests are served concurrently:  *)
(* between the miss and the reply others may ask for the same token, the   *)
(* service may change its mind, and replies may arrive in any order.       *)
(*                                                                         *)
(* The service is external: it replies whether the token is valid when it  *)
(* handles the request, or fails; the time-outs given to needle mean that  *)
(* one or the other happens within Latency.                                *)
(***************************************************************************)
EXTENDS TinyCache

CONSTANTS
  Token,     \* the tokens requests carry
  Request,   \* bound: the requests that are served at the same time
  Latency    \* open_timeout and read_timeout of the call to the service

ASSUME HttpAssumption == Token \subseteq Id /\ Latency \in Nat /\ Value = {"found", "refused"}

VARIABLES
  requests,  \* requests[r]: a request and where its token check has got to
  valid,     \* the tokens the service knows
  lastValid  \* history: when a token was last known to the service

httpVars == <<cacheVars, requests, valid, lastValid>>

\* A settled request has been passed on or refused; `stale` is how long before
\* it was passed on its token had last been valid.
Idle == [state |-> "settled", stale |-> 0]

TokenCheck ==
  [state : {"settled"}, stale : Nat]
    \cup [state : {"asking"}, token : Token, asked : Nat]
    \cup [state : {"replied"}, token : Token, asked : Nat, reply : Value \cup {"failed"}]

HttpTypeOK ==
  /\ CacheTypeOK
  /\ requests \in [Request -> TokenCheck]
  /\ valid \subseteq Token
  /\ lastValid \in [Token -> Nat]

HttpInit ==
  /\ CacheInit
  /\ requests = [r \in Request |-> Idle]
  /\ valid = Token
  /\ lastValid = [t \in Token |-> 0]

Stale(t) == IF t \in valid THEN 0 ELSE now - lastValid[t]

\* Mutant: what is in the cache passes, whatever the service had said.
PassesAnything(body) == body # "failed"

\* The middleware passes only what the service found.
Passes(body) == body = "found"

Decided(t, body) == [Idle EXCEPT !.stale = IF Passes(body) THEN Stale(t) ELSE 0]

\* checkTokenAsync: the cache answers, or the service is asked.
checkTokenAsync(r, t) ==
  /\ requests[r].state = "settled"
  /\ get(t)
  /\ requests' = [requests EXCEPT ![r] =
       IF Found(t) THEN Decided(t, ItemOf(store, t).value)
       ELSE [state |-> "asking", token |-> t, asked |-> now]]
  /\ UNCHANGED <<valid, lastValid>>

ServiceReplies(r) ==
  /\ requests[r].state = "asking"
  /\ \E reply \in {"failed", IF requests[r].token \in valid THEN "found" ELSE "refused"} :
       requests' = [requests EXCEPT ![r] =
         [state |-> "replied", token |-> requests[r].token, asked |-> requests[r].asked,
          reply |-> reply]]
  /\ UNCHANGED <<cacheVars, valid, lastValid>>

\* Both good and bad replies are cached; a failed call is not, and is refused.
ReplyArrives(r) ==
  LET t == requests[r].token
      reply == requests[r].reply
  IN
  /\ requests[r].state = "replied"
  /\ IF reply = "failed" THEN UNCHANGED cacheVars ELSE set(t, reply)
  /\ requests' = [requests EXCEPT ![r] = Decided(t, reply)]
  /\ UNCHANGED <<valid, lastValid>>

\* The service comes to know a token, or knows it no more.
ServiceChanges(t) ==
  /\ valid' = (valid \ {t}) \cup ({t} \ valid)
  /\ lastValid' = [lastValid EXCEPT ![t] = now]
  /\ UNCHANGED <<cacheVars, requests>>

\* Time passes; a call that has taken Latency has been answered first.
Later ==
  /\ Wait
  /\ \A r \in Request :
       requests[r].state # "settled" => now < requests[r].asked + Latency
  /\ UNCHANGED <<requests, valid, lastValid>>

NextTick ==
  /\ expire_force
  /\ UNCHANGED <<requests, valid, lastValid>>

HttpNext ==
  \/ \E r \in Request : ServiceReplies(r) \/ ReplyArrives(r) \/ \E t \in Token : checkTokenAsync(r, t)
  \/ \E t \in Token : ServiceChanges(t)
  \/ Later
  \/ NextTick

HttpSpec == HttpInit /\ [][HttpNext]_httpVars

----------------------------------------------------------------------------
\* A token the service has withdrawn is accepted for at most the lifetime of a
\* cached reply and the time one call may take, however requests and replies
\* interleave.
WithdrawnInTime ==
  \A r \in Request : requests[r].state = "settled" => requests[r].stale <= Timeout + Latency
=============================================================================
