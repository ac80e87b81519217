--------------------------- MODULE CacheContract ---------------------------
(* What a client of a cache may rely on: a lookup answers with the last    *)
(* value that was stored under its key, and only while that value has not   *)
(* expired, or else it is a miss.  A cache may forget whatever it likes.    *)
EXTENDS Naturals

CONSTANTS
  Id,       \* keys
  Value,    \* what is stored under them
  Timeout   \* for how many ticks of the clock a value may be served

VARIABLES
  now,      \* the clock
  latest,   \* latest[id]: the value last stored under id and when it expires
  answer    \* what the last lookup answered

vars == <<now, latest, answer>>

Item == [value : Value, expires : Nat]
NoItem == [value |-> "none", expires |-> 0]
Miss == "miss"

Init ==
  /\ now = 0
  /\ latest = [i \in Id |-> NoItem]
  /\ answer = Miss

Wait == now' = now + 1 /\ UNCHANGED <<latest, answer>>

Store(i, v) ==
  /\ latest' = [latest EXCEPT ![i] = [value |-> v, expires |-> now + Timeout]]
  /\ UNCHANGED <<now, answer>>

Forget(i) ==
  /\ latest' = [latest EXCEPT ![i] = NoItem]
  /\ UNCHANGED <<now, answer>>

ForgetAll ==
  /\ latest' = [i \in Id |-> NoItem]
  /\ UNCHANGED <<now, answer>>

Lookup(i) ==
  /\ \/ answer' = Miss
     \/ latest[i] # NoItem /\ now <= latest[i].expires /\ answer' = latest[i].value
  /\ UNCHANGED <<now, latest>>

Next ==
  \/ Wait
  \/ \E i \in Id : Lookup(i) \/ Forget(i) \/ \E v \in Value : Store(i, v)
  \/ ForgetAll

Spec == Init /\ [][Next]_vars
=============================================================================
