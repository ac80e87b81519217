--------------------------- MODULE EventDelivery ---------------------------
(***************************************************************************)
(* What the event path promises about counts, whatever is lost on the way: *)
(* at most once.  An agent owes the store the tally of every event it has  *)
(* submitted; a step either submits, moves owed tally into the store, or   *)
(* forgets some of what is owed.  Nothing is ever stored that was not      *)
(* submitted, and nothing is stored twice.                                 *)
(***************************************************************************)
EXTENDS Naturals

CONSTANT Ident

VARIABLES
  submitted, \* submitted[ident]: tally of all events handed to the event path
  owed,    \* owed[ident]: tally submitted and neither stored nor lost
  stored   \* stored[ident]: tally in the alerts collection

vars == <<submitted, owed, stored>>

Init ==
  /\ submitted = [i \in Ident |-> 0]
  /\ owed = [i \in Ident |-> 0]
  /\ stored = [i \in Ident |-> 0]

Submit ==
  \E i \in Ident :
    /\ submitted'[i] > submitted[i]
    /\ submitted' = [submitted EXCEPT ![i] = submitted'[i]]
    /\ owed' = [owed EXCEPT ![i] = @ + (submitted'[i] - submitted[i])]
    /\ UNCHANGED stored

Store ==
  \E i \in Ident :
    /\ stored'[i] > stored[i]
    /\ stored' = [stored EXCEPT ![i] = stored'[i]]
    /\ owed[i] >= stored'[i] - stored[i]
    /\ owed' = [owed EXCEPT ![i] = @ - (stored'[i] - stored[i])]
    /\ UNCHANGED submitted

Forget ==
  /\ owed' \in [Ident -> Nat]
  /\ \A i \in Ident : owed'[i] <= owed[i]
  /\ UNCHANGED <<submitted, stored>>

Next == Submit \/ Store \/ Forget

Spec == Init /\ [][Next]_vars
=============================================================================
