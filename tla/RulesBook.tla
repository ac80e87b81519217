----------------------------- MODULE RulesBook -----------------------------
(***************************************************************************)
(* The rules as the console edits them in memory.  A book (an EventRules   *)
(* object) is the server's, with its groups in order and a rule set, or an *)
(* agent's, with a rule set only.  Browsers send edits by group name and   *)
(* by position; a position is the one on the operator's screen, which may  *)
(* be of a rule set that has since been changed by another operator.       *)
(* Two sets of routes edit the same book: those of event_rules.ts, which   *)
(* the pages use, and the older ones of rule.ts, which leave no message    *)
(* for the commit.                                                         *)
(*                                                                         *)
(* What is abstracted: a rule is its identity, a group its name, its uuid   *)
(* and which select it has; of the rule sets of the server one is kept.    *)
(* Requests the handlers reject before they change anything are left out.  *)
(***************************************************************************)
EXTENDS Naturals, Sequences, FiniteSets, SequencesExt

CONSTANTS
  GroupName,   \* names an operator may give a group
  Uuid,        \* the uuids of groups
  RuleId,      \* rules
  NotARule,    \* JavaScript's undefined in a rule set
  Documents,   \* what the rules file may hold
  MaxEdits,    \* bound: how many edits are made
  MaxRules     \* bound: the length of a rule set

Book == {"server", "agent"}

Select == {"none", "some"}

\* A group of the rules file, and the file: the groups in the order of their
\* keys, the `_order` array, and the rules of each book.
Group == [name : GroupName, uuid : Uuid, select : Select]

Document == [keys : Seq(GroupName), _order : Seq(GroupName),
             groups : UNION {[N -> Group] : N \in SUBSET GroupName},
             rules : [Book -> Seq(RuleId)]]

Elems(s) == {s[k] : k \in 1..Len(s)}

\* Each of a set of names once.
Orders(s, names) == Elems(s) = names /\ \A j, k \in 1..Len(s) : s[j] = s[k] => j = k

\* Groups.generate: names in `_order` that are not groups are removed, groups
\* that are not in `_order` are appended.
GeneratedOrder(d) ==
  SelectSeq(d._order, LAMBDA n : n \in Elems(d.keys))
    \o SelectSeq(d.keys, LAMBDA n : n \notin Elems(d._order))

\* A document has each group once, under its own name, with a uuid of its own;
\* validation does not see to it that `_order` has no duplicates, this does.
ASSUME DocumentAssumption ==
  \A d \in Documents :
    /\ d \in Document
    /\ DOMAIN d.groups = Elems(d.keys)
    /\ GeneratedOrder(d) \in Seq(GroupName)
    /\ Orders(GeneratedOrder(d), Elems(d.keys))
    /\ \A n \in DOMAIN d.groups : d.groups[n].name = n
    /\ \A m, n \in DOMAIN d.groups : d.groups[m].uuid = d.groups[n].uuid => m = n

ASSUME BoundsAssumption == MaxEdits \in Nat /\ MaxRules \in Nat /\ NotARule \notin RuleId

VARIABLES
  store,        \* Groups.store: group by name
  store_order,  \* Groups.store_order
  rules,        \* rules[book]: the rule set, by position
  edited,       \* edited[book]: the edited flag
  shown,        \* history: shown[book] is the longest rule set a browser has been shown
  edit_msgs,    \* edit_msgs[book]: how many messages wait for the next commit
  unrecorded,   \* history: unrecorded[book] counts rules replaced or removed by the older routes
  loaded,       \* history: loaded[book] is what the book held when last loaded
  expected,     \* history: uuids of groups loaded or created and not deleted
  edits         \* bound: edits made so far

vars == <<store, store_order, rules, shown, edited, edit_msgs, unrecorded, loaded, expected, edits>>

groupVars == <<store, store_order, expected>>

ruleVars == <<rules, shown>>

Larger(m, n) == IF m > n THEN m ELSE n

\* A rule set changes and is read by browsers, which may act on it much later.
Set(b, s) ==
  /\ rules' = [rules EXCEPT ![b] = s]
  /\ shown' = [shown EXCEPT ![b] = Larger(@, Len(s))]

\* What a book would be saved as.
Content(b) ==
  [groups |-> IF b = "server" THEN store ELSE [n \in {} |-> n],
   order |-> IF b = "server" THEN store_order ELSE <<>>,
   rules |-> rules[b]]

----------------------------------------------------------------------------
(* Loading                                                                 *)

LoadedContent(d, b) ==
  [groups |-> IF b = "server" THEN d.groups ELSE [n \in {} |-> n],
   order |-> IF b = "server" THEN GeneratedOrder(d) ELSE <<>>,
   rules |-> d.rules[b]]

Uuids(groups) == {groups[n].uuid : n \in DOMAIN groups}

Init ==
  \E d \in Documents :
    /\ store = d.groups
    /\ store_order = GeneratedOrder(d)
    /\ rules = d.rules
    /\ shown = [b \in Book |-> Len(d.rules[b])]
    /\ edited = [b \in Book |-> FALSE]
    /\ edit_msgs = [b \in Book |-> 0]
    /\ unrecorded = [b \in Book |-> 0]
    /\ loaded = [b \in Book |-> LoadedContent(d, b)]
    /\ expected = Uuids(d.groups)
    /\ edits = 0

\* discard_changes: reload rebuilds the book from the file, whatever it holds by
\* now; the messages of the discarded edits stay.
discard_changes(b, d) ==
  /\ IF b = "server"
     THEN /\ store' = d.groups
          /\ store_order' = GeneratedOrder(d)
          /\ expected' = Uuids(d.groups)
     ELSE UNCHANGED groupVars
  /\ Set(b, d.rules[b])
  /\ edited' = [edited EXCEPT ![b] = FALSE]
  /\ loaded' = [loaded EXCEPT ![b] = LoadedContent(d, b)]
  /\ UNCHANGED <<edit_msgs, unrecorded, edits>>

----------------------------------------------------------------------------
(* Edits                                                                   *)

\* Every edit sets the edited flag of a book and most leave a message.
Flag(b) ==
  /\ edits < MaxEdits
  /\ edits' = edits + 1
  /\ edited' = [edited EXCEPT ![b] = TRUE]
  /\ UNCHANGED loaded

Message(b) ==
  /\ edit_msgs' = [edit_msgs EXCEPT ![b] = @ + 1]
  /\ UNCHANGED unrecorded

NoMessage == UNCHANGED <<edit_msgs, unrecorded>>

\* A rule is replaced or removed and no message says so.
Unrecorded(b) ==
  /\ unrecorded' = [unrecorded EXCEPT ![b] = @ + 1]
  /\ UNCHANGED edit_msgs

NewGroup(n, u) == [name |-> n, uuid |-> u, select |-> "none"]

\* Groups.add: the name must be neither in the store nor in the order.
create_name(n, u) ==
  /\ Flag("server") /\ Message("server")
  /\ n \notin DOMAIN store /\ n \notin Elems(store_order)
  /\ u \notin Uuids(store)
  /\ store' = [m \in DOMAIN store \cup {n} |->
                 IF m = n THEN NewGroup(n, u) ELSE store[m]]
  /\ store_order' = Append(store_order, n)
  /\ expected' = expected \cup {u}
  /\ UNCHANGED ruleVars

\* Mutant: only the first check of update_group_name is made.
RenamesAny(prev, new) == prev \in DOMAIN store

\* The checks of update_group_name.
Renames(prev, new) ==
  /\ prev \in DOMAIN store
  /\ new \notin DOMAIN store
  /\ prev \in Elems(store_order)

\* The first position of a name.
indexOf(n) == CHOOSE k \in 1..Len(store_order) :
                /\ store_order[k] = n
                /\ \A j \in 1..(k - 1) : store_order[j] # n

update_group_name(prev, new) ==
  /\ Flag("server") /\ Message("server")
  /\ Renames(prev, new)
  /\ store' = [m \in (DOMAIN store \cup {new}) \ {prev} |->
                 IF m = new THEN [store[prev] EXCEPT !.name = new] ELSE store[m]]
  /\ store_order' = [store_order EXCEPT ![indexOf(prev)] = new]
  /\ UNCHANGED <<rules, shown, expected>>

update_select(n, s) ==
  /\ Flag("server") /\ Message("server")
  /\ n \in DOMAIN store
  /\ store' = [store EXCEPT ![n].select = s]
  /\ UNCHANGED <<store_order, rules, shown, expected>>

\* Mutant: the group leaves the store but not the order.
OrderAfterDelKept(n) == store_order

OrderAfterDel(n) == RemoveAt(store_order, indexOf(n))

\* Groups.del
delete_group(n) ==
  /\ Flag("server") /\ Message("server")
  /\ n \in DOMAIN store /\ n \in Elems(store_order)
  /\ store' = [m \in DOMAIN store \ {n} |-> store[m]]
  /\ store_order' = OrderAfterDel(n)
  /\ expected' = expected \ {store[n].uuid}
  /\ UNCHANGED ruleVars

\* Groups.move, by positions that must both exist.
move_group(from, to) ==
  /\ Flag("server") /\ NoMessage
  /\ from \in 1..Len(store_order) /\ to \in 1..Len(store_order)
  /\ store_order' = InsertAt(RemoveAt(store_order, from), to, store_order[from])
  /\ UNCHANGED <<store, rules, shown, expected>>

create_rule(b, r) ==
  /\ Flag(b) /\ Message(b)
  /\ Len(rules[b]) < MaxRules
  /\ Set(b, Append(rules[b], r))
  /\ UNCHANGED groupVars

\* Assignment at a position, which may lie beyond the end: JavaScript fills the
\* positions between with undefined.
Assigned(s, k, r) ==
  [j \in 1..(IF k > Len(s) THEN k ELSE Len(s)) |->
     IF j = k THEN r ELSE IF j <= Len(s) THEN s[j] ELSE NotARule]

\* RuleSet.update does not look at the length.
update_rule(b, k, r) ==
  /\ Flag(b) /\ Message(b)
  /\ Set(b, Assigned(rules[b], k, r))
  /\ UNCHANGED groupVars

\* The handler checks the position, deletes, sets the flag, and reads the name
\* of the deleted rule for its message: it throws there if there is none.
delete_rule(b, k) ==
  /\ Flag(b)
  /\ k \in 1..Len(rules[b])
  /\ IF rules[b][k] = NotARule THEN NoMessage ELSE Message(b)
  /\ Set(b, RemoveAt(rules[b], k))
  /\ UNCHANGED groupVars

\* splice(k, 1): nothing is removed beyond the end.
Spliced(s, k) == IF k <= Len(s) THEN RemoveAt(s, k) ELSE s

\* splice(k, 0, r): beyond the end is at the end.
Inserted(s, k, r) == InsertAt(s, IF k <= Len(s) THEN k ELSE Len(s) + 1, r)

\* What rules[k] evaluates to.
At(s, k) == IF k <= Len(s) THEN s[k] ELSE NotARule

\* Mutant: the rule is inserted before the old position is cut out.
MovedFirst(s, from, to) == Spliced(Inserted(s, to, At(s, from)), from)

\* RuleSet.move does not look at the length either.
Moved(s, from, to) == Inserted(Spliced(s, from), to, At(s, from))

\* Mutant: the flag of the book the request names, when it is the agent's.
FlaggedByTypo(b) == "agent"

\* The handler sets the flag of config.rules.set, which is the server's book,
\* whichever book the rule is in.
FlaggedByMove(b) == "server"

move_rule(b, from, to) ==
  /\ Flag(FlaggedByMove(b)) /\ NoMessage
  /\ Len(rules[b]) < MaxRules \/ from <= Len(rules[b])
  /\ Set(b, Moved(rules[b], from, to))
  /\ UNCHANGED groupVars

\* The identifier, field map, transforms or severities of an agent; what they are is
\* not kept here.
update_agent(b) ==
  /\ Flag(b) /\ NoMessage
  /\ UNCHANGED <<groupVars, ruleVars>>

----------------------------------------------------------------------------
(* The older routes, all on the server's book                              *)

rule_update(k, r) ==
  /\ Flag("server") /\ Unrecorded("server")
  /\ Set("server", Assigned(rules["server"], k, r))
  /\ UNCHANGED groupVars

\* The flag is set first: a group, which has no `add`, is flagged and left as it is.
rule_create(r) ==
  /\ Flag("server") /\ NoMessage
  /\ \/ Len(rules["server"]) < MaxRules /\ Set("server", Append(rules["server"], r))
     \/ UNCHANGED ruleVars
  /\ UNCHANGED groupVars

\* Here too: delete_index refuses a position that is_numeric let through, as text or
\* with a fraction.  A negative one counts from the end.
rule_delete(k) ==
  /\ Flag("server")
  /\ k \in 1..Len(rules["server"])
  /\ \/ Unrecorded("server") /\ Set("server", RemoveAt(rules["server"], k))
     \/ NoMessage /\ UNCHANGED ruleVars
  /\ UNCHANGED groupVars

EditGroups ==
  \/ \E n \in GroupName, u \in Uuid : create_name(n, u)
  \/ \E prev, new \in GroupName : update_group_name(prev, new)
  \/ \E n \in GroupName, s \in Select : update_select(n, s)
  \/ \E n \in GroupName : delete_group(n)
  \/ \E from, to \in 1..Len(store_order) : move_group(from, to)

EditRules ==
  \E b \in Book :
    \/ \E r \in RuleId : create_rule(b, r)
    \/ \E k \in 1..shown[b], r \in RuleId : update_rule(b, k, r)
    \/ \E k \in 1..shown[b] : delete_rule(b, k)
    \/ \E from, to \in 1..shown[b] : move_rule(b, from, to)

OlderRoutes ==
  \/ \E r \in RuleId : rule_create(r)
  \/ \E k \in 1..shown["server"] : rule_delete(k) \/ \E r \in RuleId : rule_update(k, r)

Next ==
  \/ EditGroups
  \/ EditRules
  \/ OlderRoutes
  \/ \E b \in Book : update_agent(b)
  \/ \E b \in Book, d \in Documents : discard_changes(b, d)

Spec == Init /\ [][Next]_vars

----------------------------------------------------------------------------
(* Properties                                                              *)

TypeOK ==
  /\ DOMAIN store \subseteq GroupName
  /\ store \in [DOMAIN store -> Group]
  /\ store_order \in Seq(GroupName)
  /\ rules \in [Book -> Seq(RuleId \cup {NotARule})]
  /\ shown \in [Book -> Nat]
  /\ edited \in [Book -> BOOLEAN]
  /\ edit_msgs \in [Book -> Nat] /\ unrecorded \in [Book -> Nat]
  /\ expected \subseteq Uuid
  /\ edits \in 0..MaxEdits

\* The store and the order of the groups, which every edit changes separately,
\* hold the same names, each once: otherwise a run of the rules or a save meets
\* a group that is not there ("Missing group", groups.ts:237) or leaves one out.
OrderMatchesStore ==
  /\ Orders(store_order, DOMAIN store)
  /\ \A n \in DOMAIN store : store[n].name = n

\* No edit loses a group, or makes two of one: the groups in the store are those
\* loaded or created and not deleted, through any renaming.
GroupsConserved ==
  /\ Uuids(store) = expected
  /\ \A m, n \in DOMAIN store : store[m].uuid = store[n].uuid => m = n

\* "Flag to check if a rule set has modification that have not been saved"
\* (event_rules.ts:271): when the server's book is not as it was loaded, its
\* flag is set.
EditsAreFlagged == Content("server") # loaded["server"] => edited["server"]

Count(s, r) == Cardinality({k \in 1..Len(s) : s[k] = r})

\* A step that makes a rule disappear from a rule set leaves a message for the
\* commit that says so, or is the deliberate return to what the file holds, or came by
\* an older route that replaces or removes a rule and leaves no message; in particular
\* a move never loses one, whatever the positions.
NoSilentLoss ==
  [][\A b \in Book :
       (\E r \in RuleId : Count(rules'[b], r) < Count(rules[b], r))
         => \/ edit_msgs'[b] > edit_msgs[b]
            \/ unrecorded'[b] > unrecorded[b]
            \/ rules'[b] = loaded'[b].rules]_vars
=============================================================================
