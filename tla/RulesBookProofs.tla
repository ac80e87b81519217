-------------------------- MODULE RulesBookProofs --------------------------
(***************************************************************************)
(* Proofs about RulesBook, for any names, uuids, rules and documents that   *)
(* meet DocumentAssumption, and any number of edits.                       *)
(***************************************************************************)
EXTENDS RulesBook, SequenceTheorems, FiniteSetTheorems, TLAPS

IInv == TypeOK /\ OrderMatchesStore /\ GroupsConserved

----------------------------------------------------------------------------
(* What the two halves of a splice do to a sequence                        *)

\* RemoveAt keeps the elements before the position and shifts the others down.
LEMMA RemoveAtProperties ==
  ASSUME NEW T, NEW s \in Seq(T), NEW k \in 1..Len(s)
  PROVE  /\ RemoveAt(s, k) \in Seq(T)
         /\ Len(RemoveAt(s, k)) = Len(s) - 1
         /\ \A j \in 1..(Len(s) - 1) :
              RemoveAt(s, k)[j] = IF j < k THEN s[j] ELSE s[j + 1]
<1> DEFINE front == SubSeq(s, 1, k - 1)
           back == SubSeq(s, k + 1, Len(s))
<1>0. Len(s) \in Nat /\ k \in Int /\ k - 1 \in Int /\ k + 1 \in Int
  OBVIOUS
<1>1. /\ front \in Seq(T) /\ Len(front) = k - 1
      /\ \A j \in 1..(k - 1) : front[j] = s[j]
  <2>1. \A j \in 1..(k - 1) : s[j] \in T
    BY <1>0, ElementOfSeq
  <2> QED
    BY <2>1, <1>0, SubSeqProperties
<1>2. /\ back \in Seq(T) /\ Len(back) = Len(s) - k
      /\ \A j \in 1..(Len(s) - k) : back[j] = s[k + j]
  <2>1. \A j \in (k + 1)..Len(s) : s[j] \in T
    BY <1>0, ElementOfSeq
  <2> QED
    BY <2>1, <1>0, SubSeqProperties
<1>3. RemoveAt(s, k) = front \o back
  BY DEF RemoveAt
<1> DEFINE all == front \o back
<1>4. /\ all \in Seq(T)
      /\ Len(all) = Len(front) + Len(back)
      /\ \A j \in 1..(Len(front) + Len(back)) :
           all[j] = IF j <= Len(front) THEN front[j] ELSE back[j - Len(front)]
  BY <1>1, <1>2, ConcatProperties
<1>5. RemoveAt(s, k) = all
  BY <1>3
<1> HIDE DEF front, back, all
<1>6. Len(all) = Len(s) - 1
  BY <1>0, <1>1, <1>2, <1>4
<1>7. ASSUME NEW j \in 1..(Len(s) - 1)
      PROVE  all[j] = IF j < k THEN s[j] ELSE s[j + 1]
  <2>0. j \in 1..(Len(front) + Len(back)) /\ j \in Nat
    BY <1>0, <1>1, <1>2
  <2>1. CASE j < k
    <3>1. j <= Len(front) /\ j \in 1..(k - 1)
      BY <2>0, <2>1, <1>0, <1>1
    <3> QED
      BY <2>0, <2>1, <3>1, <1>1, <1>4
  <2>2. CASE ~(j < k)
    <3>1. /\ ~(j <= Len(front)) /\ j - Len(front) = j - (k - 1)
          /\ j - (k - 1) \in 1..(Len(s) - k) /\ k + (j - (k - 1)) = j + 1
      BY <2>0, <2>2, <1>0, <1>1, SMTT(30)
    <3> QED
      BY <2>0, <2>2, <3>1, <1>2, <1>4
  <2> QED
    BY <2>1, <2>2
<1> QED
  BY <1>4, <1>5, <1>6, <1>7

\* InsertAt puts the element at the position and shifts the others up.
LEMMA InsertAtProperties ==
  ASSUME NEW T, NEW s \in Seq(T), NEW k \in 1..(Len(s) + 1), NEW e \in T
  PROVE  /\ InsertAt(s, k, e) \in Seq(T)
         /\ Len(InsertAt(s, k, e)) = Len(s) + 1
         /\ \A j \in 1..(Len(s) + 1) :
              InsertAt(s, k, e)[j] = IF j < k THEN s[j] ELSE IF j = k THEN e ELSE s[j - 1]
<1> DEFINE front == SubSeq(s, 1, k - 1)
           back == SubSeq(s, k, Len(s))
           upto == front \o <<e>>
<1>0. Len(s) \in Nat /\ k \in Int /\ k - 1 \in Int
  OBVIOUS
<1>1. /\ front \in Seq(T) /\ Len(front) = k - 1
      /\ \A j \in 1..(k - 1) : front[j] = s[j]
  <2>1. \A j \in 1..(k - 1) : s[j] \in T
    BY <1>0, ElementOfSeq
  <2> QED
    BY <2>1, <1>0, SubSeqProperties
<1>2. /\ back \in Seq(T) /\ Len(back) = Len(s) - k + 1
      /\ \A j \in 1..(Len(s) - k + 1) : back[j] = s[k + j - 1]
  <2>1. \A j \in k..Len(s) : s[j] \in T
    BY <1>0, ElementOfSeq
  <2> QED
    BY <2>1, <1>0, SubSeqProperties
<1>3. <<e>> \in Seq(T) /\ Len(<<e>>) = 1 /\ <<e>>[1] = e
  OBVIOUS
<1>4. InsertAt(s, k, e) = upto \o back
  BY DEF InsertAt
<1> HIDE DEF front, back
<1>5. /\ upto \in Seq(T) /\ Len(upto) = k
      /\ \A j \in 1..k : upto[j] = IF j < k THEN s[j] ELSE e
  <2>1. /\ upto \in Seq(T)
        /\ Len(upto) = Len(front) + Len(<<e>>)
        /\ \A j \in 1..(Len(front) + Len(<<e>>)) :
             upto[j] = IF j <= Len(front) THEN front[j] ELSE <<e>>[j - Len(front)]
    BY <1>1, <1>3, ConcatProperties
  <2> QED
    BY <2>1, <1>0, <1>1, <1>3
<1> HIDE DEF upto
<1> DEFINE all == upto \o back
<1>6. /\ all \in Seq(T)
      /\ Len(all) = Len(upto) + Len(back)
      /\ \A j \in 1..(Len(upto) + Len(back)) :
           all[j] = IF j <= Len(upto) THEN upto[j] ELSE back[j - Len(upto)]
  BY <1>5, <1>2, ConcatProperties
<1>7. InsertAt(s, k, e) = all
  BY <1>4
<1> HIDE DEF all
<1>8. Len(all) = Len(s) + 1
  BY <1>0, <1>2, <1>5, <1>6
<1>9. ASSUME NEW j \in 1..(Len(s) + 1)
      PROVE  all[j] = IF j < k THEN s[j] ELSE IF j = k THEN e ELSE s[j - 1]
  <2>0. j \in 1..(Len(upto) + Len(back)) /\ j \in Nat
    BY <1>0, <1>2, <1>5
  <2>1. CASE j <= k
    <3>1. j <= Len(upto) /\ j \in 1..k
      BY <2>0, <2>1, <1>0, <1>5
    <3> QED
      BY <2>0, <2>1, <3>1, <1>0, <1>5, <1>6
  <2>2. CASE ~(j <= k)
    <3>1. /\ ~(j <= Len(upto)) /\ ~(j < k) /\ j # k /\ j - Len(upto) = j - k
          /\ j - k \in 1..(Len(s) - k + 1) /\ k + (j - k) - 1 = j - 1
      BY <2>0, <2>2, <1>0, <1>5
    <3> QED
      BY <2>0, <3>1, <1>2, <1>6
  <2> QED
    BY <2>1, <2>2
<1> QED
  BY <1>6, <1>7, <1>8, <1>9

\* Cutting a position out of an order takes that name out of it.
LEMMA RemoveFromOrder ==
  ASSUME NEW s \in Seq(GroupName), NEW names, Orders(s, names), NEW k \in 1..Len(s)
  PROVE  /\ RemoveAt(s, k) \in Seq(GroupName)
         /\ Orders(RemoveAt(s, k), names \ {s[k]})
<1> DEFINE t == RemoveAt(s, k)
<1>1. /\ t \in Seq(GroupName) /\ Len(t) = Len(s) - 1 /\ Len(s) \in Nat
      /\ \A j \in 1..(Len(s) - 1) : t[j] = IF j < k THEN s[j] ELSE s[j + 1]
  <2>1. Len(s) \in Nat
    OBVIOUS
  <2> QED
    BY <2>1, RemoveAtProperties
<1> HIDE DEF t
<1>2. Elems(s) = names /\ \A i, j \in 1..Len(s) : s[i] = s[j] => i = j
  BY DEF Orders
<1>3. ASSUME NEW i \in 1..Len(t), NEW j \in 1..Len(t), t[i] = t[j] PROVE i = j
  <2> DEFINE old(n) == IF n < k THEN n ELSE n + 1
  <2>1. old(i) \in 1..Len(s) /\ old(j) \in 1..Len(s) /\ t[i] = s[old(i)] /\ t[j] = s[old(j)]
    BY <1>1
  <2>2. old(i) = old(j)
    BY <2>1, <1>2, <1>3
  <2> QED
    BY <2>2, <1>1
<1>4. Elems(t) \subseteq names \ {s[k]}
  <2> SUFFICES ASSUME NEW j \in 1..Len(t) PROVE t[j] \in names \ {s[k]}
    BY DEF Elems
  <2> DEFINE o == IF j < k THEN j ELSE j + 1
  <2>1. o \in 1..Len(s) /\ o # k /\ t[j] = s[o]
    BY <1>1
  <2>2. s[o] \in names /\ s[o] # s[k]
    BY <2>1, <1>2 DEF Elems
  <2> QED
    BY <2>1, <2>2
<1>5. names \ {s[k]} \subseteq Elems(t)
  <2> SUFFICES ASSUME NEW n \in names, n # s[k] PROVE n \in Elems(t)
    OBVIOUS
  <2>1. PICK o \in 1..Len(s) : s[o] = n
    BY <1>2 DEF Elems
  <2>2. o # k
    BY <2>1
  <2> DEFINE j == IF o < k THEN o ELSE o - 1
  <2>3. j \in 1..Len(t) /\ t[j] = s[o]
    BY <1>1, <2>2
  <2> QED
    BY <2>1, <2>3 DEF Elems
<1>6. Orders(t, names \ {s[k]})
  BY <1>3, <1>4, <1>5 DEF Orders
<1> QED
  BY <1>1, <1>6 DEF t

\* Inserting a name that an order does not have adds it to the order.
LEMMA InsertInOrder ==
  ASSUME NEW s \in Seq(GroupName), NEW names, Orders(s, names),
         NEW k \in 1..(Len(s) + 1), NEW n \in GroupName, n \notin names
  PROVE  /\ InsertAt(s, k, n) \in Seq(GroupName)
         /\ Orders(InsertAt(s, k, n), names \cup {n})
<1> DEFINE t == InsertAt(s, k, n)
<1>1. /\ t \in Seq(GroupName) /\ Len(t) = Len(s) + 1 /\ Len(s) \in Nat
      /\ \A j \in 1..(Len(s) + 1) : t[j] = IF j < k THEN s[j] ELSE IF j = k THEN n ELSE s[j - 1]
  <2>1. Len(s) \in Nat
    OBVIOUS
  <2> QED
    BY <2>1, InsertAtProperties
<1> HIDE DEF t
<1>2. Elems(s) = names /\ \A i, j \in 1..Len(s) : s[i] = s[j] => i = j
  BY DEF Orders
<1>3. \A j \in 1..Len(s) : s[j] # n
  BY <1>2 DEF Elems
<1>4. ASSUME NEW i \in 1..Len(t), NEW j \in 1..Len(t), t[i] = t[j] PROVE i = j
  <2> DEFINE old(m) == IF m < k THEN m ELSE m - 1
  <2>1. ASSUME NEW m \in 1..Len(t), m # k PROVE old(m) \in 1..Len(s) /\ t[m] = s[old(m)]
    BY <2>1, <1>1
  <2>2. t[k] = n
    BY <1>1
  <2>3. CASE i = k \/ j = k
    BY <2>1, <2>2, <2>3, <1>3, <1>4
  <2>4. CASE i # k /\ j # k
    <3>1. old(i) = old(j)
      BY <2>1, <2>4, <1>2, <1>4
    <3> QED
      BY <3>1, <2>4, <1>1
  <2> QED
    BY <2>3, <2>4
<1>5. Elems(t) \subseteq names \cup {n}
  <2> SUFFICES ASSUME NEW j \in 1..Len(t) PROVE t[j] \in names \cup {n}
    BY DEF Elems
  <2>1. CASE j = k
    BY <2>1, <1>1
  <2>2. CASE j # k
    <3> DEFINE o == IF j < k THEN j ELSE j - 1
    <3>1. o \in 1..Len(s) /\ t[j] = s[o]
      BY <2>2, <1>1
    <3> QED
      BY <3>1, <1>2 DEF Elems
  <2> QED
    BY <2>1, <2>2
<1>6. names \subseteq Elems(t)
  <2> SUFFICES ASSUME NEW m \in names PROVE m \in Elems(t)
    OBVIOUS
  <2>1. PICK o \in 1..Len(s) : s[o] = m
    BY <1>2 DEF Elems
  <2> DEFINE j == IF o < k THEN o ELSE o + 1
  <2>2. j \in 1..Len(t) /\ t[j] = s[o]
    BY <1>1
  <2> QED
    BY <2>1, <2>2 DEF Elems
<1>7. n \in Elems(t)
  <2>1. k \in 1..Len(t) /\ t[k] = n
    BY <1>1
  <2> QED
    BY <2>1 DEF Elems
<1>8. Orders(t, names \cup {n})
  BY <1>4, <1>5, <1>6, <1>7 DEF Orders
<1> QED
  BY <1>1, <1>8 DEF t

\* Renaming one position of an order renames it in the set.
LEMMA RenameInOrder ==
  ASSUME NEW s \in Seq(GroupName), NEW names, Orders(s, names),
         NEW k \in 1..Len(s), NEW n \in GroupName, n \notin names
  PROVE  /\ [s EXCEPT ![k] = n] \in Seq(GroupName)
         /\ Orders([s EXCEPT ![k] = n], (names \cup {n}) \ {s[k]})
<1> DEFINE t == [s EXCEPT ![k] = n]
<1>1. /\ t \in Seq(GroupName) /\ Len(t) = Len(s)
      /\ \A j \in 1..Len(s) : t[j] = IF j = k THEN n ELSE s[j]
  BY ExceptSeq
<1> HIDE DEF t
<1>2. Elems(s) = names /\ \A i, j \in 1..Len(s) : s[i] = s[j] => i = j
  BY DEF Orders
<1>3. \A j \in 1..Len(s) : s[j] # n
  BY <1>2 DEF Elems
<1>4. \A i, j \in 1..Len(t) : t[i] = t[j] => i = j
  BY <1>1, <1>2, <1>3
<1>5. Elems(t) \subseteq (names \cup {n}) \ {s[k]}
  BY <1>1, <1>2, <1>3 DEF Elems
<1>6. (names \cup {n}) \ {s[k]} \subseteq Elems(t)
  <2>1. n \in Elems(t)
    <3>1. t[k] = n
      BY <1>1
    <3> QED
      BY <3>1, <1>1 DEF Elems
  <2>2. ASSUME NEW m \in names, m # s[k] PROVE m \in Elems(t)
    <3>1. PICK o \in 1..Len(s) : s[o] = m
      BY <1>2 DEF Elems
    <3>2. t[o] = m
      BY <3>1, <2>2, <1>1
    <3> QED
      BY <3>2, <1>1 DEF Elems
  <2> QED
    BY <2>1, <2>2
<1>7. Orders(t, (names \cup {n}) \ {s[k]})
  BY <1>4, <1>5, <1>6 DEF Orders
<1> QED
  BY <1>1, <1>7 DEF t

\* In an order, a name that is there has one position, which indexOf finds.
LEMMA IndexOf ==
  ASSUME store_order \in Seq(GroupName), NEW names, Orders(store_order, names),
         NEW n \in names
  PROVE  indexOf(n) \in 1..Len(store_order) /\ store_order[indexOf(n)] = n
<1> DEFINE First(k) == store_order[k] = n /\ \A j \in 1..(k - 1) : store_order[j] # n
<1>1. PICK k \in 1..Len(store_order) : store_order[k] = n
  BY DEF Orders, Elems
<1>2. Len(store_order) \in Nat
  OBVIOUS
<1>3. First(k)
  <2> SUFFICES ASSUME NEW j \in 1..(k - 1) PROVE store_order[j] # n
    BY <1>1
  <2>1. j \in 1..Len(store_order) /\ j # k
    BY <1>2
  <2> QED
    BY <2>1, <1>1 DEF Orders
<1>4. indexOf(n) = CHOOSE i \in 1..Len(store_order) : First(i)
  BY DEF indexOf
<1> HIDE DEF First
<1>5. indexOf(n) \in 1..Len(store_order) /\ First(indexOf(n))
  BY <1>3, <1>4
<1> QED
  BY <1>5 DEF First

----------------------------------------------------------------------------
(* What a rule set may become                                              *)

R == RuleId \cup {NotARule}

LEMMA SetType ==
  ASSUME TypeOK, NEW b \in Book, NEW s \in Seq(R), Set(b, s)
  PROVE  /\ rules' \in [Book -> Seq(RuleId \cup {NotARule})]
         /\ shown' \in [Book -> Nat]
<1>1. Len(s) \in Nat /\ shown[b] \in Nat
  BY DEF TypeOK
<1> QED
  BY <1>1 DEF Set, TypeOK, Larger, R

LEMMA AssignedType ==
  ASSUME NEW s \in Seq(R), NEW k \in Nat, NEW r \in RuleId
  PROVE  Assigned(s, k, r) \in Seq(R)
<1> DEFINE n == IF k > Len(s) THEN k ELSE Len(s)
           e(j) == IF j = k THEN r ELSE IF j <= Len(s) THEN s[j] ELSE NotARule
<1>1. n \in Nat
  OBVIOUS
<1>2. ASSUME NEW j \in 1..n PROVE e(j) \in R
  <2>1. CASE j = k
    BY <2>1 DEF R
  <2>2. CASE j # k /\ j <= Len(s)
    <3>1. j \in 1..Len(s)
      BY <2>2
    <3>2. s[j] \in R
      BY <3>1, ElementOfSeq
    <3> QED
      BY <2>2, <3>2
  <2>3. CASE j # k /\ ~(j <= Len(s))
    BY <2>3 DEF R
  <2> QED
    BY <2>1, <2>2, <2>3
<1>3. [j \in 1..n |-> e(j)] \in [1..n -> R]
  BY <1>2
<1>4. Assigned(s, k, r) = [j \in 1..n |-> e(j)]
  BY DEF Assigned
<1> HIDE DEF n, e
<1> QED
  BY <1>1, <1>3, <1>4, SeqDef

LEMMA MovedType ==
  ASSUME NEW s \in Seq(R), NEW from \in Nat \ {0}, NEW to \in Nat \ {0}
  PROVE  Moved(s, from, to) \in Seq(R)
<1>0. Len(s) \in Nat
  OBVIOUS
<1>1. Spliced(s, from) \in Seq(R)
  <2>1. CASE from <= Len(s)
    <3>1. from \in 1..Len(s)
      BY <2>1, <1>0
    <3> QED
      BY <2>1, <3>1, RemoveAtProperties DEF Spliced
  <2>2. CASE ~(from <= Len(s))
    BY <2>2 DEF Spliced
  <2> QED
    BY <2>1, <2>2
<1>2. At(s, from) \in R
  <2>1. CASE from <= Len(s)
    <3>1. from \in 1..Len(s)
      BY <2>1, <1>0
    <3> QED
      BY <2>1, <3>1, ElementOfSeq DEF At
  <2>2. CASE ~(from <= Len(s))
    BY <2>2 DEF At, R
  <2> QED
    BY <2>1, <2>2
<1>3. ASSUME NEW t \in Seq(R), NEW r \in R PROVE Inserted(t, to, r) \in Seq(R)
  <2> DEFINE k == IF to <= Len(t) THEN to ELSE Len(t) + 1
  <2>1. Len(t) \in Nat
    OBVIOUS
  <2>2. k \in 1..(Len(t) + 1)
    BY <2>1
  <2>3. Inserted(t, to, r) = InsertAt(t, k, r)
    BY DEF Inserted
  <2> HIDE DEF k
  <2> QED
    BY <2>2, <2>3, InsertAtProperties
<1> QED
  BY <1>1, <1>2, <1>3 DEF Moved

----------------------------------------------------------------------------
(* The inductive invariant                                                 *)

LEMMA InitIInv == Init => IInv
<1> SUFFICES ASSUME Init PROVE IInv
  OBVIOUS
<1>1. PICK d \in Documents :
        /\ store = d.groups /\ store_order = GeneratedOrder(d) /\ rules = d.rules
        /\ shown = [b \in Book |-> Len(d.rules[b])]
        /\ edited = [b \in Book |-> FALSE]
        /\ edit_msgs = [b \in Book |-> 0] /\ unrecorded = [b \in Book |-> 0]
        /\ expected = Uuids(d.groups) /\ edits = 0
  BY DEF Init
<1>2. /\ DOMAIN d.groups = Elems(d.keys)
      /\ GeneratedOrder(d) \in Seq(GroupName)
      /\ Orders(GeneratedOrder(d), Elems(d.keys))
      /\ \A n \in DOMAIN d.groups : d.groups[n].name = n
      /\ \A m, n \in DOMAIN d.groups : d.groups[m].uuid = d.groups[n].uuid => m = n
  BY DocumentAssumption
<1>3. PICK N \in SUBSET GroupName : d.groups \in [N -> Group]
  <2>1. d \in Document
    BY DocumentAssumption
  <2>2. d.groups \in UNION {[N -> Group] : N \in SUBSET GroupName}
    BY <2>1 DEF Document
  <2> QED
    BY <2>2
<1>4. d.rules \in [Book -> Seq(RuleId)]
  BY DocumentAssumption DEF Document
<1>5. \A b \in Book : Len(d.rules[b]) \in Nat /\ d.rules[b] \in Seq(R)
  BY <1>4, SeqMonotonic DEF R
<1>6. \A n \in N : d.groups[n].uuid \in Uuid
  BY <1>3 DEF Group
<1>7. TypeOK
  <2>1. DOMAIN store = N /\ store \in [N -> Group]
    BY <1>1, <1>3
  <2>2. rules \in [Book -> Seq(RuleId \cup {NotARule})] /\ shown \in [Book -> Nat]
    BY <1>1, <1>4, <1>5 DEF R
  <2>3. expected \subseteq Uuid
    BY <1>1, <1>3, <1>6 DEF Uuids
  <2> QED
    BY <1>1, <1>2, <2>1, <2>2, <2>3, BoundsAssumption DEF TypeOK
<1>8. OrderMatchesStore
  BY <1>1, <1>2 DEF OrderMatchesStore
<1>9. GroupsConserved
  BY <1>1, <1>2 DEF GroupsConserved
<1> QED
  BY <1>7, <1>8, <1>9 DEF IInv

\* What the two common conjuncts of an edit do.
LEMMA FlagType ==
  ASSUME TypeOK, NEW b \in Book, Flag(b)
  PROVE  edited' \in [Book -> BOOLEAN] /\ edits' \in 0..MaxEdits
BY BoundsAssumption DEF TypeOK, Flag

LEMMA MessageType ==
  ASSUME TypeOK, NEW b \in Book, Message(b) \/ NoMessage \/ Unrecorded(b)
  PROVE  edit_msgs' \in [Book -> Nat] /\ unrecorded' \in [Book -> Nat]
<1>1. /\ edit_msgs[b] + 1 \in Nat /\ edit_msgs \in [Book -> Nat]
      /\ unrecorded[b] + 1 \in Nat /\ unrecorded \in [Book -> Nat]
  BY DEF TypeOK
<1>2. CASE Message(b)
  BY <1>1, <1>2 DEF Message
<1>3. CASE NoMessage
  BY <1>1, <1>3 DEF NoMessage
<1>4. CASE Unrecorded(b)
  BY <1>1, <1>4 DEF Unrecorded
<1> QED
  BY <1>2, <1>3, <1>4

LEMMA CreateName ==
  ASSUME IInv, NEW n \in GroupName, NEW u \in Uuid, create_name(n, u)
  PROVE  IInv'
<1> DEFINE g == NewGroup(n, u)
<1>1. /\ n \notin DOMAIN store /\ n \notin Elems(store_order) /\ u \notin Uuids(store)
      /\ store' = [m \in DOMAIN store \cup {n} |-> IF m = n THEN g ELSE store[m]]
      /\ store_order' = Append(store_order, n) /\ expected' = expected \cup {u}
      /\ UNCHANGED <<rules, shown>>
  BY DEF create_name, ruleVars
<1>2. g \in Group /\ g.name = n /\ g.uuid = u
  BY DEF NewGroup, Group, Select
<1> HIDE DEF g
<1>3. /\ DOMAIN store \subseteq GroupName /\ store \in [DOMAIN store -> Group]
      /\ store_order \in Seq(GroupName)
  BY DEF IInv, TypeOK
<1>4. DOMAIN store' = DOMAIN store \cup {n} /\ store' \in [DOMAIN store' -> Group]
  BY <1>1, <1>2, <1>3
<1>5. /\ edited' \in [Book -> BOOLEAN] /\ edits' \in 0..MaxEdits
      /\ edit_msgs' \in [Book -> Nat] /\ unrecorded' \in [Book -> Nat]
  BY FlagType, MessageType DEF IInv, create_name, Book
<1>6. TypeOK'
  BY <1>1, <1>3, <1>4, <1>5 DEF IInv, TypeOK
<1>7. Orders(store_order', DOMAIN store')
  <2>1. /\ Len(store_order') = Len(store_order) + 1 /\ Len(store_order) \in Nat
        /\ \A k \in 1..Len(store_order) : store_order'[k] = store_order[k]
        /\ store_order'[Len(store_order) + 1] = n
    BY <1>1, <1>3
  <2>2. Orders(store_order, DOMAIN store)
    BY DEF IInv, OrderMatchesStore
  <2>3. Elems(store_order') = Elems(store_order) \cup {n}
    BY <2>1 DEF Elems
  <2>4. \A k \in 1..Len(store_order) : store_order[k] # n
    BY <1>1 DEF Elems
  <2>5. \A j, k \in 1..Len(store_order') : store_order'[j] = store_order'[k] => j = k
    BY <2>1, <2>2, <2>4 DEF Orders
  <2> QED
    BY <1>4, <2>2, <2>3, <2>5 DEF Orders
<1>8. OrderMatchesStore'
  BY <1>1, <1>2, <1>4, <1>7 DEF IInv, OrderMatchesStore
<1>9. Uuids(store') = Uuids(store) \cup {u}
  <2>1. store'[n].uuid = u /\ \A m \in DOMAIN store : m # n /\ store'[m] = store[m]
    BY <1>1, <1>2
  <2>2. Uuids(store') = {store'[m].uuid : m \in DOMAIN store \cup {n}}
    BY <1>4 DEF Uuids
  <2> QED
    BY <2>1, <2>2 DEF Uuids
<1>10. \A m, k \in DOMAIN store' : store'[m].uuid = store'[k].uuid => m = k
  BY <1>1, <1>2, <1>4 DEF Uuids, IInv, GroupsConserved
<1>11. GroupsConserved'
  BY <1>1, <1>9, <1>10 DEF IInv, GroupsConserved
<1> QED
  BY <1>6, <1>8, <1>11 DEF IInv

LEMMA UpdateName ==
  ASSUME IInv, NEW prev \in GroupName, NEW new \in GroupName, update_group_name(prev, new)
  PROVE  IInv'
<1> DEFINE g == [store[prev] EXCEPT !.name = new]
           k == indexOf(prev)
<1>1. /\ prev \in DOMAIN store /\ new \notin DOMAIN store
      /\ store' = [m \in (DOMAIN store \cup {new}) \ {prev} |-> IF m = new THEN g ELSE store[m]]
      /\ store_order' = [store_order EXCEPT ![k] = new]
      /\ UNCHANGED <<rules, shown, expected>>
  BY DEF update_group_name, Renames
<1>2. /\ DOMAIN store \subseteq GroupName /\ store \in [DOMAIN store -> Group]
      /\ store_order \in Seq(GroupName)
  BY DEF IInv, TypeOK
<1>3. Orders(store_order, DOMAIN store)
  BY DEF IInv, OrderMatchesStore
<1>4. k \in 1..Len(store_order) /\ store_order[k] = prev
  BY <1>1, <1>2, <1>3, IndexOf
<1>5. g \in Group /\ g.name = new /\ g.uuid = store[prev].uuid
  BY <1>1, <1>2 DEF Group
<1> HIDE DEF g, k
<1>6. /\ DOMAIN store' = (DOMAIN store \cup {new}) \ {prev} /\ store' \in [DOMAIN store' -> Group]
      /\ store'[new] = g /\ \A m \in DOMAIN store' : m # new => store'[m] = store[m]
  BY <1>1, <1>2, <1>5
<1>7. store_order' \in Seq(GroupName) /\ Orders(store_order', DOMAIN store')
  BY <1>1, <1>2, <1>3, <1>4, <1>6, RenameInOrder
<1>8. /\ edited' \in [Book -> BOOLEAN] /\ edits' \in 0..MaxEdits
      /\ edit_msgs' \in [Book -> Nat] /\ unrecorded' \in [Book -> Nat]
  BY FlagType, MessageType DEF IInv, update_group_name, Book
<1>9. TypeOK'
  BY <1>1, <1>2, <1>6, <1>7, <1>8 DEF IInv, TypeOK
<1>10. OrderMatchesStore'
  BY <1>5, <1>6, <1>7 DEF IInv, OrderMatchesStore
<1>11. Uuids(store') = Uuids(store)
  <2>1. Uuids(store') \subseteq Uuids(store)
    BY <1>1, <1>5, <1>6 DEF Uuids
  <2>2. ASSUME NEW m \in DOMAIN store PROVE store[m].uuid \in Uuids(store')
    <3>1. CASE m = prev
      <4>1. new \in DOMAIN store' /\ store'[new].uuid = store[m].uuid
        BY <3>1, <1>1, <1>5, <1>6
      <4> QED
        BY <4>1 DEF Uuids
    <3>2. CASE m # prev
      <4>1. m \in DOMAIN store' /\ store'[m] = store[m]
        BY <3>2, <1>1, <1>6
      <4> QED
        BY <4>1 DEF Uuids
    <3> QED
      BY <3>1, <3>2
  <2> QED
    BY <2>1, <2>2 DEF Uuids
<1>12. \A m, n \in DOMAIN store' : store'[m].uuid = store'[n].uuid => m = n
  BY <1>1, <1>5, <1>6 DEF IInv, GroupsConserved
<1>13. GroupsConserved'
  BY <1>1, <1>11, <1>12 DEF IInv, GroupsConserved
<1> QED
  BY <1>9, <1>10, <1>13 DEF IInv

LEMMA UpdateSelect ==
  ASSUME IInv, NEW n \in GroupName, NEW s \in Select, update_select(n, s)
  PROVE  IInv'
<1>1. /\ n \in DOMAIN store /\ store' = [store EXCEPT ![n].select = s]
      /\ UNCHANGED <<store_order, rules, shown, expected>>
  BY DEF update_select
<1>2. /\ DOMAIN store \subseteq GroupName /\ store \in [DOMAIN store -> Group]
  BY DEF IInv, TypeOK
<1>3. /\ DOMAIN store' = DOMAIN store /\ store' \in [DOMAIN store' -> Group]
      /\ \A m \in DOMAIN store : store'[m].name = store[m].name /\ store'[m].uuid = store[m].uuid
  BY <1>1, <1>2 DEF Group
<1>4. /\ edited' \in [Book -> BOOLEAN] /\ edits' \in 0..MaxEdits
      /\ edit_msgs' \in [Book -> Nat] /\ unrecorded' \in [Book -> Nat]
  BY FlagType, MessageType DEF IInv, update_select, Book
<1>5. TypeOK'
  BY <1>1, <1>2, <1>3, <1>4 DEF IInv, TypeOK
<1>6. OrderMatchesStore'
  BY <1>1, <1>3 DEF IInv, OrderMatchesStore
<1>7. Uuids(store') = Uuids(store)
  BY <1>3 DEF Uuids
<1>8. GroupsConserved'
  BY <1>1, <1>3, <1>7 DEF IInv, GroupsConserved
<1> QED
  BY <1>5, <1>6, <1>8 DEF IInv

LEMMA DeleteGroup ==
  ASSUME IInv, NEW n \in GroupName, delete_group(n)
  PROVE  IInv'
<1> DEFINE k == indexOf(n)
<1>1. /\ n \in DOMAIN store
      /\ store' = [m \in DOMAIN store \ {n} |-> store[m]]
      /\ store_order' = RemoveAt(store_order, k)
      /\ expected' = expected \ {store[n].uuid}
      /\ UNCHANGED <<rules, shown>>
  BY DEF delete_group, OrderAfterDel, ruleVars
<1>2. /\ DOMAIN store \subseteq GroupName /\ store \in [DOMAIN store -> Group]
      /\ store_order \in Seq(GroupName)
  BY DEF IInv, TypeOK
<1>3. Orders(store_order, DOMAIN store)
  BY DEF IInv, OrderMatchesStore
<1>4. k \in 1..Len(store_order) /\ store_order[k] = n
  BY <1>1, <1>2, <1>3, IndexOf
<1> HIDE DEF k
<1>5. store_order' \in Seq(GroupName) /\ Orders(store_order', DOMAIN store \ {n})
  BY <1>1, <1>2, <1>3, <1>4, RemoveFromOrder
<1>6. /\ DOMAIN store' = DOMAIN store \ {n} /\ store' \in [DOMAIN store' -> Group]
      /\ \A m \in DOMAIN store' : store'[m] = store[m]
  BY <1>1, <1>2
<1>7. /\ edited' \in [Book -> BOOLEAN] /\ edits' \in 0..MaxEdits
      /\ edit_msgs' \in [Book -> Nat] /\ unrecorded' \in [Book -> Nat]
  BY FlagType, MessageType DEF IInv, delete_group, Book
<1>8. TypeOK'
  BY <1>1, <1>2, <1>5, <1>6, <1>7 DEF IInv, TypeOK
<1>9. OrderMatchesStore'
  BY <1>5, <1>6 DEF IInv, OrderMatchesStore
<1>10. Uuids(store') = Uuids(store) \ {store[n].uuid}
  <2>1. \A m \in DOMAIN store : store[m].uuid = store[n].uuid => m = n
    BY <1>1 DEF IInv, GroupsConserved
  <2> QED
    BY <2>1, <1>1, <1>6 DEF Uuids
<1>11. GroupsConserved'
  BY <1>1, <1>6, <1>10 DEF IInv, GroupsConserved
<1> QED
  BY <1>8, <1>9, <1>11 DEF IInv

LEMMA MoveGroup ==
  ASSUME IInv, NEW from \in 1..Len(store_order), NEW to \in 1..Len(store_order),
         move_group(from, to)
  PROVE  IInv'
<1> DEFINE m == store_order[from]
           cut == RemoveAt(store_order, from)
<1>1. /\ store_order' = InsertAt(cut, to, m)
      /\ UNCHANGED <<store, rules, shown, expected>>
  BY DEF move_group
<1>2. store_order \in Seq(GroupName) /\ Orders(store_order, DOMAIN store)
  BY DEF IInv, TypeOK, OrderMatchesStore
<1>3. /\ cut \in Seq(GroupName) /\ Len(cut) = Len(store_order) - 1
      /\ Orders(cut, DOMAIN store \ {m})
  BY <1>2, RemoveFromOrder, RemoveAtProperties
<1>4. m \in GroupName /\ m \in DOMAIN store /\ to \in 1..(Len(cut) + 1)
  <2>1. m \in GroupName
    BY <1>2, ElementOfSeq
  <2>2. m \in DOMAIN store
    BY <1>2 DEF Orders, Elems
  <2> QED
    BY <2>1, <2>2, <1>2, <1>3
<1> HIDE DEF m, cut
<1>5. /\ store_order' \in Seq(GroupName)
      /\ Orders(store_order', (DOMAIN store \ {m}) \cup {m})
  <2> DEFINE names == DOMAIN store \ {m}
  <2>1. m \notin names
    OBVIOUS
  <2>2. Orders(cut, names)
    BY <1>3
  <2> HIDE DEF names
  <2>3. /\ InsertAt(cut, to, m) \in Seq(GroupName)
        /\ Orders(InsertAt(cut, to, m), names \cup {m})
    BY <1>3, <1>4, <2>1, <2>2, InsertInOrder
  <2> QED
    BY <1>1, <2>3 DEF names
<1>6. (DOMAIN store \ {m}) \cup {m} = DOMAIN store
  BY <1>4
<1>7. /\ edited' \in [Book -> BOOLEAN] /\ edits' \in 0..MaxEdits
      /\ edit_msgs' \in [Book -> Nat] /\ unrecorded' \in [Book -> Nat]
  BY FlagType, MessageType DEF IInv, move_group, Book
<1>8. TypeOK'
  BY <1>1, <1>5, <1>7 DEF IInv, TypeOK
<1> QED
  BY <1>1, <1>5, <1>6, <1>8 DEF IInv, OrderMatchesStore, GroupsConserved

\* A step on a rule set leaves the groups alone.
LEMMA RuleStep ==
  ASSUME IInv, NEW b \in Book, NEW f \in Book, Flag(f),
         (\E s \in Seq(R) : Set(b, s)) \/ UNCHANGED ruleVars,
         Message(b) \/ NoMessage \/ Unrecorded(b), UNCHANGED groupVars
  PROVE  IInv'
<1>1. /\ edited' \in [Book -> BOOLEAN] /\ edits' \in 0..MaxEdits
      /\ edit_msgs' \in [Book -> Nat] /\ unrecorded' \in [Book -> Nat]
  BY FlagType, MessageType DEF IInv
<1>2. /\ rules' \in [Book -> Seq(RuleId \cup {NotARule})]
      /\ shown' \in [Book -> Nat]
  BY SetType DEF IInv, ruleVars, TypeOK
<1>3. UNCHANGED <<store, store_order, expected>>
  BY DEF groupVars
<1>4. TypeOK'
  BY <1>1, <1>2, <1>3 DEF IInv, TypeOK
<1> QED
  BY <1>3, <1>4 DEF IInv, OrderMatchesStore, GroupsConserved

LEMMA EditRulesStep ==
  ASSUME IInv, EditRules
  PROVE  IInv'
<1>1. PICK b \in Book :
        \/ \E r \in RuleId : create_rule(b, r)
        \/ \E k \in 1..shown[b], r \in RuleId : update_rule(b, k, r)
        \/ \E k \in 1..shown[b] : delete_rule(b, k)
        \/ \E from, to \in 1..shown[b] : move_rule(b, from, to)
  BY DEF EditRules
<1>2. rules[b] \in Seq(R) /\ shown[b] \in Nat /\ "server" \in Book
  BY DEF IInv, TypeOK, R, Book
<1>3. ASSUME NEW r \in RuleId, create_rule(b, r) PROVE IInv'
  <2>1. r \in R
    BY DEF R
  <2>2. Append(rules[b], r) \in Seq(R)
    BY <1>2, <2>1
  <2> QED
    BY <1>3, <2>2, RuleStep DEF create_rule
<1>4. ASSUME NEW k \in 1..shown[b], NEW r \in RuleId, update_rule(b, k, r) PROVE IInv'
  <2>1. Assigned(rules[b], k, r) \in Seq(R)
    BY <1>2, AssignedType
  <2> QED
    BY <1>4, <2>1, RuleStep DEF update_rule
<1>5. ASSUME NEW k \in 1..shown[b], delete_rule(b, k) PROVE IInv'
  <2>1. k \in 1..Len(rules[b])
    BY <1>5 DEF delete_rule
  <2>2. RemoveAt(rules[b], k) \in Seq(R)
    BY <1>2, <2>1, RemoveAtProperties
  <2> QED
    BY <1>5, <2>2, RuleStep DEF delete_rule
<1>6. ASSUME NEW from \in 1..shown[b], NEW to \in 1..shown[b], move_rule(b, from, to)
      PROVE  IInv'
  <2>1. from \in Nat \ {0} /\ to \in Nat \ {0}
    BY <1>2
  <2>2. Moved(rules[b], from, to) \in Seq(R)
    BY <1>2, <2>1, MovedType
  <2>3. Flag("server")
    BY <1>6 DEF move_rule, FlaggedByMove
  <2> QED
    BY <1>2, <1>6, <2>2, <2>3, RuleStep DEF move_rule
<1> QED
  BY <1>1, <1>3, <1>4, <1>5, <1>6

\* What the older routes do to a rule set leaves the groups alone too.
LEMMA OlderRoutesStep ==
  ASSUME IInv, OlderRoutes
  PROVE  IInv'
<1>1. /\ "server" \in Book /\ rules["server"] \in Seq(R)
      /\ shown["server"] \in Nat
  BY DEF IInv, TypeOK, R, Book
<1>2. ASSUME NEW r \in RuleId, rule_create(r) PROVE IInv'
  <2>1. Append(rules["server"], r) \in Seq(R)
    BY <1>1 DEF R
  <2> QED
    BY <1>1, <1>2, <2>1, RuleStep DEF rule_create
<1>3. ASSUME NEW k \in 1..shown["server"], rule_delete(k) PROVE IInv'
  <2>1. RemoveAt(rules["server"], k) \in Seq(R)
    BY <1>1, <1>3, RemoveAtProperties DEF rule_delete
  <2> QED
    BY <1>1, <1>3, <2>1, RuleStep DEF rule_delete
<1>4. ASSUME NEW k \in 1..shown["server"], NEW r \in RuleId, rule_update(k, r) PROVE IInv'
  <2>1. Assigned(rules["server"], k, r) \in Seq(R)
    BY <1>1, AssignedType
  <2> QED
    BY <1>1, <1>4, <2>1, RuleStep DEF rule_update
<1> QED
  BY <1>2, <1>3, <1>4 DEF OlderRoutes

LEMMA Discard ==
  ASSUME IInv, NEW b \in Book, NEW d \in Documents, discard_changes(b, d)
  PROVE  IInv'
<1>1. /\ DOMAIN d.groups = Elems(d.keys)
      /\ GeneratedOrder(d) \in Seq(GroupName)
      /\ Orders(GeneratedOrder(d), Elems(d.keys))
      /\ \A n \in DOMAIN d.groups : d.groups[n].name = n
      /\ \A m, n \in DOMAIN d.groups : d.groups[m].uuid = d.groups[n].uuid => m = n
  BY DocumentAssumption
<1>2. d \in Document
  BY DocumentAssumption
<1>3. PICK N \in SUBSET GroupName : d.groups \in [N -> Group]
  <2>1. d.groups \in UNION {[N -> Group] : N \in SUBSET GroupName}
    BY <1>2 DEF Document
  <2> QED
    BY <2>1
<1>4. d.rules[b] \in Seq(R)
  <2>1. d.rules[b] \in Seq(RuleId)
    BY <1>2 DEF Document
  <2> QED
    BY <2>1, SeqMonotonic DEF R
<1>5. /\ rules' \in [Book -> Seq(RuleId \cup {NotARule})]
      /\ shown' \in [Book -> Nat]
  BY <1>4, SetType DEF IInv, discard_changes
<1>6. edited' \in [Book -> BOOLEAN] /\ UNCHANGED <<edit_msgs, unrecorded, edits>>
  BY DEF discard_changes, IInv, TypeOK
<1>7. CASE b = "server"
  <2>1. store' = d.groups /\ store_order' = GeneratedOrder(d) /\ expected' = Uuids(d.groups)
    BY <1>7 DEF discard_changes
  <2>2. DOMAIN store' = N /\ store' \in [N -> Group]
    BY <2>1, <1>3
  <2>3. expected' \subseteq Uuid
    <3>1. \A n \in N : d.groups[n].uuid \in Uuid
      BY <1>3 DEF Group
    <3> QED
      BY <3>1, <2>1, <1>3 DEF Uuids
  <2>4. TypeOK'
    BY <1>1, <1>5, <1>6, <2>1, <2>2, <2>3 DEF IInv, TypeOK
  <2>5. OrderMatchesStore'
    BY <1>1, <2>1 DEF OrderMatchesStore
  <2>6. GroupsConserved'
    BY <1>1, <2>1 DEF GroupsConserved
  <2> QED
    BY <2>4, <2>5, <2>6 DEF IInv
<1>8. CASE b # "server"
  <2>1. UNCHANGED <<store, store_order, expected>>
    BY <1>8 DEF discard_changes, groupVars
  <2>2. TypeOK'
    BY <1>5, <1>6, <2>1 DEF IInv, TypeOK
  <2> QED
    BY <2>1, <2>2 DEF IInv, OrderMatchesStore, GroupsConserved
<1> QED
  BY <1>7, <1>8

LEMMA NextIInv == IInv /\ [Next]_vars => IInv'
<1> SUFFICES ASSUME IInv, [Next]_vars PROVE IInv'
  OBVIOUS
<1>1. CASE EditGroups
  BY <1>1, CreateName, UpdateName, UpdateSelect, DeleteGroup, MoveGroup DEF EditGroups
<1>2. CASE EditRules
  BY <1>2, EditRulesStep
<1>3. ASSUME NEW b \in Book, NEW d \in Documents, discard_changes(b, d) PROVE IInv'
  BY <1>3, Discard
<1>4. CASE UNCHANGED vars
  BY <1>4 DEF vars, IInv, TypeOK, OrderMatchesStore, GroupsConserved, Orders, Elems, Uuids
<1>5. CASE OlderRoutes
  BY <1>5, OlderRoutesStep
<1>6. ASSUME NEW b \in Book, update_agent(b) PROVE IInv'
  BY <1>6, RuleStep DEF update_agent
<1> QED
  BY <1>1, <1>2, <1>3, <1>4, <1>5, <1>6 DEF Next

LEMMA Inductive == Spec => []IInv
BY InitIInv, NextIInv, PTL DEF Spec

----------------------------------------------------------------------------
(* The theorems                                                            *)

\* Every reachable state of the book has its types.
THEOREM BookTypeCorrect == Spec => []TypeOK
<1>1. IInv => TypeOK
  BY DEF IInv
<1> QED
  BY <1>1, Inductive, PTL

\* The order of the groups and their store never disagree, whatever is edited,
\* moved, renamed, deleted or reloaded.
THEOREM OrderNeverDiverges == Spec => []OrderMatchesStore
<1>1. IInv => OrderMatchesStore
  BY DEF IInv
<1> QED
  BY <1>1, Inductive, PTL

\* No group is lost or doubled by an edit.
THEOREM GroupsAreConserved == Spec => []GroupsConserved
<1>1. IInv => GroupsConserved
  BY DEF IInv
<1> QED
  BY <1>1, Inductive, PTL

\* `loaded` always has an entry for each book.
LoadedIsTotal == DOMAIN loaded = Book

LEMMA LoadedTotal == Spec => []LoadedIsTotal
<1>1. Init => LoadedIsTotal
  BY DEF Init, LoadedIsTotal
<1>2. LoadedIsTotal /\ [Next]_vars => LoadedIsTotal'
  <2>1. \A b \in Book : Flag(b) => UNCHANGED loaded
    BY DEF Flag
  <2> QED
    BY <2>1 DEF LoadedIsTotal, Next, vars, EditGroups, EditRules, create_name,
       update_group_name, update_select, delete_group, move_group, create_rule, update_rule,
       delete_rule, move_rule, FlaggedByMove, OlderRoutes, rule_create, rule_update, rule_delete,
       update_agent, discard_changes, Book
<1> QED
  BY <1>1, <1>2, PTL DEF Spec

\* The server's book never differs from the file it was loaded from without its
\* edited flag.
THEOREM ServerEditsFlagged == Spec => []EditsAreFlagged
<1>1. Init => EditsAreFlagged
  BY DEF Init, EditsAreFlagged, Content, LoadedContent, Book
<1>2. IInv /\ LoadedIsTotal /\ EditsAreFlagged /\ [Next]_vars => EditsAreFlagged'
  <2> SUFFICES ASSUME IInv, LoadedIsTotal, EditsAreFlagged, [Next]_vars
               PROVE  EditsAreFlagged'
    OBVIOUS
  <2>1. /\ "server" \in Book /\ "agent" \in Book /\ edited \in [Book -> BOOLEAN]
        /\ rules \in [Book -> Seq(RuleId \cup {NotARule})]
    BY DEF Book, IInv, TypeOK
  <2>2. ASSUME Flag("server") PROVE EditsAreFlagged'
    BY <2>1, <2>2 DEF Flag, EditsAreFlagged
  <2>3. ASSUME Flag("agent"), NEW s, Set("agent", s), UNCHANGED groupVars PROVE EditsAreFlagged'
    <3>1. rules'["server"] = rules["server"] /\ edited'["server"] = edited["server"]
      BY <2>1, <2>3 DEF Set, Flag
    <3> QED
      BY <2>3, <3>1 DEF Flag, groupVars, EditsAreFlagged, Content
  <2>4. CASE EditGroups
    BY <2>2, <2>4 DEF EditGroups, create_name, update_group_name, update_select,
                      delete_group, move_group
  <2>5. CASE EditRules
    BY <2>2, <2>3, <2>5 DEF EditRules, create_rule, update_rule, delete_rule, move_rule,
                            FlaggedByMove, Book
  <2>8. CASE OlderRoutes
    BY <2>2, <2>8 DEF OlderRoutes, rule_create, rule_update, rule_delete
  <2>9. ASSUME NEW b \in Book, update_agent(b) PROVE EditsAreFlagged'
    <3>1. CASE b = "server"
      BY <2>2, <2>9, <3>1 DEF update_agent
    <3>2. CASE b = "agent"
      <4>1. edited'["server"] = edited["server"] /\ UNCHANGED <<groupVars, ruleVars, loaded>>
        BY <2>1, <2>9, <3>2 DEF update_agent, Flag
      <4> QED
        BY <4>1 DEF groupVars, ruleVars, EditsAreFlagged, Content
    <3> QED
      BY <3>1, <3>2 DEF Book
  <2>6. ASSUME NEW b \in Book, NEW d \in Documents, discard_changes(b, d)
        PROVE  EditsAreFlagged'
    <3>1. CASE b = "server"
      <4>1. rules'["server"] = d.rules["server"]
        BY <2>6, <3>1, <2>1 DEF discard_changes, Set
      <4>2. loaded'["server"] = LoadedContent(d, "server")
        BY <2>6, <3>1, <2>1 DEF discard_changes, LoadedIsTotal
      <4>3. store' = d.groups /\ store_order' = GeneratedOrder(d)
        BY <2>6, <3>1 DEF discard_changes
      <4> QED
        BY <4>1, <4>2, <4>3 DEF EditsAreFlagged, Content, LoadedContent
    <3>2. CASE b = "agent"
      <4>1. /\ rules'["server"] = rules["server"] /\ edited'["server"] = edited["server"]
            /\ UNCHANGED groupVars
        BY <2>6, <3>2, <2>1 DEF discard_changes, Set
      <4>2. loaded'["server"] = loaded["server"]
        BY <2>6, <3>2, <2>1 DEF discard_changes
      <4> QED
        BY <4>1, <4>2 DEF groupVars, EditsAreFlagged, Content
    <3> QED
      BY <3>1, <3>2 DEF Book
  <2>7. CASE UNCHANGED vars
    BY <2>7 DEF vars, EditsAreFlagged, Content
  <2> QED
    BY <2>4, <2>5, <2>6, <2>7, <2>8, <2>9 DEF Next
<1> QED
  BY <1>1, <1>2, Inductive, LoadedTotal, PTL DEF Spec

----------------------------------------------------------------------------
(* No rule is lost silently                                                *)

\* A rule set in which each copy of a rule has a place of its own in another has
\* no more copies of it.
LEMMA NoFewer ==
  ASSUME NEW s \in Seq(R), NEW t \in Seq(R), NEW r \in RuleId, NEW f \in [1..Len(s) -> Nat],
         \A j \in 1..Len(s) : s[j] = r => f[j] \in 1..Len(t) /\ t[f[j]] = r,
         \A i, j \in 1..Len(s) : s[i] = r /\ s[j] = r /\ f[i] = f[j] => i = j
  PROVE  ~(Count(t, r) < Count(s, r))
<1> DEFINE S == {k \in 1..Len(s) : s[k] = r}
           T == {k \in 1..Len(t) : t[k] = r}
           g == [j \in S |-> f[j]]
<1>1. Len(s) \in Nat /\ Len(t) \in Nat
  OBVIOUS
<1>2. IsFiniteSet(T)
  <2>1. IsFiniteSet(1..Len(t)) /\ T \in SUBSET (1..Len(t))
    BY <1>1, FS_Interval
  <2> QED
    BY <2>1, FS_Subset
<1>3. g \in Injection(S, T)
  BY DEF Injection, IsInjective
<1>4. IsFiniteSet(S) /\ Cardinality(S) <= Cardinality(T)
  <2> HIDE DEF S, T, g
  <2> QED
    BY <1>2, <1>3, FS_Injection
<1>5. Cardinality(S) \in Nat /\ Cardinality(T) \in Nat
  <2> HIDE DEF S, T
  <2> QED
    BY <1>2, <1>4, FS_CardinalityType
<1>6. Count(s, r) = Cardinality(S) /\ Count(t, r) = Cardinality(T)
  BY DEF Count
<1> HIDE DEF S, T
<1> QED
  BY <1>4, <1>5, <1>6

\* Cutting out a position loses only what is there.
LEMMA RemovalLosesOne ==
  ASSUME NEW s \in Seq(R), NEW k \in 1..Len(s), NEW r \in RuleId, s[k] # r
  PROVE  ~(Count(RemoveAt(s, k), r) < Count(s, r))
<1> DEFINE t == RemoveAt(s, k)
           f == [j \in 1..Len(s) |-> IF j < k THEN j ELSE j - 1]
<1>1. /\ Len(s) \in Nat /\ t \in Seq(R) /\ Len(t) = Len(s) - 1
      /\ \A j \in 1..(Len(s) - 1) : t[j] = IF j < k THEN s[j] ELSE s[j + 1]
  <2>1. Len(s) \in Nat
    OBVIOUS
  <2> QED
    BY <2>1, RemoveAtProperties
<1> HIDE DEF t
<1>2. f \in [1..Len(s) -> Nat]
  BY <1>1
<1>3. ASSUME NEW j \in 1..Len(s), s[j] = r PROVE f[j] \in 1..Len(t) /\ t[f[j]] = r
  <2>1. j # k
    BY <1>3
  <2>2. CASE j < k
    BY <1>1, <1>3, <2>2
  <2>3. CASE k < j
    <3>1. j - 1 \in 1..(Len(s) - 1) /\ ~(j - 1 < k) /\ (j - 1) + 1 = j /\ f[j] = j - 1
      BY <1>1, <2>3
    <3> QED
      BY <1>1, <1>3, <3>1
  <2> QED
    BY <1>1, <2>1, <2>2, <2>3
<1>4. ASSUME NEW i \in 1..Len(s), NEW j \in 1..Len(s), s[i] = r, s[j] = r, f[i] = f[j] PROVE i = j
  <2>1. i # k /\ j # k
    BY <1>4
  <2> QED
    BY <1>1, <1>4, <2>1
<1>5. \A j \in 1..Len(s) : s[j] = r => f[j] \in 1..Len(t) /\ t[f[j]] = r
  BY <1>3
<1>6. \A i, j \in 1..Len(s) : s[i] = r /\ s[j] = r /\ f[i] = f[j] => i = j
  BY <1>4
<1> HIDE DEF f, t
<1>7. ~(Count(t, r) < Count(s, r))
  BY <1>1, <1>2, <1>5, <1>6, NoFewer
<1> QED
  BY <1>7 DEF t

\* t is s with e at some place among the others, which keep their order.
HasBetween(t, s, e) ==
  /\ Len(t) = Len(s) + 1
  /\ \E k \in 1..(Len(s) + 1) :
       \A j \in 1..(Len(s) + 1) : t[j] = IF j < k THEN s[j] ELSE IF j = k THEN e ELSE s[j - 1]

\* splice(to, 0, e), wherever `to` is: the others keep their order around e.
LEMMA InsertedProperties ==
  ASSUME NEW s \in Seq(R), NEW to \in Nat \ {0}, NEW e \in R
  PROVE  HasBetween(Inserted(s, to, e), s, e)
<1> DEFINE k == IF to <= Len(s) THEN to ELSE Len(s) + 1
<1>1. Len(s) \in Nat
  OBVIOUS
<1>2. Inserted(s, to, e) = InsertAt(s, k, e)
  BY DEF Inserted
<1>3. k \in 1..(Len(s) + 1)
  BY <1>1
<1> HIDE DEF k
<1>4. /\ InsertAt(s, k, e) \in Seq(R)
      /\ Len(InsertAt(s, k, e)) = Len(s) + 1
      /\ \A j \in 1..(Len(s) + 1) :
           InsertAt(s, k, e)[j] = IF j < k THEN s[j] ELSE IF j = k THEN e ELSE s[j - 1]
  BY <1>3, InsertAtProperties
<1> QED
  BY <1>2, <1>3, <1>4 DEF HasBetween

\* A move puts back what it cut out, from and to any positions.
LEMMA MoveLosesNothing ==
  ASSUME NEW s \in Seq(R), NEW from \in Nat \ {0}, NEW to \in Nat \ {0}, NEW r \in RuleId
  PROVE  ~(Count(Moved(s, from, to), r) < Count(s, r))
<1> DEFINE n == Len(s)
           u == Spliced(s, from)
           e == At(s, from)
           t == Moved(s, from, to)
<1>1. n \in Nat /\ t \in Seq(R)
  BY MovedType
<1>2. CASE from <= n
  <2>1. from \in 1..n /\ u = RemoveAt(s, from) /\ e = s[from]
    BY <1>1, <1>2 DEF Spliced, At
  <2>2. /\ u \in Seq(R) /\ Len(u) = n - 1 /\ e \in R
        /\ \A j \in 1..(n - 1) : u[j] = IF j < from THEN s[j] ELSE s[j + 1]
    <3>1. /\ RemoveAt(s, from) \in Seq(R) /\ Len(RemoveAt(s, from)) = n - 1
          /\ \A j \in 1..(n - 1) : RemoveAt(s, from)[j] = IF j < from THEN s[j] ELSE s[j + 1]
      BY <2>1, RemoveAtProperties
    <3>2. s[from] \in R
      BY <2>1, ElementOfSeq
    <3> QED
      BY <2>1, <3>1, <3>2
  <2> HIDE DEF u, e
  <2>3. t = Inserted(u, to, e)
    BY DEF Moved, u, e
  <2>4. /\ Len(t) = n
        /\ \E k \in 1..n : \A j \in 1..n :
             t[j] = IF j < k THEN u[j] ELSE IF j = k THEN e ELSE u[j - 1]
    <3>1. HasBetween(t, u, e)
      BY <2>2, <2>3, InsertedProperties
    <3>2. Len(u) + 1 = n
      BY <1>1, <2>2
    <3> QED
      BY <3>1, <3>2 DEF HasBetween
  <2>5. PICK k \in 1..n : \A j \in 1..n :
          t[j] = IF j < k THEN u[j] ELSE IF j = k THEN e ELSE u[j - 1]
    BY <2>4
  <2> DEFINE cut(j) == IF j < from THEN j ELSE j - 1
             f == [j \in 1..n |-> IF j = from THEN k
                                  ELSE IF cut(j) < k THEN cut(j) ELSE cut(j) + 1]
  <2>6. f \in [1..n -> Nat]
    BY <1>1, <2>1
  <2>7. ASSUME NEW j \in 1..n PROVE f[j] \in 1..Len(t) /\ t[f[j]] = s[j]
    <3>1. CASE j = from
      BY <1>1, <2>1, <2>4, <2>5, <3>1
    <3>2. CASE j # from
      <4> DEFINE c == cut(j)
      <4>1. c \in 1..(n - 1) /\ (IF c < from THEN c ELSE c + 1) = j
        BY <1>1, <2>1, <3>2
      <4>2. f[j] = IF c < k THEN c ELSE c + 1
        BY <3>2
      <4> HIDE DEF c, f
      <4>3. u[c] = s[j]
        BY <2>2, <4>1
      <4>4. CASE c < k
        <5>1. c \in 1..n
          BY <1>1, <4>1
        <5> QED
          BY <2>4, <2>5, <4>2, <4>3, <4>4, <5>1
      <4>5. CASE ~(c < k)
        <5>1. c + 1 \in 1..n /\ ~(c + 1 < k) /\ c + 1 # k /\ (c + 1) - 1 = c
          BY <1>1, <4>1, <4>5
        <5> QED
          BY <2>4, <2>5, <4>2, <4>3, <4>5, <5>1
      <4> QED
        BY <4>4, <4>5
    <3> QED
      BY <3>1, <3>2
  <2>8. ASSUME NEW i \in 1..n, NEW j \in 1..n, f[i] = f[j] PROVE i = j
    <3>1. ASSUME NEW l \in 1..n, l # from PROVE f[l] # k
      BY <1>1, <2>1, <3>1
    <3>2. f[from] = k
      BY <2>1
    <3>3. CASE i = from \/ j = from
      BY <2>8, <3>1, <3>2, <3>3
    <3>4. CASE i # from /\ j # from
      <4>1. cut(i) = cut(j)
        BY <1>1, <2>1, <2>8, <3>4
      <4> QED
        BY <1>1, <2>1, <3>4, <4>1
    <3> QED
      BY <3>3, <3>4
  <2> HIDE DEF f, t
  <2>9. ~(Count(t, r) < Count(s, r))
    <3>1. \A j \in 1..Len(s) : s[j] = r => f[j] \in 1..Len(t) /\ t[f[j]] = r
      BY <2>7
    <3>2. \A i, j \in 1..Len(s) : s[i] = r /\ s[j] = r /\ f[i] = f[j] => i = j
      BY <2>8
    <3> QED
      BY <1>1, <2>6, <3>1, <3>2, NoFewer
  <2> QED
    BY <2>9 DEF t
<1>3. CASE ~(from <= n)
  <2>1. u = s /\ e = NotARule /\ e \in R
    BY <1>3 DEF Spliced, At, R
  <2> HIDE DEF e
  <2>2. t = Inserted(s, to, e)
    BY <2>1 DEF Moved, e
  <2> HIDE DEF t
  <2>0. HasBetween(t, s, e)
    BY <2>1, <2>2, InsertedProperties
  <2>3. PICK k \in 1..(n + 1) : \A j \in 1..(n + 1) :
          t[j] = IF j < k THEN s[j] ELSE IF j = k THEN e ELSE s[j - 1]
    BY <2>0 DEF HasBetween
  <2>4. Len(t) = n + 1
    BY <2>0 DEF HasBetween
  <2> DEFINE f == [j \in 1..n |-> IF j < k THEN j ELSE j + 1]
  <2>5. f \in [1..n -> Nat]
    BY <1>1
  <2>6. ASSUME NEW j \in 1..n PROVE f[j] \in 1..Len(t) /\ t[f[j]] = s[j]
    <3>1. CASE j < k
      BY <1>1, <2>3, <2>4, <3>1
    <3>2. CASE ~(j < k)
      <4>1. j + 1 \in 1..(n + 1) /\ ~(j + 1 < k) /\ j + 1 # k /\ (j + 1) - 1 = j /\ f[j] = j + 1
        BY <1>1, <3>2
      <4> QED
        BY <2>3, <2>4, <4>1
    <3> QED
      BY <3>1, <3>2
  <2>7. ASSUME NEW i \in 1..n, NEW j \in 1..n, f[i] = f[j] PROVE i = j
    BY <1>1, <2>7
  <2> HIDE DEF f
  <2>8. ~(Count(t, r) < Count(s, r))
    <3>1. \A j \in 1..Len(s) : s[j] = r => f[j] \in 1..Len(t) /\ t[f[j]] = r
      BY <2>6
    <3>2. \A i, j \in 1..Len(s) : s[i] = r /\ s[j] = r /\ f[i] = f[j] => i = j
      BY <2>7
    <3> QED
      BY <1>1, <2>5, <3>1, <3>2, NoFewer
  <2> QED
    BY <2>8 DEF t
<1> QED
  BY <1>2, <1>3

\* No step takes a rule out of a rule set without a message for the commit,
\* unless it restores what was loaded or is a replacement or removal by an older
\* route: a move, from and to any positions that any screen may show, loses
\* nothing.
THEOREM NothingLostSilently == Spec => NoSilentLoss
<1>1. TypeOK /\ LoadedIsTotal /\ [Next]_vars =>
        [\A b \in Book :
           (\E r \in RuleId : Count(rules'[b], r) < Count(rules[b], r))
             => \/ edit_msgs'[b] > edit_msgs[b]
                \/ unrecorded'[b] > unrecorded[b]
                \/ rules'[b] = loaded'[b].rules]_vars
  <2> SUFFICES ASSUME TypeOK, LoadedIsTotal, Next, NEW b \in Book, NEW r \in RuleId,
                      Count(rules'[b], r) < Count(rules[b], r)
               PROVE  \/ edit_msgs'[b] > edit_msgs[b]
                      \/ unrecorded'[b] > unrecorded[b]
                      \/ rules'[b] = loaded'[b].rules
    OBVIOUS
  <2>1. /\ rules \in [Book -> Seq(R)] /\ edit_msgs \in [Book -> Nat] /\ shown \in [Book -> Nat]
        /\ unrecorded \in [Book -> Nat]
        /\ \A c \in Book : rules[c] \in Seq(R)
    BY DEF TypeOK, R
  <2>2. ASSUME NEW c \in Book, NEW s, Set(c, s)
        PROVE  rules'[c] = s /\ (c # b => rules'[b] = rules[b])
    BY <2>1, <2>2 DEF Set
  <2>3. rules'[b] # rules[b]
    <3> SUFFICES ASSUME rules'[b] = rules[b] PROVE FALSE
      OBVIOUS
    <3> DEFINE I == [j \in 1..Len(rules[b]) |-> j]
    <3>1. I \in [1..Len(rules[b]) -> Nat] /\ \A j \in 1..Len(rules[b]) : I[j] = j
      BY <2>1
    <3> DEFINE s == rules[b]
    <3>2. s \in Seq(R) /\ I \in [1..Len(s) -> Nat] /\ \A j \in 1..Len(s) : I[j] = j
      BY <2>1, <3>1
    <3> HIDE DEF I, s
    <3>3. \A j \in 1..Len(s) : s[j] = r => I[j] \in 1..Len(s) /\ s[I[j]] = r
      BY <3>2
    <3>4. \A i, j \in 1..Len(s) : s[i] = r /\ s[j] = r /\ I[i] = I[j] => i = j
      BY <3>2
    <3>5. ~(Count(s, r) < Count(s, r))
      BY <3>2, <3>3, <3>4, NoFewer
    <3> QED
      BY <3>5 DEF s
  <2>4. ASSUME NEW c \in Book, Message(c), c = b PROVE edit_msgs'[b] > edit_msgs[b]
    BY <2>1, <2>4 DEF Message
  <2>5. CASE EditGroups
    BY <2>3, <2>5 DEF EditGroups, create_name, update_group_name, update_select, delete_group,
                      move_group, ruleVars
  <2>6. CASE EditRules
    <3>1. PICK c \in Book :
            \/ \E q \in RuleId : create_rule(c, q)
            \/ \E k \in 1..shown[c], q \in RuleId : update_rule(c, k, q)
            \/ \E k \in 1..shown[c] : delete_rule(c, k)
            \/ \E from, to \in 1..shown[c] : move_rule(c, from, to)
      BY <2>6 DEF EditRules
    <3>2. c = b
      BY <2>2, <2>3, <3>1 DEF create_rule, update_rule, delete_rule, move_rule
    <3>3. CASE \E q \in RuleId : create_rule(c, q)
      BY <2>4, <3>2, <3>3 DEF create_rule
    <3>4. CASE \E k \in 1..shown[c], q \in RuleId : update_rule(c, k, q)
      BY <2>4, <3>2, <3>4 DEF update_rule
    <3>5. CASE \E k \in 1..shown[c] : delete_rule(c, k)
      <4>1. PICK k \in 1..Len(rules[b]) :
              /\ IF rules[b][k] = NotARule THEN NoMessage ELSE Message(b)
              /\ Set(b, RemoveAt(rules[b], k))
        BY <3>2, <3>5 DEF delete_rule
      <4>2. CASE rules[b][k] = NotARule
        <5>1. rules[b][k] # r
          BY <4>2, BoundsAssumption
        <5>2. rules'[b] = RemoveAt(rules[b], k)
          BY <2>2, <4>1
        <5> QED
          BY <2>1, <5>1, <5>2, RemovalLosesOne
      <4>3. CASE rules[b][k] # NotARule
        BY <2>4, <4>1, <4>3
      <4> QED
        BY <4>2, <4>3
    <3>6. CASE \E from, to \in 1..shown[c] : move_rule(c, from, to)
      <4>1. PICK from \in 1..shown[b], to \in 1..shown[b] : Set(b, Moved(rules[b], from, to))
        BY <3>2, <3>6 DEF move_rule
      <4>2. rules'[b] = Moved(rules[b], from, to)
        BY <2>2, <4>1
      <4>3. from \in Nat \ {0} /\ to \in Nat \ {0}
        BY <2>1
      <4> QED
        BY <2>1, <4>2, <4>3, MoveLosesNothing
    <3> QED
      BY <3>1, <3>3, <3>4, <3>5, <3>6
  <2>7. CASE \E c \in Book, d \in Documents : discard_changes(c, d)
    <3>1. PICK c \in Book, d \in Documents : discard_changes(c, d)
      BY <2>7
    <3>2. Set(c, d.rules[c]) /\ loaded' = [loaded EXCEPT ![c] = LoadedContent(d, c)]
      BY <3>1 DEF discard_changes
    <3>3. c = b /\ rules'[b] = d.rules[b]
      BY <2>2, <2>3, <3>2
    <3>4. loaded'[b].rules = d.rules[b]
      BY <3>2, <3>3 DEF LoadedIsTotal, LoadedContent
    <3> QED
      BY <3>3, <3>4
  <2>8. CASE OlderRoutes
    <3>1. ASSUME Unrecorded("server"), b = "server" PROVE unrecorded'[b] > unrecorded[b]
      BY <2>1, <3>1 DEF Unrecorded
    <3>2. "server" \in Book
      BY DEF Book
    <3>3. ASSUME NEW q \in RuleId, rule_create(q) PROVE FALSE
      <4>1. Set("server", Append(rules["server"], q))
        BY <2>3, <3>3 DEF rule_create, ruleVars
      <4>2. b = "server" /\ rules'[b] = Append(rules[b], q)
        BY <2>2, <2>3, <3>2, <4>1
      <4> DEFINE s == rules[b]
                 t == Append(s, q)
                 f == [j \in 1..Len(s) |-> j]
      <4>3. /\ s \in Seq(R) /\ t \in Seq(R) /\ f \in [1..Len(s) -> Nat]
            /\ \A j \in 1..Len(s) : f[j] = j /\ j \in 1..Len(t) /\ t[j] = s[j]
        BY <2>1 DEF R
      <4>4. rules'[b] = t
        BY <4>2
      <4> HIDE DEF t, f
      <4>5. \A j \in 1..Len(s) : s[j] = r => f[j] \in 1..Len(t) /\ t[f[j]] = r
        BY <4>3
      <4>6. \A i, j \in 1..Len(s) : s[i] = r /\ s[j] = r /\ f[i] = f[j] => i = j
        BY <4>3
      <4>7. ~(Count(t, r) < Count(s, r))
        <5> HIDE DEF s
        <5> QED
          BY <4>3, <4>5, <4>6, NoFewer
      <4> QED
        BY <4>4, <4>7
    <3>4. ASSUME NEW k, rule_delete(k)
          PROVE  Unrecorded("server") /\ b = "server"
      BY <2>2, <2>3, <3>2, <3>4 DEF rule_delete, ruleVars
    <3>5. ASSUME NEW k, NEW q, rule_update(k, q)
          PROVE  Unrecorded("server") /\ b = "server"
      BY <2>2, <2>3, <3>2, <3>5 DEF rule_update
    <3> QED
      BY <2>8, <3>1, <3>3, <3>4, <3>5 DEF OlderRoutes
  <2>9. ASSUME NEW c \in Book, update_agent(c) PROVE FALSE
    BY <2>3, <2>9 DEF update_agent, ruleVars
  <2> QED
    BY <2>5, <2>6, <2>7, <2>8, <2>9 DEF Next
<1> QED
  BY <1>1, BookTypeCorrect, LoadedTotal, PTL DEF Spec, NoSilentLoss
=============================================================================
