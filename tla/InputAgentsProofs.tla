------------------------- MODULE InputAgentsProofs -------------------------
(***************************************************************************)
(* Proofs about the mechanisms of the input agents.                        *)
(*                                                                         *)
(* TinyCache, for every set of keys and values, every timeout, limit and   *)
(* setting.  The inductive invariant is that the store holds a key once,   *)
(* in the order of expiry, each with what was last set under it, and       *)
(* nothing that expires later than an item set now would: the last is what *)
(* lets an item be added at the end.  Every way in which the store loses   *)
(* items leaves a thinned store, which keeps all of it.                    *)
(*                                                                         *)
(* The http agent, for every set of tokens and of concurrent requests: a   *)
(* reply on its way was asked for within the latency of a call, and what   *)
(* the cache holds was valid then.                                         *)
(*                                                                         *)
(* The log tailer, for lines and chunks of every length: the log holds     *)
(* whole lines, windows begin and end where lines do, and the second       *)
(* character of a line that was handed on is in no open stream's reach.    *)
(***************************************************************************)
EXTENDS InputAgents, TLAPS, SequenceTheorems, FiniteSetTheorems, WellFoundedInduction

\* No item expires later than one set now.
NoneLater == \A k \in 1..Len(store) : store[k].expires <= now + Timeout

CacheInv == CacheTypeOK /\ StoreInOrder /\ StoreIsLatest /\ NoneLater /\ WithinLimit

\* t is s without some of its items, in the same order.
Thinned(t, s) ==
  /\ t \in Seq(TinyCacheItem)
  /\ Len(t) <= Len(s)
  /\ \E f \in [1..Len(t) -> 1..Len(s)] :
       /\ \A k \in 1..Len(t) : t[k] = s[f[k]]
       /\ \A j, k \in 1..Len(t) : j < k => f[j] < f[k]

\* What the invariant says of a store s, with l the latest values and bound the
\* latest expiry.
Sound(s, l, bound) ==
  /\ \A j, k \in 1..Len(s) : j < k => s[j].id # s[k].id
  /\ \A j, k \in 1..Len(s) : j < k => s[j].expires <= s[k].expires
  /\ \A k \in 1..Len(s) : l[s[k].id] = [value |-> s[k].value, expires |-> s[k].expires]
  /\ \A k \in 1..Len(s) : s[k].expires <= bound

----------------------------------------------------------------------------
Less == {ss \in Nat \X Nat : ss[1] < ss[2]}

\* A non-empty set of naturals has a least element.
LEMMA HasLeast ==
  ASSUME NEW S \in SUBSET Nat, S # {}
  PROVE  \E m \in S : \A n \in S : m <= n
<1>1. IsWellFoundedOn(Less, Nat) BY NatLessThanWellFounded DEF OpToRel, Less
<1>2. PICK m \in S : \A n \in S : <<n, m>> \notin Less BY <1>1, WFMin
<1>3. m \in S /\ \A n \in S : m <= n
  <2>1. ASSUME NEW n \in S PROVE m <= n
    <3>1. ~ (n < m) BY <1>2, <2>1 DEF Less
    <3> QED BY <3>1, <1>2
  <2> QED BY <2>1, <1>2
<1> QED BY <1>3

\* A thinned store is as sound as the store it comes from.
LEMMA ThinnedIsSound ==
  ASSUME NEW s, NEW t, NEW l, NEW bound,
         s \in Seq(TinyCacheItem), Sound(s, l, bound), Thinned(t, s)
  PROVE  Sound(t, l, bound)
<1>1. PICK f \in [1..Len(t) -> 1..Len(s)] :
        /\ \A k \in 1..Len(t) : t[k] = s[f[k]]
        /\ \A j, k \in 1..Len(t) : j < k => f[j] < f[k]
  BY DEF Thinned
<1>2. \A k \in 1..Len(t) : f[k] \in 1..Len(s) /\ t[k] = s[f[k]] BY <1>1
<1>3. \A j, k \in 1..Len(t) : j < k => f[j] < f[k] BY <1>1
<1>4. ASSUME NEW j \in 1..Len(t), NEW k \in 1..Len(t), j < k
      PROVE  t[j].id # t[k].id /\ t[j].expires <= t[k].expires
  <2>1. f[j] \in 1..Len(s) /\ f[k] \in 1..Len(s) /\ f[j] < f[k] BY <1>2, <1>3, <1>4
  <2>2. s[f[j]].id # s[f[k]].id /\ s[f[j]].expires <= s[f[k]].expires BY <2>1 DEF Sound
  <2> QED BY <2>2, <1>2
<1>5. ASSUME NEW k \in 1..Len(t)
      PROVE  /\ l[t[k].id] = [value |-> t[k].value, expires |-> t[k].expires]
             /\ t[k].expires <= bound
  <2>1. f[k] \in 1..Len(s) /\ t[k] = s[f[k]] BY <1>2
  <2>2. /\ l[s[f[k]].id] = [value |-> s[f[k]].value, expires |-> s[f[k]].expires]
        /\ s[f[k]].expires <= bound
    BY <2>1 DEF Sound
  <2> QED BY <2>1, <2>2
<1> QED BY <1>4, <1>5 DEF Sound

\* A store is a thinned store of itself.
LEMMA SameIsThinned ==
  ASSUME NEW s \in Seq(TinyCacheItem)
  PROVE  Thinned(s, s)
<1> DEFINE f == [k \in 1..Len(s) |-> k]
<1>1. f \in [1..Len(s) -> 1..Len(s)] OBVIOUS
<1>2. \A k \in 1..Len(s) : s[k] = s[f[k]] OBVIOUS
<1>3. \A j, k \in 1..Len(s) : j < k => f[j] < f[k] OBVIOUS
<1>4. Len(s) <= Len(s) BY LenProperties
<1> QED BY <1>1, <1>2, <1>3, <1>4 DEF Thinned

\* The items from position k on are a thinned store, of the length one expects.
LEMMA FromIsThinned ==
  ASSUME NEW s \in Seq(TinyCacheItem), NEW k \in 1..Len(s) + 1
  PROVE  Thinned(From(s, k), s) /\ Len(From(s, k)) = Len(s) + 1 - k
<1> DEFINE t == From(s, k)
           f == [j \in 1..Len(t) |-> j + k - 1]
<1>1. Len(s) \in Nat BY LenProperties
<1>2. CASE k = Len(s) + 1
  <2>1. t = <<>> BY <1>1, <1>2, SubSeqEmpty DEF From
  <2>2. Len(t) = 0 /\ t \in Seq(TinyCacheItem) BY <2>1, EmptySeq
  <2>3. f \in [1..Len(t) -> 1..Len(s)] BY <2>2
  <2>4. \A j \in 1..Len(t) : FALSE BY <2>2
  <2> QED
    <3> HIDE DEF t, f
    <3>1. \A j \in 1..Len(t) : t[j] = s[f[j]] BY <2>4
    <3>2. \A j, m \in 1..Len(t) : j < m => f[j] < f[m] BY <2>4
    <3>3. Len(t) <= Len(s) BY <2>2, <1>1
    <3>4. Thinned(t, s) BY <2>2, <2>3, <3>1, <3>2, <3>3, Zenon DEF Thinned
    <3> QED BY <3>4, <2>2, <1>1, <1>2 DEF t
<1>3. CASE k \in 1..Len(s)
  <2>1. /\ t \in Seq(TinyCacheItem)
        /\ Len(t) = Len(s) - k + 1
        /\ \A j \in 1..Len(s) - k + 1 : t[j] = s[k + j - 1]
    BY <1>1, <1>3, SubSeqProperties DEF From
  <2>2. f \in [1..Len(t) -> 1..Len(s)]
    <3>1. \A j \in 1..Len(t) : j + k - 1 \in 1..Len(s) BY <2>1, <1>1, <1>3
    <3> QED BY <3>1
  <2>3. \A j \in 1..Len(t) : t[j] = s[f[j]] /\ f[j] = j + k - 1
    <3>1. \A j \in 1..Len(t) : f[j] = j + k - 1 OBVIOUS
    <3>2. \A j \in 1..Len(t) : k + j - 1 = j + k - 1 BY <2>1, <1>1, <1>3
    <3> HIDE DEF t, f
    <3> QED BY <3>1, <3>2, <2>1
  <2> QED
    <3> HIDE DEF t, f
    <3>1. \A j, m \in 1..Len(t) : j < m => f[j] < f[m] BY <2>1, <2>3, <1>1, <1>3
    <3>2. Len(t) <= Len(s) BY <2>1, <1>1, <1>3
    <3>3. Thinned(t, s)
      <4>1. t \in Seq(TinyCacheItem) BY <2>1
      <4>2. \A j \in 1..Len(t) : t[j] = s[f[j]] BY <2>3
      <4> QED BY <4>1, <4>2, <2>2, <3>1, <3>2, Zenon DEF Thinned
    <3> QED BY <3>3, <2>1, <1>1, <1>3 DEF t
<1> QED BY <1>1, <1>2, <1>3

\* Where a key is.
LEMMA PlaceOfKey ==
  ASSUME NEW s \in Seq(TinyCacheItem), NEW i, Has(s, i)
  PROVE  PlaceOf(s, i) \in 1..Len(s) /\ s[PlaceOf(s, i)].id = i
BY DEF Has, PlaceOf

\* Removing a key thins the store, and the key is gone if it was there once.
LEMMA WithoutIsThinned ==
  ASSUME NEW s \in Seq(TinyCacheItem), NEW i
  PROVE  /\ Thinned(Without(s, i), s)
         /\ (\A j, k \in 1..Len(s) : j < k => s[j].id # s[k].id)
              => \A k \in 1..Len(Without(s, i)) : Without(s, i)[k].id # i
<1>1. Len(s) \in Nat /\ \A k \in 1..Len(s) : s[k] \in TinyCacheItem BY LenProperties, ElementOfSeq
<1>2. CASE ~ Has(s, i)
  <2>1. Without(s, i) = s BY <1>2 DEF Without
  <2> QED BY <2>1, <1>2, SameIsThinned DEF Has
<1>3. CASE Has(s, i)
  <2> DEFINE p == PlaceOf(s, i)
             t == [k \in 1..Len(s) - 1 |-> IF k < p THEN s[k] ELSE s[k + 1]]
             f == [k \in 1..Len(s) - 1 |-> IF k < p THEN k ELSE k + 1]
  <2>1. p \in 1..Len(s) /\ s[p].id = i BY <1>3, PlaceOfKey
  <2>2. Without(s, i) = t BY <1>3 DEF Without
  <2> HIDE DEF p
  <2>3. Len(s) - 1 \in Nat BY <2>1, <1>1
  <2>4. t \in Seq(TinyCacheItem) /\ Len(t) = Len(s) - 1
    <3>1. t \in [1..Len(s) - 1 -> TinyCacheItem] BY <1>1, <2>1
    <3>2. t \in Seq(TinyCacheItem) BY <3>1, <2>3, SeqDef
    <3>3. DOMAIN t = 1..Len(t) /\ Len(t) \in Nat BY <3>2, LenProperties
    <3>4. DOMAIN t = 1..Len(s) - 1 OBVIOUS
    <3> QED
      <4> HIDE DEF t
      <4> QED BY <3>2, <3>3, <3>4, <2>3
  <2>5. \A k \in 1..Len(t) : f[k] = (IF k < p THEN k ELSE k + 1) BY <2>4
  <2>6. \A k \in 1..Len(t) : t[k] = s[f[k]] BY <2>4
  <2>7. f \in [1..Len(t) -> 1..Len(s)]
    <3>1. \A k \in 1..Len(s) - 1 : (IF k < p THEN k ELSE k + 1) \in 1..Len(s) BY <1>1, <2>1
    <3> QED BY <3>1, <2>4
  <2> HIDE DEF t, f
  <2>8. \A j, k \in 1..Len(t) : j < k => f[j] < f[k] BY <2>5, <2>1, <2>4, <1>1
  <2>9. \A k \in 1..Len(t) : f[k] \in 1..Len(s) /\ f[k] # p BY <2>5, <2>7, <2>1, <2>4, <1>1
  <2>10. Thinned(t, s)
    <3>1. Len(t) <= Len(s) BY <2>4, <1>1
    <3> QED BY <3>1, <2>4, <2>6, <2>7, <2>8 DEF Thinned
  <2>11. ASSUME \A j, k \in 1..Len(s) : j < k => s[j].id # s[k].id, NEW k \in 1..Len(t)
         PROVE  t[k].id # i
    <3>1. f[k] < p \/ p < f[k] BY <2>9, <2>1, <1>1
    <3> QED BY <3>1, <2>11, <2>9, <2>6, <2>1
  <2> QED BY <2>2, <2>10, <2>11
<1> QED BY <1>2, <1>3

----------------------------------------------------------------------------
\* An item added at the end keeps the store sound for what is then the latest.
LEMMA AddedIsSound ==
  ASSUME CacheTypeOK, Sound(store, latest, now + Timeout), NEW i \in Id, NEW v \in Value
  PROVE  /\ Added(i, v) \in Seq(TinyCacheItem)
         /\ Sound(Added(i, v),
                  [latest EXCEPT ![i] = [value |-> v, expires |-> now + Timeout]],
                  now + Timeout)
<1> DEFINE u == Without(store, i)
           item == [id |-> i, value |-> v, expires |-> now + Timeout]
           l == [latest EXCEPT ![i] = [value |-> v, expires |-> now + Timeout]]
           s == Added(i, v)
<1>1. now \in Nat /\ Timeout \in Nat /\ now + Timeout \in Nat
  BY CacheAssumption DEF CacheTypeOK
<1>2. item \in TinyCacheItem BY <1>1 DEF TinyCacheItem
<1>3. u \in Seq(TinyCacheItem) BY WithoutIsThinned DEF CacheTypeOK, Thinned
<1>4. Sound(u, latest, now + Timeout) BY WithoutIsThinned, ThinnedIsSound DEF CacheTypeOK
<1>5. \A k \in 1..Len(u) : u[k].id # i BY WithoutIsThinned DEF CacheTypeOK, Sound
<1>6. /\ s \in Seq(TinyCacheItem)
      /\ Len(s) = Len(u) + 1
      /\ \A k \in 1..Len(u) : s[k] = u[k]
      /\ s[Len(u) + 1] = item
  BY <1>2, <1>3, AppendProperties DEF Added
<1>7. Len(u) \in Nat /\ \A k \in 1..Len(u) : u[k].id \in Id
  <2> HIDE DEF u
  <2>1. Len(u) \in Nat BY <1>3, LenProperties
  <2>2. \A k \in 1..Len(u) : u[k] \in TinyCacheItem BY <1>3, ElementOfSeq
  <2> QED BY <2>1, <2>2 DEF TinyCacheItem
<1>8. l[i] = [value |-> v, expires |-> now + Timeout] /\ \A x \in Id : x # i => l[x] = latest[x]
  BY DEF CacheTypeOK
<1>9. item.id = i /\ item.value = v /\ item.expires = now + Timeout OBVIOUS
<1> HIDE DEF u, item, l, s
<1>10. ASSUME NEW j \in 1..Len(s), NEW k \in 1..Len(s), j < k
       PROVE  s[j].id # s[k].id /\ s[j].expires <= s[k].expires
  <2>1. j \in 1..Len(u) /\ (k \in 1..Len(u) \/ k = Len(u) + 1) BY <1>6, <1>7, <1>10
  <2>2. CASE k \in 1..Len(u)
    <3>1. u[j].id # u[k].id /\ u[j].expires <= u[k].expires BY <2>1, <2>2, <1>4, <1>10 DEF Sound
    <3> QED BY <3>1, <2>1, <2>2, <1>6
  <2>3. CASE k = Len(u) + 1
    <3>1. u[j].id # i /\ u[j].expires <= now + Timeout BY <2>1, <1>4, <1>5 DEF Sound
    <3> QED BY <3>1, <2>1, <2>3, <1>6, <1>9
  <2> QED BY <2>1, <2>2, <2>3
<1>11. ASSUME NEW k \in 1..Len(s)
       PROVE  /\ l[s[k].id] = [value |-> s[k].value, expires |-> s[k].expires]
              /\ s[k].expires <= now + Timeout
  <2>1. k \in 1..Len(u) \/ k = Len(u) + 1 BY <1>6, <1>7
  <2>2. CASE k \in 1..Len(u)
    <3>1. /\ latest[u[k].id] = [value |-> u[k].value, expires |-> u[k].expires]
          /\ u[k].expires <= now + Timeout
      BY <2>2, <1>4 DEF Sound
    <3>2. l[u[k].id] = latest[u[k].id] BY <2>2, <1>5, <1>7, <1>8
    <3> QED BY <3>1, <3>2, <2>2, <1>6
  <2>3. CASE k = Len(u) + 1 BY <2>3, <1>1, <1>6, <1>8, <1>9
  <2> QED BY <2>1, <2>2, <2>3
<1>12. Sound(s, l, now + Timeout) BY <1>10, <1>11 DEF Sound
<1> QED BY <1>6, <1>12 DEF s, l

\* expire stops at a position of the store or just after its end.
LEMMA FirstKeptIsThere ==
  ASSUME NEW s \in Seq(TinyCacheItem)
  PROVE  FirstKept(s) \in 1..Len(s) + 1
<1> DEFINE S == {k \in 1..Len(s) + 1 : k <= Len(s) => ~ expired(s[k])}
<1>1. Len(s) \in Nat BY LenProperties
<1>2. Len(s) + 1 \in S /\ S \in SUBSET Nat BY <1>1
<1>3. PICK m \in S : \A n \in S : m <= n
  <2> HIDE DEF S
  <2> QED BY <1>2, HasLeast
<1>4. m \in 1..Len(s) + 1 /\ (m <= Len(s) => ~ expired(s[m])) OBVIOUS
<1>5. ASSUME NEW j \in 1..m - 1 PROVE expired(s[j])
  <2>1. j \in 1..Len(s) /\ ~ (m <= j) BY <1>1, <1>4
  <2>2. j \notin S BY <2>1, <1>3
  <2> QED BY <2>1, <2>2, <1>1
<1>6. \E k \in 1..Len(s) + 1 :
        /\ \A j \in 1..k - 1 : expired(s[j])
        /\ k <= Len(s) => ~ expired(s[k])
  BY <1>4, <1>5
<1> QED BY <1>6 DEF FirstKept

\* expire only removes items.
LEMMA UnexpiredIsThinned ==
  ASSUME NEW s \in Seq(TinyCacheItem)
  PROVE  Thinned(Unexpired(s), s)
BY FirstKeptIsThere, FromIsThinned, SameIsThinned DEF Unexpired

\* expire_force only removes items, and enough of them.
LEMMA ForcedIsThinned ==
  ASSUME NEW s \in Seq(TinyCacheItem)
  PROVE  Thinned(Forced(s), s) /\ Len(Forced(s)) <= Limit
<1>1. Len(s) \in Nat /\ Limit \in Nat \ {0} BY LenProperties, CacheAssumption
<1>2. CASE Len(s) <= Limit BY <1>2, SameIsThinned DEF Forced
<1>3. CASE ~ (Len(s) <= Limit)
  <2> DEFINE Stops(k) == Enough(Len(s) + 1 - k) \/ k = Len(s) + 1
             S == {k \in 2..Len(s) + 1 : Stops(k)}
             First(k) == Stops(k) /\ \A j \in 2..k - 1 : ~ Enough(Len(s) + 1 - j)
             last == CHOOSE k \in 2..Len(s) + 1 : First(k)
  <2>1. Len(s) + 1 \in S /\ S \in SUBSET Nat BY <1>1, <1>3
  <2>2. PICK m \in S : \A n \in S : m <= n
    <3> HIDE DEF S
    <3> QED BY <2>1, HasLeast
  <2>3. m \in 2..Len(s) + 1 /\ Stops(m) BY <2>2
  <2>4. ASSUME NEW j \in 2..m - 1 PROVE ~ Enough(Len(s) + 1 - j)
    <3>1. j \in 2..Len(s) + 1 /\ ~ (m <= j) BY <1>1, <2>3
    <3>2. j \notin S BY <3>1, <2>2
    <3> QED BY <3>1, <3>2
  <2>5. First(m) BY <2>3, <2>4
  <2>6. last \in 2..Len(s) + 1 /\ First(last)
    <3> HIDE DEF First
    <3> QED BY <2>3, <2>5
  <2>7. Forced(s) = From(s, last) BY <1>3 DEF Forced
  <2> HIDE DEF last
  <2>8. Thinned(From(s, last), s) /\ Len(From(s, last)) = Len(s) + 1 - last
    BY <2>6, <1>1, FromIsThinned
  <2>9. Len(s) + 1 - last <= Limit BY <2>6, <1>1 DEF Enough
  <2> QED BY <2>7, <2>8, <2>9
<1> QED BY <1>2, <1>3

----------------------------------------------------------------------------
\* The invariant in terms of Sound.
LEMMA InvIsSound ==
  CacheInv <=> CacheTypeOK /\ Sound(store, latest, now + Timeout) /\ WithinLimit
BY DEF CacheInv, Sound, StoreInOrder, StoreIsLatest, NoneLater

\* A step that only thins the store keeps it sound, for the same latest values
\* and a bound no smaller.
LEMMA ThinningKeepsSound ==
  ASSUME CacheTypeOK, Sound(store, latest, now + Timeout), Thinned(store', store),
         now' = now, latest' = latest
  PROVE  store' \in Seq(TinyCacheItem) /\ Sound(store, latest, now + Timeout)'
<1>1. Sound(store', latest, now + Timeout) BY ThinnedIsSound DEF CacheTypeOK
<1> QED BY <1>1 DEF Sound, Thinned

\* A thinned store is no longer than the one it comes from.
LEMMA ThinnedIsShort ==
  ASSUME CacheTypeOK, WithinLimit, Thinned(store', store),
         options' = options, expire_force_scheduled' = expire_force_scheduled
  PROVE  WithinLimit'
<1>1. Len(store') \in Nat /\ Len(store) \in Nat /\ Limit \in Nat
  BY LenProperties, CacheAssumption DEF CacheTypeOK, Thinned
<1> QED BY <1>1 DEF WithinLimit, Thinned

\* Every cache starts sound.
LEMMA CacheInitInv == CacheInit => CacheInv
<1> SUFFICES ASSUME CacheInit PROVE CacheInv OBVIOUS
<1>1. store \in Seq(TinyCacheItem) /\ Len(store) = 0 BY EmptySeq DEF CacheInit
<1>2. CacheTypeOK BY <1>1 DEF CacheTypeOK, CacheInit
<1>3. \A k \in 1..Len(store) : FALSE BY <1>1
<1>4. StoreInOrder /\ StoreIsLatest /\ NoneLater BY <1>3 DEF StoreInOrder, StoreIsLatest, NoneLater
<1>5. WithinLimit BY <1>1, CacheAssumption DEF WithinLimit
<1> QED BY <1>2, <1>4, <1>5 DEF CacheInv

\* Each operation of the cache preserves the invariant.
LEMMA CacheStepInv == CacheInv /\ [CacheNext]_cacheVars => CacheInv'
<1> SUFFICES ASSUME CacheInv, [CacheNext]_cacheVars PROVE CacheInv' OBVIOUS
<1>1. CacheTypeOK /\ WithinLimit /\ Sound(store, latest, now + Timeout) BY InvIsSound
<1>2. store \in Seq(TinyCacheItem) BY <1>1 DEF CacheTypeOK
<1>3. now \in Nat /\ Timeout \in Nat BY <1>1, CacheAssumption DEF CacheTypeOK
<1>4. CASE Wait
  <2>1. CacheTypeOK' BY <1>1, <1>4 DEF CacheTypeOK, Wait
  <2>2. \A k \in 1..Len(store) : store[k].expires \in Nat
    <3>1. \A k \in 1..Len(store) : store[k] \in TinyCacheItem BY <1>2, ElementOfSeq
    <3> QED BY <3>1 DEF TinyCacheItem
  <2>3. StoreInOrder' /\ StoreIsLatest' /\ WithinLimit'
    BY <1>4 DEF CacheInv, Wait, StoreInOrder, StoreIsLatest, WithinLimit
  <2>4. NoneLater' BY <1>3, <1>4, <2>2 DEF CacheInv, NoneLater, Wait
  <2> QED BY <2>1, <2>3, <2>4 DEF CacheInv
<1>5. ASSUME NEW i \in Id, get(i) PROVE CacheInv'
  <2>1. Thinned(store', store) BY <1>2, <1>5, SameIsThinned, WithoutIsThinned DEF get
  <2>2. ASSUME Found(i) PROVE ItemOf(store, i).value \in Value
    <3>1. PlaceOf(store, i) \in 1..Len(store) BY <1>2, <2>2, PlaceOfKey DEF Found
    <3>2. store[PlaceOf(store, i)] \in TinyCacheItem BY <1>2, <3>1, ElementOfSeq
    <3> QED BY <3>2 DEF ItemOf, TinyCacheItem
  <2>3. answer' \in Value \cup {Miss} BY <1>5, <2>2 DEF get
  <2>4. store' \in Seq(TinyCacheItem) /\ Sound(store, latest, now + Timeout)'
    BY <1>1, <1>5, <2>1, ThinningKeepsSound DEF get
  <2>5. CacheTypeOK' BY <1>1, <1>5, <2>3, <2>4 DEF CacheTypeOK, get
  <2>6. WithinLimit' BY <1>1, <1>5, <2>1, ThinnedIsShort DEF get
  <2> QED BY <2>4, <2>5, <2>6, InvIsSound DEF CacheInv, Sound, StoreInOrder, StoreIsLatest, NoneLater
<1>6. ASSUME NEW i \in Id, del(i) PROVE CacheInv'
  <2> DEFINE l == [latest EXCEPT ![i] = NoItem]
  <2>1. Thinned(store', store) BY <1>2, <1>6, WithoutIsThinned DEF del
  <2>2. store' \in Seq(TinyCacheItem) /\ Sound(store', latest, now + Timeout)
    BY <1>1, <1>2, <2>1, ThinnedIsSound DEF Thinned
  <2>3. \A k \in 1..Len(store') : store'[k].id # i /\ store'[k].id \in Id
    <3>1. \A k \in 1..Len(store') : store'[k].id # i
      BY <1>1, <1>2, <1>6, WithoutIsThinned DEF del, Sound
    <3>2. \A k \in 1..Len(store') : store'[k] \in TinyCacheItem BY <2>2, ElementOfSeq
    <3> QED BY <3>1, <3>2 DEF TinyCacheItem
  <2>4. latest' \in [Id -> [value : Value, expires : Nat] \cup {NoItem}]
        /\ \A x \in Id : x # i => latest'[x] = latest[x]
    BY <1>1, <1>6 DEF del, CacheTypeOK
  <2>5. CacheTypeOK' BY <1>1, <1>6, <2>2, <2>4 DEF CacheTypeOK, del
  <2>6. WithinLimit' BY <1>1, <1>6, <2>1, ThinnedIsShort DEF del
  <2>7. StoreInOrder' BY <2>2 DEF StoreInOrder, Sound
  <2>8. NoneLater' BY <2>2, <1>6 DEF NoneLater, Sound, del
  <2>9. StoreIsLatest' BY <2>2, <2>3, <2>4 DEF StoreIsLatest, Sound
  <2> QED BY <2>5, <2>6, <2>7, <2>8, <2>9 DEF CacheInv
<1>7. ASSUME NEW i \in Id, NEW v \in Value, set(i, v) PROVE CacheInv'
  <2> DEFINE s == Added(i, v)
             l == [latest EXCEPT ![i] = [value |-> v, expires |-> now + Timeout]]
  <2>1. s \in Seq(TinyCacheItem) /\ Sound(s, l, now + Timeout) BY <1>1, AddedIsSound
  <2>2. Thinned(store', s)
    BY <1>7, <2>1, SameIsThinned, UnexpiredIsThinned DEF set, expire
  <2> HIDE DEF s, l
  <2>3. store' \in Seq(TinyCacheItem) /\ Sound(store', l, now + Timeout)
    BY <2>1, <2>2, ThinnedIsSound DEF Thinned
  <2>4. latest' = l /\ now' = now /\ options' = options /\ answer' = answer
    BY <1>7 DEF set, l
  <2>5. latest' \in [Id -> [value : Value, expires : Nat] \cup {NoItem}]
    BY <1>1, <1>3, <2>4 DEF CacheTypeOK, l
  <2>6. expire_force_scheduled' \in BOOLEAN BY <1>1, <1>7 DEF set, expire, CacheTypeOK
  <2>7. CacheTypeOK' BY <1>1, <2>3, <2>4, <2>5, <2>6 DEF CacheTypeOK
  <2>8. StoreInOrder' /\ StoreIsLatest' /\ NoneLater'
    BY <2>3, <2>4 DEF Sound, StoreInOrder, StoreIsLatest, NoneLater
  <2>9. WithinLimit'
    <3> SUFFICES ASSUME ~ options.bg_expire, ~ expire_force_scheduled'
                 PROVE  Len(store') <= Limit
      BY <2>4 DEF WithinLimit
    <3>1. Len(store') \in Nat /\ Len(s) \in Nat /\ Limit \in Nat
      BY <2>1, <2>3, LenProperties, CacheAssumption
    <3>2. CASE OverLimit(s)
      <4>1. store' = Unexpired(s) /\ ~ OverLimit(Unexpired(s))
        BY <1>7, <3>2 DEF set, expire, s
      <4> QED BY <4>1, <3>1 DEF OverLimit
    <3>3. CASE ~ OverLimit(s)
      <4>1. store' = s BY <1>7, <3>3 DEF set, s
      <4> QED BY <4>1, <3>1, <3>3 DEF OverLimit
    <3> QED BY <3>2, <3>3
  <2> QED BY <2>7, <2>8, <2>9 DEF CacheInv
<1>8. CASE Expire
  <2>1. Thinned(store', store) BY <1>2, <1>8, UnexpiredIsThinned DEF Expire, expire
  <2>2. store' \in Seq(TinyCacheItem) /\ Sound(store, latest, now + Timeout)'
    BY <1>1, <1>8, <2>1, ThinningKeepsSound DEF Expire
  <2>3. CacheTypeOK' BY <1>1, <1>8, <2>2 DEF CacheTypeOK, Expire, expire
  <2>4. WithinLimit' BY <1>8 DEF Expire, WithinLimit
  <2> QED BY <2>2, <2>3, <2>4 DEF CacheInv, Sound, StoreInOrder, StoreIsLatest, NoneLater
<1>9. CASE drop
  <2>1. store' \in Seq(TinyCacheItem) /\ Len(store') = 0 BY <1>9, EmptySeq DEF drop
  <2>2. CacheTypeOK' BY <1>1, <1>9, <2>1 DEF CacheTypeOK, drop
  <2>3. \A k \in 1..Len(store') : FALSE BY <2>1
  <2>4. StoreInOrder' /\ StoreIsLatest' /\ NoneLater'
    BY <2>3 DEF StoreInOrder, StoreIsLatest, NoneLater
  <2>5. WithinLimit' BY <2>1, CacheAssumption DEF WithinLimit
  <2> QED BY <2>2, <2>4, <2>5 DEF CacheInv
<1>10. CASE expire_force
  <2>1. Thinned(store', store) /\ Len(store') <= Limit
    BY <1>2, <1>10, ForcedIsThinned DEF expire_force
  <2>2. store' \in Seq(TinyCacheItem) /\ Sound(store, latest, now + Timeout)'
    BY <1>1, <1>10, <2>1, ThinningKeepsSound DEF expire_force
  <2>3. CacheTypeOK' BY <1>1, <1>10, <2>2 DEF CacheTypeOK, expire_force
  <2>4. WithinLimit' BY <2>1 DEF WithinLimit
  <2> QED BY <2>2, <2>3, <2>4 DEF CacheInv, Sound, StoreInOrder, StoreIsLatest, NoneLater
<1>11. CASE UNCHANGED cacheVars
  BY <1>11 DEF CacheInv, CacheTypeOK, StoreInOrder, StoreIsLatest, NoneLater, WithinLimit, cacheVars
<1> QED BY <1>4, <1>5, <1>6, <1>7, <1>8, <1>9, <1>10, <1>11 DEF CacheNext

\* The inductive invariant holds of every behaviour of a cache.
LEMMA CacheInvariant == CacheSpec => []CacheInv
BY CacheInitInv, CacheStepInv, PTL DEF CacheSpec

\* The store is a sequence of items, whatever is set, expires or is forced out.
THEOREM CacheTypeCorrect == CacheSpec => []CacheTypeOK
<1>1. CacheInv => CacheTypeOK BY DEF CacheInv
<1> QED BY <1>1, CacheInvariant, PTL

\* Of oa-tinycache set, get, del and expire: a key is held once and the store
\* stays in the order of expiry, on which expire depends to stop where it does.
THEOREM CacheInOrder == CacheSpec => []StoreInOrder
<1>1. CacheInv => StoreInOrder BY DEF CacheInv
<1> QED BY <1>1, CacheInvariant, PTL

\* Of expire and expire_force: a cache without the expiry timer is over its
\* limit only until the next tick, whatever its limit.
THEOREM CacheWithinLimit == CacheSpec => []WithinLimit
<1>1. CacheInv => WithinLimit BY DEF CacheInv
<1> QED BY <1>1, CacheInvariant, PTL

----------------------------------------------------------------------------
\* Every operation of the cache is a step its client may expect, or none.
LEMMA CacheStepServes ==
  CacheInv /\ [CacheNext]_cacheVars => [Contract!Next]_Contract!vars
<1> SUFFICES ASSUME CacheInv, [CacheNext]_cacheVars
             PROVE  [Contract!Next]_Contract!vars
  OBVIOUS
<1>1. CASE Wait BY <1>1 DEF Wait, Contract!Next, Contract!Wait
<1>2. ASSUME NEW i \in Id, get(i) PROVE Contract!Next
  <2>1. CASE Found(i)
    <3> DEFINE p == PlaceOf(store, i)
    <3>1. store \in Seq(TinyCacheItem) BY DEF CacheInv, CacheTypeOK
    <3>2. p \in 1..Len(store) /\ store[p].id = i BY <2>1, <3>1, PlaceOfKey DEF Found
    <3>3. store[p] \in TinyCacheItem BY <3>1, <3>2, ElementOfSeq
    <3>4. latest[i] = [value |-> store[p].value, expires |-> store[p].expires]
      BY <3>2 DEF CacheInv, StoreIsLatest
    <3>5. ~ (now > store[p].expires) /\ answer' = store[p].value
      BY <1>2, <2>1 DEF Found, get, ItemOf, expired
    <3>6. now <= store[p].expires
      BY <3>3, <3>5 DEF CacheInv, CacheTypeOK, TinyCacheItem
    <3>7. latest[i] # Contract!NoItem
      <4>1. store[p].value # "none" BY <3>3, CacheAssumption DEF TinyCacheItem
      <4> QED BY <4>1, <3>4 DEF Contract!NoItem
    <3>8. latest[i].value = store[p].value /\ latest[i].expires = store[p].expires BY <3>4
    <3>9. Contract!Lookup(i)
      BY <1>2, <3>5, <3>6, <3>7, <3>8 DEF Contract!Lookup, get
    <3> QED BY <3>9 DEF Contract!Next
  <2>2. CASE ~ Found(i)
    <3>1. Contract!Lookup(i)
      BY <1>2, <2>2 DEF get, Contract!Lookup, Miss, Contract!Miss
    <3> QED BY <3>1 DEF Contract!Next
  <2> QED BY <2>1, <2>2
<1>3. ASSUME NEW i \in Id, del(i) PROVE Contract!Next
  <2>1. Contract!Forget(i) BY <1>3 DEF del, Contract!Forget, NoItem, Contract!NoItem
  <2> QED BY <2>1 DEF Contract!Next
<1>4. ASSUME NEW i \in Id, NEW v \in Value, set(i, v) PROVE Contract!Next
  <2>1. Contract!Store(i, v) BY <1>4 DEF set, Contract!Store
  <2> QED BY <2>1 DEF Contract!Next
<1>5. CASE Expire BY <1>5 DEF Expire, Contract!vars
<1>6. CASE drop
  BY <1>6 DEF drop, Contract!Next, Contract!ForgetAll, NoItem, Contract!NoItem
<1>7. CASE expire_force BY <1>7 DEF expire_force, Contract!vars
<1>8. CASE UNCHANGED cacheVars BY <1>8 DEF cacheVars, Contract!vars
<1> QED BY <1>1, <1>2, <1>3, <1>4, <1>5, <1>6, <1>7, <1>8 DEF CacheNext

\* oa-tinycache keeps the contract of a cache for all keys, values, timeouts,
\* limits and settings: no lookup is answered with a value that was replaced,
\* deleted or has expired.
THEOREM CacheServesLatest == CacheSpec => ServesLatest
<1>1. CacheInit => Contract!Init
  BY DEF CacheInit, Contract!Init, NoItem, Contract!NoItem, Miss, Contract!Miss
<1> QED BY <1>1, CacheStepServes, CacheInvariant, PTL DEF CacheSpec, ServesLatest, Contract!Spec
----------------------------------------------------------------------------
(* The token check of the http agent                                       *)

\* A change of the service's mind about a token is not in the future, and a call
\* that is under way has taken no longer than it may.
CallsInTime ==
  /\ \A t \in Token : lastValid[t] <= now
  /\ \A r \in Request :
       requests[r].state # "settled" =>
         requests[r].asked <= now /\ now <= requests[r].asked + Latency

\* A token the service found was valid at some time after it was asked about.
FoundWasValid ==
  \A r \in Request :
    requests[r].state = "replied" /\ requests[r].reply = "found" =>
      \/ requests[r].token \in valid
      \/ requests[r].asked <= lastValid[requests[r].token]

\* A reply that found a token does not outlive the token's withdrawal by more
\* than the lifetime of an item and the time of a call.
FoundExpires ==
  \A k \in 1..Len(store) :
    store[k].value = "found" /\ store[k].id \in Token =>
      \/ store[k].id \in valid
      \/ store[k].expires <= lastValid[store[k].id] + Timeout + Latency

HttpInv ==
  /\ CacheInv /\ HttpTypeOK
  /\ CallsInTime /\ FoundWasValid /\ FoundExpires
  /\ WithdrawnInTime

\* The agent uses its cache as CacheNext allows.
LEMMA HttpUsesCache ==
  ASSUME HttpTypeOK, HttpNext
  PROVE  [CacheNext]_cacheVars
<1>1. ASSUME NEW r \in Request, ServiceReplies(r) PROVE UNCHANGED cacheVars
  BY <1>1 DEF ServiceReplies
<1>2. ASSUME NEW r \in Request, ReplyArrives(r) PROVE [CacheNext]_cacheVars
  <2>1. requests[r] \in TokenCheck /\ requests[r].state = "replied"
    BY <1>2 DEF HttpTypeOK, ReplyArrives
  <2>2. requests[r].token \in Id /\ requests[r].reply \in Value \cup {"failed"}
    BY <2>1, HttpAssumption DEF TokenCheck
  <2> QED
    BY <1>2, <2>2 DEF ReplyArrives, CacheNext
<1>3. ASSUME NEW r \in Request, NEW t \in Token, checkTokenAsync(r, t) PROVE CacheNext
  BY <1>3, HttpAssumption DEF checkTokenAsync, CacheNext
<1>4. ASSUME NEW t \in Token, ServiceChanges(t) PROVE UNCHANGED cacheVars
  BY <1>4 DEF ServiceChanges
<1>5. CASE Later
  BY <1>5 DEF Later, CacheNext
<1>6. CASE NextTick
  BY <1>6 DEF NextTick, CacheNext
<1> QED
  BY <1>1, <1>2, <1>3, <1>4, <1>5, <1>6 DEF HttpNext

\* Every operation but set leaves in the store only what was in it.
LEMMA ThinningKeepsExpiry ==
  ASSUME FoundExpires, Thinned(store', store), UNCHANGED <<valid, lastValid>>
  PROVE  FoundExpires'
<1>1. \A k \in 1..Len(store') : \E j \in 1..Len(store) : store'[k] = store[j]
  BY DEF Thinned
<1> QED
  BY <1>1 DEF FoundExpires

\* How long a token has been withdrawn.
LEMMA StaleType ==
  ASSUME HttpTypeOK, CallsInTime, NEW t \in Token
  PROVE  Stale(t) \in Nat
BY DEF Stale, HttpTypeOK, CacheTypeOK, CallsInTime

\* A request that is decided has the type of a settled one.
LEMMA DecidedFacts ==
  ASSUME HttpTypeOK, CallsInTime, NEW t \in Token, NEW body
  PROVE  /\ Decided(t, body) \in TokenCheck
         /\ Decided(t, body).state = "settled"
         /\ Decided(t, body).stale = IF body = "found" THEN Stale(t) ELSE 0
BY StaleType DEF Decided, Idle, Passes, TokenCheck

\* A request is answered out of the cache, or the service is asked.
LEMMA HttpCheckToken ==
  ASSUME HttpInv, NEW r \in Request, NEW t \in Token, checkTokenAsync(r, t)
  PROVE  HttpTypeOK' /\ CallsInTime' /\ FoundWasValid' /\ FoundExpires' /\ WithdrawnInTime'
<1>1. /\ CacheTypeOK' /\ t \in Id /\ get(t) /\ UNCHANGED <<valid, lastValid, now>>
      /\ store \in Seq(TinyCacheItem) /\ now \in Nat
  <2>1. [CacheNext]_cacheVars /\ t \in Id
    BY HttpAssumption DEF checkTokenAsync, CacheNext
  <2> QED
    BY <2>1, CacheStepInv DEF HttpInv, CacheInv, checkTokenAsync, get, CacheTypeOK
<1>2. requests' = [requests EXCEPT ![r] = requests'[r]] /\ requests[r] \in TokenCheck
  BY DEF checkTokenAsync, HttpInv, HttpTypeOK
<1>3. FoundExpires'
  BY <1>1, SameIsThinned, WithoutIsThinned, ThinningKeepsExpiry DEF get, HttpInv
<1>4. CASE Found(t)
  <2> DEFINE item == ItemOf(store, t)
  <2>1. requests'[r] = Decided(t, item.value)
    BY <1>4 DEF checkTokenAsync, HttpInv, HttpTypeOK
  <2>2. requests'[r] \in TokenCheck /\ requests'[r].state = "settled"
        /\ requests'[r].stale = IF item.value = "found" THEN Stale(t) ELSE 0
    BY <2>1, DecidedFacts DEF HttpInv
  <2>3. requests'[r].stale <= Timeout + Latency
    <3>1. PICK k \in 1..Len(store) : item = store[k] /\ item.id = t
      BY <1>1, <1>4, PlaceOfKey DEF Found, ItemOf
    <3>2. item \in TinyCacheItem /\ ~(now > item.expires)
      BY <1>1, <1>4, <3>1, ElementOfSeq DEF Found, expired
    <3> HIDE DEF item
    <3>3. item.value = "found" => t \in valid \/ item.expires <= lastValid[t] + Timeout + Latency
      BY <3>1 DEF HttpInv, FoundExpires
    <3>4. lastValid[t] \in Nat /\ Timeout \in Nat /\ Latency \in Nat /\ item.expires \in Nat
      BY <3>2, CacheAssumption, HttpAssumption DEF HttpInv, HttpTypeOK, TinyCacheItem
    <3> QED
      BY <1>1, <2>2, <3>2, <3>3, <3>4, SMTT(30) DEF Stale
  <2>4. HttpTypeOK'
    BY <1>1, <1>2, <2>2 DEF HttpInv, HttpTypeOK
  <2>5. CallsInTime' /\ FoundWasValid' /\ WithdrawnInTime'
    BY <1>1, <1>2, <2>2, <2>3 DEF HttpInv, HttpTypeOK, CallsInTime, FoundWasValid, WithdrawnInTime
  <2> QED
    BY <1>3, <2>4, <2>5
<1>5. CASE ~Found(t)
  <2> DEFINE asks == [state |-> "asking", token |-> t, asked |-> now]
  <2>1. requests'[r] = asks
    BY <1>5 DEF checkTokenAsync, HttpInv, HttpTypeOK
  <2>2. asks \in TokenCheck
    BY <1>1 DEF TokenCheck
  <2>3. asks.state = "asking" /\ asks.asked = now
    OBVIOUS
  <2> HIDE DEF asks
  <2>4. HttpTypeOK'
    BY <1>1, <1>2, <2>1, <2>2 DEF HttpInv, HttpTypeOK
  <2>5. CallsInTime' /\ FoundWasValid' /\ WithdrawnInTime'
    BY <1>1, <1>2, <2>1, <2>3, HttpAssumption
    DEF HttpInv, HttpTypeOK, CallsInTime, FoundWasValid, WithdrawnInTime
  <2> QED
    BY <1>3, <2>4, <2>5
<1> QED
  BY <1>4, <1>5

\* The service makes up its mind.
LEMMA HttpServiceReplies ==
  ASSUME HttpInv, NEW r \in Request, ServiceReplies(r)
  PROVE  HttpTypeOK' /\ CallsInTime' /\ FoundWasValid' /\ FoundExpires' /\ WithdrawnInTime'
<1>1. UNCHANGED <<cacheVars, valid, lastValid>> /\ UNCHANGED <<now, store>>
  BY DEF ServiceReplies, cacheVars
<1>2. requests[r] \in TokenCheck /\ requests[r].state = "asking"
  BY DEF ServiceReplies, HttpInv, HttpTypeOK
<1>3. requests[r].token \in Token /\ requests[r].asked \in Nat
  BY <1>2 DEF TokenCheck
<1>4. PICK reply \in {"failed", IF requests[r].token \in valid THEN "found" ELSE "refused"} :
        requests' = [requests EXCEPT ![r] =
          [state |-> "replied", token |-> requests[r].token, asked |-> requests[r].asked,
           reply |-> reply]]
  BY DEF ServiceReplies
<1> DEFINE replied == [state |-> "replied", token |-> requests[r].token,
                       asked |-> requests[r].asked, reply |-> reply]
<1>5. replied \in TokenCheck
  BY <1>3, HttpAssumption DEF TokenCheck
<1>6. /\ replied.state = "replied" /\ replied.token = requests[r].token
      /\ replied.asked = requests[r].asked /\ replied.reply = reply
  OBVIOUS
<1>7. requests' = [requests EXCEPT ![r] = replied]
  BY <1>4
<1> HIDE DEF replied
<1>8. HttpTypeOK'
  BY <1>1, <1>5, <1>7 DEF HttpInv, HttpTypeOK, CacheTypeOK, cacheVars
<1>9. FoundWasValid'
  BY <1>1, <1>4, <1>6, <1>7 DEF HttpInv, HttpTypeOK, FoundWasValid
<1>10. CallsInTime'
  BY <1>1, <1>2, <1>6, <1>7 DEF HttpInv, HttpTypeOK, CallsInTime
<1>11. FoundExpires' /\ WithdrawnInTime'
  BY <1>1, <1>6, <1>7 DEF HttpInv, HttpTypeOK, FoundExpires, WithdrawnInTime
<1> QED
  BY <1>8, <1>9, <1>10, <1>11

\* A reply arrives, in whatever order: it decides its request and is cached.
LEMMA HttpReplyArrives ==
  ASSUME HttpInv, NEW r \in Request, ReplyArrives(r)
  PROVE  HttpTypeOK' /\ CallsInTime' /\ FoundWasValid' /\ FoundExpires' /\ WithdrawnInTime'
<1> DEFINE t == requests[r].token
           reply == requests[r].reply
<1>1. requests[r] \in TokenCheck /\ requests[r].state = "replied"
  BY DEF ReplyArrives, HttpInv, HttpTypeOK
<1>2. t \in Token /\ t \in Id /\ requests[r].asked \in Nat /\ reply \in Value \cup {"failed"}
  BY <1>1, HttpAssumption DEF TokenCheck
<1>3. /\ requests' = [requests EXCEPT ![r] = Decided(t, reply)]
      /\ UNCHANGED <<valid, lastValid>>
      /\ IF reply = "failed" THEN UNCHANGED cacheVars ELSE set(t, reply)
  BY DEF ReplyArrives
<1>4. UNCHANGED now /\ now \in Nat /\ lastValid[t] \in Nat /\ Timeout \in Nat /\ Latency \in Nat
      /\ store \in Seq(TinyCacheItem) /\ latest \in [Id -> [value : Value, expires : Nat] \cup {NoItem}]
  BY <1>2, <1>3, CacheAssumption, HttpAssumption
  DEF HttpInv, HttpTypeOK, CacheTypeOK, set, cacheVars
<1>5. requests[r].asked <= now /\ now <= requests[r].asked + Latency
  BY <1>1 DEF HttpInv, CallsInTime
<1>6. reply = "found" => t \in valid \/ requests[r].asked <= lastValid[t]
  BY <1>1 DEF HttpInv, FoundWasValid
<1>7. CacheTypeOK'
  <2>1. [CacheNext]_cacheVars
    BY <1>2, <1>3 DEF CacheNext
  <2> QED
    BY <2>1, CacheStepInv DEF HttpInv, CacheInv
<1> HIDE DEF t, reply
<1>8. /\ Decided(t, reply) \in TokenCheck /\ Decided(t, reply).state = "settled"
      /\ Decided(t, reply).stale = IF reply = "found" THEN Stale(t) ELSE 0
  BY <1>2, DecidedFacts DEF HttpInv
<1>9. Decided(t, reply).stale <= Timeout + Latency
  BY <1>2, <1>4, <1>5, <1>6, <1>8 DEF Stale
<1>10. HttpTypeOK'
  BY <1>3, <1>7, <1>8 DEF HttpInv, HttpTypeOK
<1>11. CallsInTime' /\ FoundWasValid' /\ WithdrawnInTime'
  BY <1>3, <1>4, <1>8, <1>9 DEF HttpInv, HttpTypeOK, CallsInTime, FoundWasValid, WithdrawnInTime
<1>12. FoundExpires'
  <2>1. CASE reply = "failed"
    BY <1>3, <2>1 DEF HttpInv, FoundExpires, cacheVars
  <2>2. CASE reply # "failed"
    <3> DEFINE s == Added(t, reply)
    <3>1. set(t, reply) /\ reply \in Value
      BY <1>2, <1>3, <2>2
    <3>2. Thinned(Without(store, t), store)
      BY <1>2, <1>4, WithoutIsThinned
    <3>3. s \in Seq(TinyCacheItem)
      BY <1>2, <1>4, <3>1, AddedIsSound DEF HttpInv, CacheInv, Sound, StoreInOrder, StoreIsLatest, NoneLater
    <3>4. Thinned(store', s)
      BY <3>1, <3>3, SameIsThinned, UnexpiredIsThinned DEF set, expire
    <3>5. ASSUME NEW k \in 1..Len(s)
          PROVE  \/ s[k] = [id |-> t, value |-> reply, expires |-> now + Timeout]
                 \/ \E j \in 1..Len(store) : s[k] = store[j]
      <4>1. Without(store, t) \in Seq(TinyCacheItem)
            /\ \A j \in 1..Len(Without(store, t)) :
                 \E m \in 1..Len(store) : Without(store, t)[j] = store[m]
        BY <3>2 DEF Thinned
      <4>2. \/ s[k] = [id |-> t, value |-> reply, expires |-> now + Timeout]
            \/ k \in 1..Len(Without(store, t)) /\ s[k] = Without(store, t)[k]
        <5> DEFINE w == Without(store, t)
                   item == [id |-> t, value |-> reply, expires |-> now + Timeout]
        <5>1. w \in Seq(TinyCacheItem) /\ item \in TinyCacheItem
          BY <1>2, <1>4, <3>1, <4>1 DEF TinyCacheItem
        <5>2. s = Append(w, item) /\ k \in 1..Len(s)
          BY DEF Added
        <5> HIDE DEF w, item, s
        <5>3. s[k] = item \/ (k \in 1..Len(w) /\ s[k] = w[k])
          BY <5>1, <5>2
        <5> QED
          BY <5>3 DEF w, item
      <4> QED
        BY <4>1, <4>2
    <3> HIDE DEF s
    <3>6. ASSUME NEW k \in 1..Len(store'),
                 store'[k].value = "found", store'[k].id \in Token
          PROVE  \/ store'[k].id \in valid
                 \/ store'[k].expires <= lastValid[store'[k].id] + Timeout + Latency
      <4>1. PICK m \in 1..Len(s) : store'[k] = s[m]
        BY <3>4 DEF Thinned
      <4>2. CASE s[m] = [id |-> t, value |-> reply, expires |-> now + Timeout]
        <5>1. store'[k].id = t /\ reply = "found" /\ store'[k].expires = now + Timeout
          BY <3>6, <4>1, <4>2
        <5>2. t \in valid \/ requests[r].asked <= lastValid[t]
          BY <1>6, <5>1
        <5> DEFINE asked == requests[r].asked
                   last == lastValid[t]
        <5>3. /\ asked \in Nat /\ last \in Nat /\ now \in Nat /\ Timeout \in Nat /\ Latency \in Nat
              /\ now <= asked + Latency
          BY <1>2, <1>4, <1>5
        <5>4. asked <= last => now + Timeout <= last + Timeout + Latency
          <6> HIDE DEF asked, last
          <6> QED
            BY <5>3
        <5> QED
          BY <5>1, <5>2, <5>4
      <4>3. CASE \E j \in 1..Len(store) : s[m] = store[j]
        BY <3>6, <4>1, <4>3 DEF HttpInv, FoundExpires
      <4> QED
        BY <3>5, <4>2, <4>3
    <3> QED
      BY <1>3, <3>6 DEF FoundExpires
  <2> QED
    BY <2>1, <2>2
<1> QED
  BY <1>10, <1>11, <1>12

\* The service learns of a token, or withdraws it: what was found stays good
\* for a while, as no item outlives one that were set now.
LEMMA HttpServiceChanges ==
  ASSUME HttpInv, NEW t \in Token, ServiceChanges(t)
  PROVE  HttpTypeOK' /\ CallsInTime' /\ FoundWasValid' /\ FoundExpires' /\ WithdrawnInTime'
<1>1. /\ UNCHANGED <<cacheVars, requests>> /\ UNCHANGED <<now, store>>
      /\ lastValid' = [lastValid EXCEPT ![t] = now]
      /\ valid' \subseteq Token /\ \A u \in Token : u # t => (u \in valid' <=> u \in valid)
  BY DEF ServiceChanges, cacheVars, HttpInv, HttpTypeOK
<1>2. now \in Nat /\ lastValid \in [Token -> Nat] /\ Timeout \in Nat /\ Latency \in Nat
      /\ store \in Seq(TinyCacheItem)
  BY CacheAssumption, HttpAssumption DEF HttpInv, HttpTypeOK, CacheTypeOK
<1>3. HttpTypeOK'
  BY <1>1, <1>2 DEF HttpInv, HttpTypeOK, CacheTypeOK, cacheVars
<1>4. CallsInTime' /\ WithdrawnInTime'
  BY <1>1, <1>2 DEF HttpInv, CallsInTime, WithdrawnInTime
<1>5. FoundWasValid'
  <2> SUFFICES ASSUME NEW r \in Request, requests[r].state = "replied", requests[r].reply = "found"
               PROVE  \/ requests[r].token \in valid'
                      \/ requests[r].asked <= lastValid'[requests[r].token]
    BY <1>1 DEF FoundWasValid
  <2>1. requests[r].token \in Token
    BY DEF HttpInv, HttpTypeOK, TokenCheck
  <2>2. requests[r].asked <= now
    BY DEF HttpInv, CallsInTime
  <2> QED
    BY <1>1, <1>2, <2>1, <2>2 DEF HttpInv, FoundWasValid
<1>6. FoundExpires'
  <2> SUFFICES ASSUME NEW k \in 1..Len(store), store[k].value = "found", store[k].id \in Token
               PROVE  \/ store[k].id \in valid'
                      \/ store[k].expires <= lastValid'[store[k].id] + Timeout + Latency
    BY <1>1 DEF FoundExpires
  <2>1. store[k] \in TinyCacheItem
    BY <1>2, ElementOfSeq
  <2>2. store[k].expires \in Nat /\ store[k].expires <= now + Timeout
    BY <2>1 DEF TinyCacheItem, HttpInv, CacheInv, NoneLater
  <2> QED
    BY <1>1, <1>2, <2>2 DEF HttpInv, FoundExpires
<1> QED
  BY <1>3, <1>4, <1>5, <1>6

\* Time passes, or the next tick comes.
LEMMA HttpTimePasses ==
  ASSUME HttpInv, Later \/ NextTick
  PROVE  HttpTypeOK' /\ CallsInTime' /\ FoundWasValid' /\ FoundExpires' /\ WithdrawnInTime'
<1>1. UNCHANGED <<requests, valid, lastValid>>
  BY DEF Later, NextTick
<1>2. CacheTypeOK' /\ store \in Seq(TinyCacheItem)
  <2>1. [CacheNext]_cacheVars
    BY DEF Later, NextTick, CacheNext
  <2> QED
    BY <2>1, CacheStepInv DEF HttpInv, CacheInv, CacheTypeOK
<1>3. now \in Nat /\ Latency \in Nat /\ lastValid \in [Token -> Nat]
  BY HttpAssumption DEF HttpInv, HttpTypeOK, CacheTypeOK
<1>4. HttpTypeOK' /\ FoundWasValid' /\ WithdrawnInTime'
  BY <1>1, <1>2 DEF HttpInv, HttpTypeOK, FoundWasValid, WithdrawnInTime
<1>5. CallsInTime'
  <2>1. ASSUME NEW r \in Request, requests[r].state # "settled"
        PROVE  requests[r].asked \in Nat
    BY <2>1 DEF HttpInv, HttpTypeOK, TokenCheck
  <2>2. CASE Later
    BY <1>1, <1>3, <2>1, <2>2 DEF Later, Wait, HttpInv, CallsInTime
  <2>3. CASE NextTick
    BY <1>1, <2>3 DEF NextTick, expire_force, HttpInv, CallsInTime
  <2> QED
    BY <2>2, <2>3
<1>6. FoundExpires'
  <2>1. Thinned(store', store)
    BY <1>2, SameIsThinned, ForcedIsThinned DEF Later, Wait, NextTick, expire_force
  <2> QED
    BY <1>1, <2>1, ThinningKeepsExpiry DEF HttpInv
<1> QED
  BY <1>4, <1>5, <1>6

LEMMA HttpStepInv == HttpInv /\ [HttpNext]_httpVars => HttpInv'
<1> SUFFICES ASSUME HttpInv, [HttpNext]_httpVars PROVE HttpInv'
  OBVIOUS
<1>1. CASE HttpNext
  <2>1. CacheInv'
    BY <1>1, HttpUsesCache, CacheStepInv DEF HttpInv
  <2>2. HttpTypeOK' /\ CallsInTime' /\ FoundWasValid' /\ FoundExpires' /\ WithdrawnInTime'
    BY <1>1, HttpCheckToken, HttpServiceReplies, HttpReplyArrives, HttpServiceChanges,
       HttpTimePasses
    DEF HttpNext
  <2> QED
    BY <2>1, <2>2 DEF HttpInv
<1>2. CASE UNCHANGED httpVars
  <2>1. UNCHANGED <<requests, valid, lastValid, now, store>> /\ UNCHANGED cacheVars
    BY <1>2 DEF httpVars, cacheVars
  <2>2. CacheInv'
    BY <2>1, CacheStepInv DEF HttpInv
  <2> QED
    BY <2>1, <2>2
    DEF HttpInv, HttpTypeOK, CacheInv, CallsInTime, FoundWasValid, FoundExpires, WithdrawnInTime
<1> QED
  BY <1>1, <1>2

LEMMA HttpInitInv == HttpInit => HttpInv
<1> SUFFICES ASSUME HttpInit PROVE HttpInv
  OBVIOUS
<1>1. CacheInv /\ Len(store) = 0 /\ now = 0
  BY CacheInitInv, EmptySeq DEF HttpInit, CacheInit
<1>2. Idle \in TokenCheck /\ Idle.state = "settled" /\ Idle.stale = 0
  BY DEF Idle, TokenCheck
<1>3. HttpTypeOK
  BY <1>1, <1>2 DEF HttpTypeOK, HttpInit, CacheInv
<1>4. FoundExpires
  BY <1>1 DEF FoundExpires
<1>5. CallsInTime /\ FoundWasValid
  BY <1>1, <1>2 DEF CallsInTime, FoundWasValid, HttpInit
<1>6. WithdrawnInTime
  BY <1>2, CacheAssumption, HttpAssumption DEF WithdrawnInTime, HttpInit
<1> QED
  BY <1>1, <1>3, <1>4, <1>5, <1>6 DEF HttpInv

\* A process that is not an http agent has no requests.
TokensInv == IF agent_type = "http" THEN HttpInv ELSE WithdrawnInTime

\* A withdrawn token passes the check of the http agent no longer than a cached
\* reply lives and one call may take, for any tokens, requests and times.
THEOREM HttpWithdrawnInTime == Spec => []WithdrawnInTime
<1>1. Init => TokensInv
  BY HttpInitInv DEF Init, TokensInv, HttpInv
<1>2. TokensInv /\ [Next]_inputVars => TokensInv'
  <2> SUFFICES ASSUME TokensInv, [Next]_inputVars PROVE TokensInv'
    OBVIOUS
  <2>1. CASE Http
    BY <2>1, HttpStepInv DEF Http, TokensInv
  <2>2. CASE Cache
    BY <2>2 DEF Cache, TokensInv, WithdrawnInTime
  <2>3. CASE Tailer \/ UNCHANGED inputVars
    <3>1. UNCHANGED agent_type /\ UNCHANGED httpVars /\ UNCHANGED requests
      BY <2>3 DEF Tailer, inputVars, httpVars
    <3>2. CASE agent_type = "http"
      BY <3>1, <3>2, HttpStepInv DEF TokensInv
    <3>3. CASE agent_type # "http"
      BY <3>1, <3>3 DEF TokensInv, WithdrawnInTime
    <3> QED
      BY <3>2, <3>3
  <2> QED
    BY <2>1, <2>2, <2>3 DEF Next
<1>3. TokensInv => WithdrawnInTime
  BY DEF TokensInv, HttpInv
<1> QED
  BY <1>1, <1>2, <1>3, PTL DEF Spec
----------------------------------------------------------------------------
(* The log tailer: the places of a log                                     *)

\* Where line q of a file begins, the first being line 0.
At(q) == (Width + 1) * q

Boundary == {At(q) : q \in Nat}

\* The log holds whole lines, numbered in a row up to the last one written.
LogOf(log, last, whole) ==
  /\ Len(log) = At(whole)
  /\ \A q \in 0..whole - 1 :
       /\ \A i \in 1..Width : log[At(q) + i] = <<last - whole + q + 1, i>>
       /\ log[At(q) + Width + 1] = Newline

FileInv == \E whole \in 0..lines : LogOf(file, lines, whole)

\* Streams lie between two places where lines begin, the one before the other,
\* and none reaches beyond what has been polled.
StreamsInv ==
  /\ size \in Boundary
  /\ touched # "shrunk" => size <= Len(file)
  /\ touched = "shrunk" => streams = <<>>
  /\ \A k \in 1..Len(streams) :
       /\ streams[k].start \in Boundary /\ streams[k].end \in Boundary
       /\ streams[k].start <= streams[k].next /\ streams[k].next <= streams[k].end + 1
       /\ streams[k].end <= size
  /\ \A j, k \in 1..Len(streams) : j < k => streams[j].end <= streams[k].start

\* The second character of a line, of which every whole copy has one, is in no
\* stream's reach once the line has been handed on.
Past(p) ==
  /\ p <= size
  /\ \A k \in 1..Len(streams) : ~(streams[k].next < p /\ p <= streams[k].end + 1)

HandedOnIsPast ==
  \A p \in 1..Len(file), n \in 1..lines :
    file[p] = <<n, 2>> /\ Whole(n) # {} => Past(p)

\* Only what was written is handed on.
PiecesInv ==
  \A k \in 1..Len(rawlines) : \A j \in 1..Len(rawlines[k].text) :
    rawlines[k].text[j][1] <= lines

\* The two parts of HandedOnIntact.
PiecesIntact ==
  \A k \in 1..Len(rawlines) :
    rawlines[k].cut \/ \E n \in 1..lines : rawlines[k].text \in {Line(n), <<<<n, 1>>>>}

HandedOnOnce == \A n \in 1..lines : \A j, k \in Whole(n) : j = k

TailerInv ==
  /\ TailerTypeOK
  /\ FileInv
  /\ PiecesInv
  /\ ~torn => StreamsInv /\ HandedOnIsPast /\ PiecesIntact /\ HandedOnOnce

\* At multiplies.
LEMMA AtFacts ==
  ASSUME NEW q \in Nat
  PROVE  /\ At(q) \in Nat
         /\ At(q + 1) = At(q) + Width + 1
         /\ At(0) = 0
BY TailerAssumption DEF At

\* Order, along a chain.
LEMMA FarBefore == \A a, b, c, d \in Nat : a <= b /\ b <= c /\ c + 2 <= d => a + 1 < d
OBVIOUS

\* A product of naturals is one.
LEMMA ProductNat == \A a, b \in Nat : a * b \in Nat
OBVIOUS

\* A line begins no earlier than the one before it ends.
LEMMA AtApart ==
  ASSUME NEW q \in Nat, NEW r \in Nat, q < r
  PROVE  At(q) + Width + 1 <= At(r)
<1> DEFINE d == r - (q + 1)
<1>1. d \in Nat /\ r = q + 1 + d
  OBVIOUS
<1>2. Width \in Nat /\ Width + 1 \in Nat
  BY TailerAssumption
<1>3. (Width + 1) * d \in Nat
  BY <1>1, <1>2, ProductNat
<1>4. (Width + 1) * (q + 1 + d) = (Width + 1) * q + (Width + 1) + (Width + 1) * d
  <2> HIDE DEF d
  <2> QED
    BY <1>1, <1>2
<1>5. At(r) = At(q) + (Width + 1) + (Width + 1) * d
  BY <1>1, <1>4 DEF At
<1>6. At(q) \in Nat
  BY AtFacts
<1> HIDE DEF d
<1> QED
  BY <1>2, <1>3, <1>5, <1>6

\* Every place is in a line.
LEMMA AtSplit ==
  ASSUME NEW p \in Nat
  PROVE  \E q \in Nat, i \in 0..Width : p = At(q) + i
<1> DEFINE q == p \div (Width + 1)
           i == p % (Width + 1)
<1>1. Width + 1 \in Nat /\ Width + 1 > 0 /\ Width \in Nat
  BY TailerAssumption
<1>2. q \in Nat /\ i \in 0..Width /\ p = (Width + 1) * q + i
  BY <1>1
<1> QED
  BY <1>2 DEF At

\* Two places where lines begin are a line apart.
LEMMA BoundariesApart ==
  ASSUME NEW a \in Boundary, NEW b \in Boundary
  PROVE  a \in Nat /\ b \in Nat /\ (a < b => a + Width + 1 <= b)
<1>1. PICK q \in Nat, r \in Nat : a = At(q) /\ b = At(r)
  BY DEF Boundary
<1>2. a \in Nat /\ b \in Nat /\ Width \in Nat
  BY <1>1, AtFacts, TailerAssumption
<1>3. CASE q < r
  BY <1>1, <1>2, <1>3, AtApart
<1>4. CASE r < q
  <2>1. b + Width + 1 <= a
    BY <1>1, <1>4, AtApart
  <2> QED
    BY <1>2, <2>1
<1>5. CASE q = r
  BY <1>1, <1>2, <1>5
<1> QED
  BY <1>3, <1>4, <1>5

\* What is at a place of the log.
LEMMA FileByte ==
  ASSUME file \in Seq(Byte), NEW whole \in 0..lines, lines \in Nat, LogOf(file, lines, whole),
         NEW p \in 1..Len(file)
  PROVE  \E q \in 0..whole - 1, i \in 1..Width + 1 :
           /\ p = At(q) + i
           /\ i <= Width => file[p] = <<lines - whole + q + 1, i>>
           /\ i = Width + 1 => file[p] = Newline
<1>1. Width \in Nat /\ whole \in Nat /\ Len(file) = At(whole) /\ p - 1 \in Nat
  BY TailerAssumption DEF LogOf
<1>2. PICK q \in Nat, j \in 0..Width : p - 1 = At(q) + j
  BY <1>1, AtSplit
<1>3. q < whole
  <2>1. CASE q = whole
    BY <1>1, <1>2, <2>1, AtFacts, SMTT(30)
  <2>2. CASE whole < q
    <3>1. At(whole) + Width + 1 <= At(q) /\ At(q) \in Nat /\ At(whole) \in Nat
      BY <1>1, <2>2, AtApart, AtFacts
    <3> QED
      BY <1>1, <1>2, <3>1
  <2> QED
    BY <1>1, <2>1, <2>2
<1>4. q \in 0..whole - 1 /\ j + 1 \in 1..Width + 1 /\ p = At(q) + (j + 1) /\ At(q) \in Nat
  <2>1. At(q) \in Nat
    BY AtFacts
  <2>2. q \in 0..whole - 1
    BY <1>1, <1>3
  <2>3. p \in Nat /\ j \in 0..Width
    BY <1>1, <1>2
  <2>4. p = At(q) + (j + 1)
    BY <1>2, <2>1, <2>3
  <2>5. j + 1 \in 1..Width + 1
    BY <1>1, <2>3
  <2> QED
    BY <2>1, <2>2, <2>4, <2>5
<1>5. j + 1 <= Width => file[p] = <<lines - whole + q + 1, j + 1>>
  BY <1>1, <1>4 DEF LogOf
<1>6. j + 1 = Width + 1 => file[p] = Newline
  <2> SUFFICES ASSUME j + 1 = Width + 1 PROVE file[p] = Newline
    OBVIOUS
  <2>1. p = At(q) + Width + 1
    BY <1>1, <1>4, SMTT(30)
  <2> QED
    BY <1>4, <2>1 DEF LogOf
<1> QED
  BY <1>4, <1>5, <1>6
\* What the rest of the proof needs to know of the log.
LEMMA LogFacts ==
  ASSUME TailerTypeOK, FileInv
  PROVE  /\ Len(file) \in Boundary
         /\ \A p \in 1..Len(file) : file[p] = Newline <=> p \in Boundary
         /\ \A p \in 1..Len(file) :
              p - 1 \in Boundary =>
                /\ p + Width <= Len(file)
                /\ \E n \in 1..lines : \A i \in 1..Width : file[p - 1 + i] = <<n, i>>
         /\ \A p, r \in 1..Len(file) : file[p] = file[r] /\ file[p] # Newline => p = r
         /\ \A p \in 1..Len(file) : file[p][1] <= lines
         /\ \A p \in 1..Len(file), n \in 1..lines : file[p] = <<n, 2>> => p - 1 \notin Boundary
<1>1. lines \in Nat /\ file \in Seq(Byte) /\ Len(file) \in Nat
  BY TailerAssumption DEF TailerTypeOK
<1>2. Width \in Nat \ {0, 1}
  BY TailerAssumption
<1>3. PICK whole \in 0..lines : LogOf(file, lines, whole)
  BY DEF FileInv
<1>4. whole \in Nat /\ lines - whole \in Nat /\ Len(file) = At(whole)
  BY <1>1, <1>3 DEF LogOf
<1>5. ASSUME NEW p \in 1..Len(file)
      PROVE  \E q \in 0..whole - 1, i \in 1..Width + 1 :
               /\ p = At(q) + i
               /\ i <= Width => file[p] = <<lines - whole + q + 1, i>>
               /\ i = Width + 1 => file[p] = Newline
  BY <1>1, <1>3, FileByte
<1>6. ASSUME NEW q \in Nat, NEW i \in 1..Width + 1
      PROVE  /\ At(q) + i \in Boundary <=> i = Width + 1
             /\ At(q) + i - 1 \in Boundary <=> i = 1
             /\ At(q) \in Nat
  <2>1. At(q) \in Boundary /\ At(q) \in Nat /\ At(q + 1) = At(q) + Width + 1
        /\ At(q + 1) \in Boundary
    BY AtFacts DEF Boundary
  <2>2. ASSUME NEW b \in Boundary, At(q) < b PROVE At(q) + Width + 1 <= b /\ b \in Nat
    BY <2>1, <2>2, BoundariesApart
  <2>3. At(q) + i \in Boundary => i = Width + 1
    <3> SUFFICES ASSUME At(q) + i \in Boundary PROVE i = Width + 1
      OBVIOUS
    <3>1. At(q) < At(q) + i
      BY <1>2, <2>1
    <3>2. At(q) + Width + 1 <= At(q) + i
      BY <2>2, <3>1
    <3> QED
      BY <1>2, <2>1, <3>2
  <2>4. At(q) + i - 1 \in Boundary => i = 1
    <3> SUFFICES ASSUME At(q) + i - 1 \in Boundary, i # 1 PROVE FALSE
      OBVIOUS
    <3>1. At(q) < At(q) + i - 1
      BY <1>2, <2>1
    <3>2. At(q) + Width + 1 <= At(q) + i - 1
      BY <2>2, <3>1
    <3> QED
      BY <1>2, <2>1, <3>2
  <2>5. i = Width + 1 => At(q) + i = At(q + 1)
    BY <1>2, <2>1
  <2>6. i = 1 => At(q) + i - 1 = At(q)
    BY <2>1
  <2> QED
    BY <2>1, <2>3, <2>4, <2>5, <2>6
<1>7. Len(file) \in Boundary
  BY <1>4 DEF Boundary
<1>8. ASSUME NEW p \in 1..Len(file) PROVE file[p] = Newline <=> p \in Boundary
  <2>1. PICK q \in 0..whole - 1, i \in 1..Width + 1 :
          /\ p = At(q) + i
          /\ i <= Width => file[p] = <<lines - whole + q + 1, i>>
          /\ i = Width + 1 => file[p] = Newline
    BY <1>5
  <2>2. p \in Boundary <=> i = Width + 1
    <3>1. q \in Nat
      BY <1>4, <2>1
    <3>2. At(q) + i \in Boundary <=> i = Width + 1
      BY <1>6, <3>1
    <3> QED
      BY <2>1, <3>2
  <2>3. file[p] = Newline <=> i = Width + 1
    <3>1. i <= Width => file[p] # Newline
      BY <2>1 DEF Newline
    <3> QED
      BY <1>2, <2>1, <3>1
  <2> QED
    BY <2>2, <2>3
<1>9. ASSUME NEW p \in 1..Len(file), p - 1 \in Boundary
      PROVE  /\ p + Width <= Len(file)
             /\ \E n \in 1..lines : \A i \in 1..Width : file[p - 1 + i] = <<n, i>>
  <2>1. PICK q \in 0..whole - 1, i \in 1..Width + 1 : p = At(q) + i
    BY <1>5
  <2>2. i = 1 /\ At(q) \in Nat /\ p - 1 = At(q)
    <3>1. q \in Nat
      BY <1>4, <2>1
    <3>2. (At(q) + i - 1 \in Boundary <=> i = 1) /\ At(q) \in Nat
      BY <1>6, <3>1
    <3>3. i = 1
      BY <1>9, <2>1, <3>2
    <3> QED
      BY <2>1, <3>2, <3>3
  <2>3. At(q) + Width + 1 <= At(whole)
    BY <1>4, <2>1, AtApart
  <2>4. \A j \in 1..Width : file[At(q) + j] = <<lines - whole + q + 1, j>>
    BY <1>3, <2>1 DEF LogOf
  <2>5. lines - whole + q + 1 \in 1..lines
    BY <1>1, <1>4, <2>1
  <2>6. p + Width <= Len(file)
    BY <1>2, <1>4, <2>2, <2>3
  <2> QED
    BY <2>2, <2>4, <2>5, <2>6
<1>10. ASSUME NEW p \in 1..Len(file), NEW r \in 1..Len(file), file[p] = file[r], file[p] # Newline
       PROVE  p = r
  <2>1. PICK q \in 0..whole - 1, i \in 1..Width + 1 :
          /\ p = At(q) + i
          /\ i <= Width => file[p] = <<lines - whole + q + 1, i>>
          /\ i = Width + 1 => file[p] = Newline
    BY <1>5
  <2>2. PICK u \in 0..whole - 1, j \in 1..Width + 1 :
          /\ r = At(u) + j
          /\ j <= Width => file[r] = <<lines - whole + u + 1, j>>
          /\ j = Width + 1 => file[r] = Newline
    BY <1>5
  <2>3. i <= Width /\ j <= Width
    BY <1>2, <1>10, <2>1, <2>2
  <2>4. lines - whole + q + 1 = lines - whole + u + 1 /\ i = j
    BY <1>10, <2>1, <2>2, <2>3
  <2>5. q = u
    BY <1>1, <1>4, <2>4
  <2> QED
    BY <2>1, <2>2, <2>4, <2>5
<1>11. ASSUME NEW p \in 1..Len(file) PROVE file[p][1] <= lines
  <2>1. PICK q \in 0..whole - 1, i \in 1..Width + 1 :
          /\ i <= Width => file[p] = <<lines - whole + q + 1, i>>
          /\ i = Width + 1 => file[p] = Newline
    BY <1>5
  <2>2. CASE i <= Width
    BY <1>1, <1>4, <2>1, <2>2
  <2>3. CASE i = Width + 1
    BY <1>1, <2>1, <2>3 DEF Newline
  <2> QED
    BY <1>2, <2>2, <2>3
<1>12. ASSUME NEW p \in 1..Len(file), NEW n \in 1..lines, file[p] = <<n, 2>>
       PROVE  p - 1 \notin Boundary
  <2>1. PICK q \in 0..whole - 1, i \in 1..Width + 1 :
          /\ p = At(q) + i
          /\ i <= Width => file[p] = <<lines - whole + q + 1, i>>
          /\ i = Width + 1 => file[p] = Newline
    BY <1>5
  <2>2. i = 2
    BY <1>2, <1>12, <2>1 DEF Newline
  <2> QED
    BY <1>4, <1>6, <2>1, <2>2, SMTT(30)
<1> QED
  BY <1>7, <1>8, <1>9, <1>10, <1>11, <1>12

\* The second character of a line, and of no other, is past when its line has
\* been handed on; what has been polled further, or read further, stays past.
LEMMA PastStays ==
  ASSUME NEW p \in Nat, Past(p), size <= size',
         \A j \in 1..Len(streams') :
           \/ p <= streams'[j].next
           \/ \E k \in 1..Len(streams) : /\ streams[k].next <= streams'[j].next
                                         /\ streams'[j].end = streams[k].end,
         streams \in Seq(Stream), streams' \in Seq(Stream), size \in Nat, size' \in Nat
  PROVE  Past(p)'
<1>1. ASSUME NEW j \in 1..Len(streams'), streams'[j].next < p, p <= streams'[j].end + 1 PROVE FALSE
  <2>1. streams'[j] \in Stream
    BY ElementOfSeq
  <2>2. streams'[j].next \in Nat
    BY <2>1 DEF Stream
  <2>3. ~(p <= streams'[j].next)
    BY <1>1, <2>2
  <2>4. PICK k \in 1..Len(streams) : /\ streams[k].next <= streams'[j].next
                                     /\ streams'[j].end = streams[k].end
    BY <2>3
  <2>5. streams[k] \in Stream
    BY ElementOfSeq
  <2>6. streams[k].next \in Nat
    BY <2>5 DEF Stream
  <2>7. streams[k].next < p /\ p <= streams[k].end + 1
    BY <1>1, <2>2, <2>4, <2>6
  <2> QED
    BY <2>7 DEF Past
<1> QED
  BY <1>1 DEF Past
----------------------------------------------------------------------------
(* The log tailer: a chunk and its pieces                                  *)

\* A finite set of numbers can be listed in order: a smallest set that cannot
\* would be one without its least element.
Listed(S) ==
  \E f \in [1..Cardinality(S) -> S] : \A j, k \in 1..Cardinality(S) : j < k => f[j] < f[k]

LEMMA ListedAll ==
  ASSUME NEW S \in SUBSET Nat, IsFiniteSet(S)
  PROVE  Listed(S)
<1> DEFINE Unlisted == {n \in Nat : \E T \in SUBSET S : Cardinality(T) = n /\ ~Listed(T)}
<1>1. ASSUME NEW T \in SUBSET S
      PROVE  IsFiniteSet(T) /\ Cardinality(T) \in Nat
  BY FS_Subset, FS_CardinalityType
<1>2. ASSUME Unlisted # {} PROVE FALSE
  <2>1. PICK m \in Unlisted : \A n \in Unlisted : m <= n
    <3>1. Unlisted \in SUBSET Nat
      OBVIOUS
    <3> HIDE DEF Unlisted
    <3> QED
      BY <1>2, <3>1, HasLeast
  <2>2. PICK T \in SUBSET S : Cardinality(T) = m /\ ~Listed(T)
    BY <2>1
  <2>3. CASE T = {}
    <3>1. Cardinality(T) = 0
      BY <2>3, FS_EmptySet
    <3>2. [k \in 1..0 |-> 0] \in [1..0 -> T] /\ 1..0 = {}
      OBVIOUS
    <3> QED
      BY <2>2, <3>1, <3>2 DEF Listed
  <2>4. CASE T # {}
    <3>1. PICK x \in T : \A y \in T : x <= y
      BY <2>4, HasLeast
    <3> DEFINE R == T \ {x}
    <3>2. IsFiniteSet(T) /\ m \in Nat /\ Cardinality(R) = m - 1 /\ Cardinality(R) \in Nat
      BY <1>1, <2>2, <3>1, FS_RemoveElement
    <3>3. Listed(R)
      <4>1. Cardinality(R) \notin Unlisted
        BY <2>1, <3>2
      <4> QED
        BY <3>2, <4>1
    <3> HIDE DEF R
    <3>4. PICK f \in [1..m - 1 -> R] : \A j, k \in 1..m - 1 : j < k => f[j] < f[k]
      BY <3>2, <3>3 DEF Listed
    <3>5. \A y \in R : y \in T /\ y \in Nat /\ x \in Nat /\ x < y
      BY <3>1 DEF R
    <3> DEFINE h == [k \in 1..m |-> IF k = 1 THEN x ELSE f[k - 1]]
    <3>6. \A k \in 1..m : k # 1 => k - 1 \in 1..m - 1 /\ f[k - 1] \in R
      BY <3>2, <3>4
    <3>7. h \in [1..m -> T]
      BY <3>1, <3>5, <3>6
    <3>8. ASSUME NEW j \in 1..m, NEW k \in 1..m, j < k PROVE h[j] < h[k]
      <4>1. h[k] = f[k - 1] /\ k - 1 \in 1..m - 1 /\ f[k - 1] \in R
        BY <3>2, <3>6, <3>8
      <4>2. CASE j = 1
        BY <3>5, <4>1, <4>2
      <4>3. CASE j # 1
        <5>1. h[j] = f[j - 1] /\ j - 1 \in 1..m - 1 /\ j - 1 < k - 1
          BY <3>2, <3>6, <3>8, <4>3
        <5> QED
          BY <3>4, <4>1, <5>1
      <4> QED
        BY <4>2, <4>3
    <3> HIDE DEF h
    <3> QED
      BY <2>2, <3>7, <3>8 DEF Listed
  <2> QED
    BY <2>3, <2>4
<1> QED
  BY <1>1, <1>2

\* InOrder lists the elements of a set, each once.
LEMMA InOrderFacts ==
  ASSUME NEW S \in SUBSET Nat, IsFiniteSet(S)
  PROVE  /\ Cardinality(S) \in Nat
         /\ InOrder(S) \in [1..Cardinality(S) -> S]
         /\ \A j, k \in 1..Cardinality(S) : InOrder(S)[j] = InOrder(S)[k] => j = k
<1>1. Cardinality(S) \in Nat
  BY FS_CardinalityType
<1>2. /\ InOrder(S) \in [1..Cardinality(S) -> S]
      /\ \A j, k \in 1..Cardinality(S) : j < k => InOrder(S)[j] < InOrder(S)[k]
  BY ListedAll DEF Listed, InOrder
<1>3. ASSUME NEW j \in 1..Cardinality(S), NEW k \in 1..Cardinality(S),
             InOrder(S)[j] = InOrder(S)[k], j # k
      PROVE  FALSE
  <2>1. InOrder(S)[j] \in Nat
    BY <1>2
  <2>2. j < k \/ k < j
    BY <1>3
  <2> QED
    BY <1>2, <1>3, <2>1, <2>2
<1> QED
  BY <1>1, <1>2, <1>3

\* A piece ends, before a newline or with its chunk.
LEMMA EndOfFacts ==
  ASSUME NEW chunk \in Seq(Byte), NEW j \in Begins(chunk)
  PROVE  /\ EndOf(chunk, j) \in j..Len(chunk)
         /\ \A l \in j..EndOf(chunk, j) : chunk[l] # Newline
         /\ EndOf(chunk, j) = Len(chunk) \/ chunk[EndOf(chunk, j) + 1] = Newline
<1>1. Len(chunk) \in Nat /\ j \in 1..Len(chunk) /\ chunk[j] # Newline
  BY LenProperties DEF Begins
<1> DEFINE Ends == {k \in j..Len(chunk) : k = Len(chunk) \/ chunk[k + 1] = Newline}
<1>2. Len(chunk) \in Ends /\ Ends \in SUBSET Nat
  BY <1>1
<1>3. PICK m \in Ends : \A n \in Ends : m <= n
  <2> HIDE DEF Ends
  <2> QED
    BY <1>2, HasLeast
<1>4. m \in j..Len(chunk) /\ (m = Len(chunk) \/ chunk[m + 1] = Newline)
  BY <1>3
<1>5. ASSUME NEW l \in j..m PROVE chunk[l] # Newline
  <2>1. CASE l = j
    BY <1>1, <2>1
  <2>2. CASE l # j
    <3>1. l - 1 \in j..Len(chunk) /\ ~(m <= l - 1) /\ (l - 1) + 1 = l
      BY <1>1, <1>4, <2>2
    <3>2. l - 1 \notin Ends
      BY <1>3, <3>1
    <3> QED
      BY <3>1, <3>2
  <2> QED
    BY <2>1, <2>2
<1>6. \E k \in j..Len(chunk) : /\ \A l \in j..k : chunk[l] # Newline
                               /\ k = Len(chunk) \/ chunk[k + 1] = Newline
  BY <1>4, <1>5
<1> QED
  BY <1>6 DEF EndOf

\* A part of a sequence, element by element.
LEMMA PartOf ==
  ASSUME NEW T, NEW s \in Seq(T), NEW a \in 1..Len(s), NEW b \in a..Len(s)
  PROVE  /\ SubSeq(s, a, b) \in Seq(T)
         /\ Len(SubSeq(s, a, b)) = b - a + 1
         /\ \A i \in 1..b - a + 1 : SubSeq(s, a, b)[i] = s[a + i - 1]
<1>1. a \in Int /\ b \in Int /\ a <= b /\ \A i \in a..b : s[i] \in T
  BY LenProperties, ElementOfSeq
<1> QED
  BY <1>1, SubSeqProperties

\* What a stream delivers is the log from its place on, not beyond its end.
LEMMA AvailableFacts ==
  ASSUME file \in Seq(Byte), NEW s \in Stream, s.next < Len(file), s.next <= s.end
  PROVE  /\ Available(s) \in Seq(Byte)
         /\ Len(Available(s)) \in Nat \ {0}
         /\ s.next + Len(Available(s)) <= Len(file)
         /\ s.next + Len(Available(s)) <= s.end + 1
         /\ \A i \in 1..Len(Available(s)) : Available(s)[i] = file[s.next + i]
<1>1. Len(file) \in Nat /\ s.next \in Nat /\ s.end \in Nat /\ Chunk \in Nat \ {0}
  BY TailerAssumption, LenProperties DEF Stream
<1> DEFINE Lasts == {s.end, s.next + Chunk - 1, Len(file) - 1}
           last == CHOOSE e \in Lasts : \A f \in Lasts : e <= f
<1>2. \E e \in Lasts : \A f \in Lasts : e <= f
  BY <1>1
<1>3. last \in Lasts /\ \A f \in Lasts : last <= f
  <2> HIDE DEF Lasts
  <2> QED
    BY <1>2
<1>4. last \in Int /\ s.next <= last /\ last <= s.end /\ last <= Len(file) - 1
  <2> HIDE DEF last
  <2> QED
    BY <1>1, <1>3
<1>5. Available(s) = SubSeq(file, s.next + 1, last + 1)
  BY DEF Available
<1> HIDE DEF last
<1> DEFINE a == s.next + 1
           b == last + 1
<1>6. Available(s) = SubSeq(file, a, b) /\ a \in 1..Len(file) /\ b \in a..Len(file)
  BY <1>1, <1>4, <1>5
<1> HIDE DEF a, b
<1>7. /\ Available(s) \in Seq(Byte)
      /\ Len(Available(s)) = b - a + 1
      /\ \A i \in 1..b - a + 1 : Available(s)[i] = file[a + i - 1]
  BY <1>6, PartOf
<1>8. Len(Available(s)) = last + 1 - s.next
  <2>1. b - a + 1 = last + 1 - s.next
    BY <1>1, <1>4 DEF a, b
  <2> QED
    BY <1>7, <2>1
<1>9. \A i \in 1..Len(Available(s)) : Available(s)[i] = file[s.next + i]
  <2> SUFFICES ASSUME NEW i \in 1..Len(Available(s)) PROVE Available(s)[i] = file[s.next + i]
    OBVIOUS
  <2>1. i \in 1..b - a + 1
    BY <1>7
  <2>2. Available(s)[i] = file[a + i - 1]
    BY <1>7, <2>1
  <2>3. i \in Nat
    BY <1>1, <1>4, <1>8
  <2>4. a + i - 1 = s.next + i
    BY <1>1, <2>3 DEF a
  <2> QED
    BY <2>2, <2>4
<1>10. /\ Len(Available(s)) \in Nat \ {0}
       /\ s.next + Len(Available(s)) <= Len(file)
       /\ s.next + Len(Available(s)) <= s.end + 1
  BY <1>1, <1>4, <1>8
<1> QED
  BY <1>7, <1>9, <1>10
\* A chunk that stream s may deliver.
ChunkOf(s, chunk) ==
  /\ chunk \in Seq(Byte) /\ Len(chunk) \in Nat \ {0}
  /\ s.next + Len(chunk) <= Len(file)
  /\ s.next + Len(chunk) <= s.end + 1
  /\ \A i \in 1..Len(chunk) : chunk[i] = file[s.next + i]

\* A piece is a part of its chunk: its characters were written, and a whole line
\* has its second character where the chunk has it.
LEMMA PieceText ==
  ASSUME TailerTypeOK, FileInv, NEW s \in Stream, NEW chunk, ChunkOf(s, chunk),
         NEW j \in Begins(chunk)
  PROVE  /\ j \in 1..Len(chunk)
         /\ PieceAt(s, chunk, j) \in Piece
         /\ Len(PieceAt(s, chunk, j).text) = EndOf(chunk, j) - j + 1
         /\ \A i \in 1..EndOf(chunk, j) - j + 1 :
              PieceAt(s, chunk, j).text[i] = chunk[j + i - 1]
         /\ \A i \in 1..Len(PieceAt(s, chunk, j).text) :
              PieceAt(s, chunk, j).text[i][1] <= lines
         /\ \A n \in Nat : PieceAt(s, chunk, j).text = Line(n) =>
              /\ chunk[j] = <<n, 1>>
              /\ j + 1 \in 1..Len(chunk)
              /\ chunk[j + 1] = <<n, 2>>
<1> DEFINE e == EndOf(chunk, j)
           text == SubSeq(chunk, j, e)
<1>1. chunk \in Seq(Byte) /\ Len(chunk) \in Nat /\ s.next \in Nat
  BY DEF ChunkOf, Stream
<1>2. j \in 1..Len(chunk) /\ e \in j..Len(chunk)
  BY <1>1, EndOfFacts DEF Begins
<1> HIDE DEF e
<1>3. /\ text \in Seq(Byte) /\ Len(text) = e - j + 1
      /\ \A i \in 1..e - j + 1 : text[i] = chunk[j + i - 1]
  BY <1>1, <1>2, PartOf
<1>4. PieceAt(s, chunk, j).text = text /\ PieceAt(s, chunk, j) \in Piece
  BY <1>3 DEF PieceAt, Piece, e
<1> HIDE DEF text
<1>5. ASSUME NEW i \in 1..Len(text) PROVE text[i][1] <= lines
  <2>1. i \in 1..e - j + 1 /\ j + i - 1 \in 1..Len(chunk)
    BY <1>1, <1>2, <1>3
  <2>2. text[i] = chunk[j + i - 1] /\ chunk[j + i - 1] = file[s.next + (j + i - 1)]
    BY <1>3, <2>1 DEF ChunkOf
  <2>3. s.next + (j + i - 1) \in 1..Len(file)
    BY <1>1, <2>1, LenProperties, SMTT(30) DEF ChunkOf, TailerTypeOK
  <2> QED
    BY <2>2, <2>3, LogFacts
<1>6. ASSUME NEW n \in Nat, text = Line(n)
      PROVE  chunk[j] = <<n, 1>> /\ j + 1 \in 1..Len(chunk) /\ chunk[j + 1] = <<n, 2>>
  <2>1. Width \in Nat /\ Width >= 2
    BY TailerAssumption
  <2>2. Len(Line(n)) = Width /\ Line(n)[1] = <<n, 1>> /\ Line(n)[2] = <<n, 2>>
    BY <2>1 DEF Line
  <2>3. 1 \in 1..e - j + 1 /\ 2 \in 1..e - j + 1 /\ j + 1 - 1 = j /\ j + 2 - 1 = j + 1
    BY <1>2, <1>3, <1>6, <2>1, <2>2
  <2>4. text[1] = chunk[j] /\ text[2] = chunk[j + 1]
    BY <1>3, <2>3
  <2>5. j + 1 \in 1..Len(chunk)
    BY <1>1, <1>2, <2>3
  <2> QED
    BY <1>6, <2>2, <2>4, <2>5
<1> QED
  BY <1>2, <1>3, <1>4, <1>5, <1>6 DEF e

\* A piece that no edge of a chunk cuts is a line, or the first character of one:
\* it begins where a line begins and ends where a line or the window ends.
LEMMA PieceIntact ==
  ASSUME TailerTypeOK, FileInv, NEW s \in Stream, NEW chunk, ChunkOf(s, chunk),
         NEW j \in Begins(chunk),
         s.start \in Boundary, s.end \in Boundary, s.start <= s.next
  PROVE  \/ PieceAt(s, chunk, j).cut
         \/ \E n \in 1..lines : PieceAt(s, chunk, j).text \in {Line(n), <<<<n, 1>>>>}
<1> SUFFICES ASSUME ~PieceAt(s, chunk, j).cut
             PROVE  \E n \in 1..lines : PieceAt(s, chunk, j).text \in {Line(n), <<<<n, 1>>>>}
  OBVIOUS
<1> DEFINE e == EndOf(chunk, j)
           m == Len(chunk)
           text == PieceAt(s, chunk, j).text
           next == s.next
           end == s.end
           p == s.next + j
<1>1. /\ chunk \in Seq(Byte) /\ m \in Nat /\ Width \in Nat /\ Width >= 2
      /\ next \in Nat /\ s.start \in Nat /\ end \in Nat
      /\ next + m <= Len(file) /\ next + m <= end + 1
      /\ file \in Seq(Byte) /\ Len(file) \in Nat
  BY TailerAssumption, LenProperties DEF ChunkOf, Stream, TailerTypeOK
<1>2. /\ ~(j = 1 /\ next > s.start)
      /\ ~(e = m /\ next + m <= end)
  BY DEF PieceAt
<1>3. /\ j \in 1..m /\ e \in j..m
      /\ \A l \in j..e : chunk[l] # Newline
      /\ e = m \/ chunk[e + 1] = Newline
      /\ j = 1 \/ chunk[j - 1] = Newline
  BY <1>1, EndOfFacts DEF Begins
<1>4. /\ text \in Seq(Byte) /\ Len(text) = e - j + 1
      /\ \A i \in 1..e - j + 1 : text[i] = chunk[j + i - 1]
  <2>1. PieceAt(s, chunk, j) \in Piece /\ Len(text) = e - j + 1
        /\ \A i \in 1..e - j + 1 : text[i] = chunk[j + i - 1]
    BY PieceText
  <2> HIDE DEF e
  <2> QED
    BY <2>1 DEF Piece
<1>5. \A i \in 1..m : chunk[i] = file[next + i]
  BY DEF ChunkOf
<1>6. next + j = p
  OBVIOUS
<1> HIDE DEF e, m, text, next, end, p
<1>7. /\ j \in Nat /\ e \in Nat /\ p \in Nat /\ 1 <= j /\ j <= e /\ e <= m
      /\ p = next + j /\ p \in 1..Len(file) /\ j \in 1..m
  BY <1>1, <1>3, <1>6
<1>8. p - 1 \in Boundary
  <2>1. CASE j = 1
    <3>1. next <= s.start /\ s.start <= next
      BY <1>1, <1>2, <2>1 DEF next
    <3>2. p - 1 = s.start
      BY <1>1, <1>7, <2>1, <3>1
    <3> QED
      BY <3>2
  <2>2. CASE j # 1
    <3>1. j - 1 \in 1..m /\ next + (j - 1) = p - 1 /\ p - 1 \in 1..Len(file)
      BY <1>1, <1>7, <2>2
    <3>2. file[p - 1] = Newline
      <4>1. chunk[j - 1] = Newline
        BY <1>3, <2>2
      <4>2. chunk[j - 1] = file[next + (j - 1)]
        BY <1>5, <3>1
      <4> QED
        BY <3>1, <4>1, <4>2
    <3> QED
      BY <3>1, <3>2, LogFacts
  <2> QED
    BY <2>1, <2>2
<1>9. PICK n \in 1..lines : \A i \in 1..Width : file[p - 1 + i] = <<n, i>>
  BY <1>7, <1>8, LogFacts
<1>10. n \in Nat \ {0}
  BY DEF TailerTypeOK
<1>11. p + Width \in 1..Len(file) /\ file[p + Width] = Newline
  <2>1. p + Width <= Len(file)
    BY <1>7, <1>8, LogFacts
  <2>2. p + Width \in Boundary
    <3>1. PICK q \in Nat : p - 1 = At(q)
      BY <1>8 DEF Boundary
    <3>2. At(q + 1) = p - 1 + Width + 1 /\ At(q + 1) \in Boundary
      BY <3>1, AtFacts DEF Boundary
    <3>3. p - 1 + Width + 1 = p + Width
      BY <1>1, <1>7
    <3> QED
      BY <3>2, <3>3
  <2>3. p + Width \in 1..Len(file)
    BY <1>1, <1>7, <2>1
  <2> QED
    BY <2>2, <2>3, LogFacts
<1>12. e - j + 1 <= Width
  <2> SUFFICES ASSUME e - j + 1 > Width PROVE FALSE
    BY <1>1, <1>7
  <2>1. j + Width \in j..e /\ j + Width \in 1..m /\ next + (j + Width) = p + Width
    BY <1>1, <1>7
  <2>2. chunk[j + Width] = file[next + (j + Width)]
    BY <1>5, <2>1
  <2>3. chunk[j + Width] # Newline
    BY <1>3, <2>1
  <2> QED
    BY <1>11, <2>1, <2>2, <2>3
<1>13. ASSUME NEW i \in 1..e - j + 1 PROVE text[i] = <<n, i>>
  <2>1. j + i - 1 \in 1..m /\ next + (j + i - 1) = p - 1 + i /\ i \in 1..Width
    BY <1>1, <1>7, <1>12
  <2>2. text[i] = chunk[j + i - 1]
    BY <1>4
  <2>3. chunk[j + i - 1] = file[next + (j + i - 1)]
    BY <1>5, <2>1
  <2>4. file[p - 1 + i] = <<n, i>>
    BY <1>9, <2>1
  <2> QED
    BY <2>1, <2>2, <2>3, <2>4
<1>14. CASE e < m
  <2>1. chunk[e + 1] = Newline /\ e + 1 \in 1..m
    BY <1>1, <1>3, <1>7, <1>14
  <2>2. e - j + 1 = Width
    <3> SUFFICES ASSUME e - j + 1 < Width PROVE FALSE
      BY <1>1, <1>7, <1>12
    <3>1. e - j + 2 \in 1..Width /\ next + (e + 1) = p - 1 + (e - j + 2)
      BY <1>1, <1>7
    <3>2. chunk[e + 1] = file[next + (e + 1)]
      BY <1>5, <2>1
    <3>3. file[p - 1 + (e - j + 2)] = <<n, e - j + 2>>
      BY <1>9, <3>1
    <3>4. <<n, e - j + 2>> = Newline
      BY <2>1, <3>1, <3>2, <3>3
    <3> QED
      BY <1>10, <3>4 DEF Newline
  <2>3. text = Line(n)
    <3>1. Line(n) \in Seq(Nat \X Nat) /\ Len(Line(n)) = Width
          /\ \A i \in 1..Width : Line(n)[i] = <<n, i>>
      BY <1>1, <1>10 DEF Line
    <3>2. text \in Seq(Nat \X Nat)
      <4>1. \A i \in 1..Len(text) : text[i] \in Nat \X Nat
        <5> SUFFICES ASSUME NEW i \in 1..Len(text) PROVE text[i] \in Nat \X Nat
          OBVIOUS
        <5>1. i \in 1..e - j + 1 /\ i \in Nat /\ n \in Nat
          BY <1>4, <1>7, <1>10
        <5>2. text[i] = <<n, i>>
          BY <1>13, <5>1
        <5> QED
          BY <5>1, <5>2
      <4> QED
        BY <1>4, <4>1
    <3>3. Len(text) = Len(Line(n))
      BY <1>4, <2>2, <3>1
    <3>4. \A i \in 1..Len(text) : text[i] = Line(n)[i]
      BY <1>4, <1>13, <2>2, <3>1
    <3> QED
      BY <3>1, <3>2, <3>3, <3>4, SeqEqual
  <2> QED
    BY <2>3 DEF text
<1>15. CASE e = m
  <2>1. next + m = end + 1
    BY <1>1, <1>2, <1>15
  <2>2. p - 1 <= end
    BY <1>1, <1>7, <2>1
  <2>3. p - 1 < end => p - 1 + Width + 1 <= end
    BY <1>8, BoundariesApart DEF end
  <2>4. p - 1 = end
    BY <1>1, <1>7, <1>12, <1>15, <2>1, <2>2, <2>3
  <2>5. e = j
    BY <1>1, <1>7, <1>15, <2>1, <2>4
  <2>6. Len(text) = 1
    BY <1>4, <1>7, <2>5
  <2>7. text[1] = <<n, 1>>
    BY <1>7, <1>13, <2>5
  <2>8. text = <<<<n, 1>>>>
    <3>1. text[1] \in Byte
      <4>1. text \in Seq(Byte)
        BY <1>4
      <4>2. 1 \in 1..Len(text)
        BY <2>6
      <4> QED
        BY <4>1, <4>2, ElementOfSeq
    <3>2. <<<<n, 1>>>> \in Seq(Byte) /\ Len(<<<<n, 1>>>>) = 1
      BY <2>7, <3>1
    <3>3. \A i \in 1..1 : text[i] = <<<<n, 1>>>>[i]
      BY <2>7
    <3> QED
      BY <1>4, <2>6, <3>2, <3>3, SeqEqual
  <2> QED
    BY <2>8 DEF text
<1>16. e < m \/ e = m
  BY <1>1, <1>7
<1> QED
  BY <1>14, <1>15, <1>16
----------------------------------------------------------------------------
(* The log tailer: its steps                                               *)

LEMMA TailerInitInv == TailerInit => TailerInv
<1> SUFFICES ASSUME TailerInit PROVE TailerInv
  OBVIOUS
<1>1. file = <<>> /\ rawlines = <<>> /\ streams = <<>> /\ lines = 0 /\ size = 0 /\ touched = "no"
  BY DEF TailerInit
<1>2. TailerTypeOK
  <2>1. /\ file \in Seq(Byte) /\ streams \in Seq(Stream) /\ rawlines \in Seq(Piece)
        /\ size \in Nat /\ tracker \in Nat /\ touched \in {"no", "grown", "shrunk"}
        /\ watching \in BOOLEAN /\ torn \in BOOLEAN
    BY EmptySeq DEF TailerInit
  <2>2. lines \in 0..MaxLines /\ truncations \in 0..MaxTruncations /\ restarts \in 0..MaxRestarts
    BY TailerAssumption DEF TailerInit
  <2>3. due \subseteq 1..lines
    BY DEF TailerInit
  <2> QED
    BY <2>1, <2>2, <2>3 DEF TailerTypeOK
<1>3. At(0) = 0 /\ 0 \in Boundary
  BY AtFacts DEF Boundary
<1>4. FileInv
  BY <1>1, <1>3 DEF FileInv, LogOf
<1>5. PiecesInv /\ HandedOnIsPast /\ PiecesIntact /\ HandedOnOnce
  BY <1>1 DEF PiecesInv, HandedOnIsPast, PiecesIntact, HandedOnOnce
<1>6. StreamsInv
  BY <1>1, <1>3 DEF StreamsInv
<1> QED
  BY <1>2, <1>4, <1>5, <1>6 DEF TailerInv

\* No line that is still to be written has been handed on.
LEMMA NotYetWhole ==
  ASSUME TailerTypeOK, PiecesInv, NEW n \in Nat, n > lines
  PROVE  \A k \in 1..Len(rawlines) : rawlines[k].text # Line(n)
<1> SUFFICES ASSUME NEW k \in 1..Len(rawlines), rawlines[k].text = Line(n) PROVE FALSE
  OBVIOUS
<1>1. Width \in Nat /\ Width >= 2 /\ lines \in Nat
  BY TailerAssumption DEF TailerTypeOK
<1>2. Len(Line(n)) = Width /\ Line(n)[1] = <<n, 1>>
  BY <1>1 DEF Line
<1>3. rawlines[k].text[1][1] <= lines
  BY <1>1, <1>2 DEF PiecesInv
<1> QED
  BY <1>1, <1>2, <1>3

\* The log grows by a line.
LEMMA TailerAppend ==
  ASSUME TailerInv, AppendLine
  PROVE  TailerInv'
<1> DEFINE added == Append(Line(lines + 1), Newline)
<1>1. /\ lines < MaxLines /\ lines' = lines + 1 /\ file' = file \o added
      /\ touched' = IF touched = "shrunk" THEN "shrunk" ELSE "grown"
      /\ due' \subseteq due \cup {lines + 1}
      /\ UNCHANGED <<watching, size, streams, rawlines, tracker, torn, truncations, restarts>>
  BY DEF AppendLine
<1>2. TailerTypeOK /\ FileInv /\ PiecesInv
      /\ (~torn => StreamsInv /\ HandedOnIsPast /\ PiecesIntact /\ HandedOnOnce)
  BY DEF TailerInv
<1>3. /\ Width \in Nat /\ Width >= 2 /\ MaxLines \in Nat
      /\ lines \in Nat /\ file \in Seq(Byte) /\ Len(file) \in Nat
  BY <1>2, TailerAssumption, LenProperties DEF TailerTypeOK
<1>4. /\ added \in Seq(Byte) /\ Len(added) = Width + 1
      /\ \A i \in 1..Width : added[i] = <<lines + 1, i>>
      /\ added[Width + 1] = Newline
  <2>1. lines + 1 \in 1..MaxLines
    BY <1>1, <1>3
  <2>2. Line(lines + 1) \in Seq(Byte) /\ Len(Line(lines + 1)) = Width
        /\ \A i \in 1..Width : Line(lines + 1)[i] = <<lines + 1, i>>
    BY <1>3, <2>1 DEF Line, Byte
  <2>3. Newline \in Byte
    BY DEF Byte
  <2> QED
    BY <1>3, <2>2, <2>3
<1> HIDE DEF added
<1>5. /\ file' \in Seq(Byte) /\ Len(file') = Len(file) + Width + 1
      /\ \A p \in 1..Len(file) : file'[p] = file[p]
      /\ \A i \in 1..Width + 1 : file'[Len(file) + i] = added[i]
  <2>1. /\ file \o added \in Seq(Byte)
        /\ Len(file \o added) = Len(file) + Len(added)
        /\ \A p \in 1..Len(file) + Len(added) :
             (file \o added)[p] = IF p <= Len(file) THEN file[p] ELSE added[p - Len(file)]
    BY <1>3, <1>4, ConcatProperties
  <2>2. /\ file' \in Seq(Byte) /\ Len(file') = Len(file) + Width + 1
        /\ \A p \in 1..Len(file) + Width + 1 :
             file'[p] = IF p <= Len(file) THEN file[p] ELSE added[p - Len(file)]
    BY <1>1, <1>3, <1>4, <2>1
  <2>3. ASSUME NEW p \in 1..Len(file) PROVE file'[p] = file[p]
    BY <1>3, <2>2
  <2>4. ASSUME NEW i \in 1..Width + 1 PROVE file'[Len(file) + i] = added[i]
    <3>1. /\ Len(file) + i \in 1..Len(file) + Width + 1
          /\ ~(Len(file) + i <= Len(file)) /\ Len(file) + i - Len(file) = i
      BY <1>3
    <3> QED
      BY <2>2, <3>1
  <2> QED
    BY <2>2, <2>3, <2>4
<1>6. TailerTypeOK'
  BY <1>1, <1>2, <1>3, <1>5 DEF TailerTypeOK
<1>7. FileInv'
  <2>1. PICK whole \in 0..lines : LogOf(file, lines, whole)
    BY <1>2 DEF FileInv
  <2>2. whole \in Nat /\ Len(file) = At(whole) /\ At(whole + 1) = At(whole) + Width + 1
        /\ whole + 1 \in 0..lines'
    BY <1>1, <1>3, <2>1, AtFacts DEF LogOf
  <2>3. ASSUME NEW q \in 0..whole + 1 - 1
        PROVE  /\ \A i \in 1..Width : file'[At(q) + i] = <<lines' - (whole + 1) + q + 1, i>>
               /\ file'[At(q) + Width + 1] = Newline
    <3>1. q \in Nat /\ At(q) \in Nat
      <4>1. q \in Nat
        BY <2>2
      <4> QED
        BY <4>1, AtFacts
    <3>2. lines' - (whole + 1) + q + 1 = lines - whole + q + 1
      BY <1>1, <1>3, <2>2, <3>1
    <3>3. CASE q = whole
      <4>1. lines - whole + q + 1 = lines + 1 /\ At(q) = Len(file)
        BY <1>3, <2>2, <3>3
      <4>2. \A i \in 1..Width : file'[At(q) + i] = <<lines + 1, i>>
        <5> SUFFICES ASSUME NEW i \in 1..Width PROVE file'[At(q) + i] = <<lines + 1, i>>
          OBVIOUS
        <5>1. i \in 1..Width + 1
          BY <1>3
        <5> QED
          BY <1>4, <1>5, <4>1, <5>1
      <4>3. file'[At(q) + Width + 1] = Newline
        <5>1. Width + 1 \in 1..Width + 1 /\ Len(file) + (Width + 1) = At(q) + Width + 1
          BY <1>3, <4>1
        <5> QED
          BY <1>4, <1>5, <5>1
      <4> QED
        BY <3>2, <4>1, <4>2, <4>3
    <3>4. CASE q # whole
      <4>1. q \in 0..whole - 1 /\ At(q) + Width + 1 <= Len(file)
        BY <2>2, <3>1, <3>4, AtApart
      <4>2. /\ \A i \in 1..Width : file[At(q) + i] = <<lines - whole + q + 1, i>>
            /\ file[At(q) + Width + 1] = Newline
        BY <2>1, <4>1 DEF LogOf
      <4>3. \A i \in 1..Width + 1 : At(q) + i \in 1..Len(file)
        BY <1>3, <3>1, <4>1
      <4>4. \A i \in 1..Width : file'[At(q) + i] = file[At(q) + i]
        <5> SUFFICES ASSUME NEW i \in 1..Width PROVE file'[At(q) + i] = file[At(q) + i]
          OBVIOUS
        <5>1. i \in 1..Width + 1
          BY <1>3
        <5> QED
          BY <1>5, <4>3, <5>1
      <4>5. At(q) + Width + 1 \in 1..Len(file)
        BY <1>3, <3>1, <4>1
      <4> QED
        BY <1>5, <3>2, <4>2, <4>4, <4>5
    <3> QED
      BY <3>3, <3>4
  <2>4. LogOf(file', lines', whole + 1)
    BY <1>3, <1>5, <2>2, <2>3 DEF LogOf
  <2> QED
    BY <2>2, <2>4 DEF FileInv
<1>8. PiecesInv'
  <2> SUFFICES ASSUME NEW k \in 1..Len(rawlines), NEW j \in 1..Len(rawlines[k].text)
               PROVE  rawlines[k].text[j][1] <= lines + 1
    BY <1>1 DEF PiecesInv
  <2>1. rawlines[k] \in Piece
    BY <1>2, ElementOfSeq DEF TailerTypeOK
  <2>2. rawlines[k].text \in Seq(Byte)
    BY <2>1 DEF Piece
  <2>3. rawlines[k].text[j] \in Byte
    BY <2>2, ElementOfSeq
  <2>4. rawlines[k].text[j][1] \in Nat
    BY <1>3, <2>3 DEF Byte, Newline
  <2>5. rawlines[k].text[j][1] <= lines
    BY <1>2 DEF PiecesInv
  <2> QED
    BY <1>3, <2>4, <2>5
<1>9. ASSUME ~torn
      PROVE  StreamsInv' /\ HandedOnIsPast' /\ PiecesIntact' /\ HandedOnOnce'
  <2>1. StreamsInv'
    BY <1>1, <1>2, <1>3, <1>5, <1>9 DEF StreamsInv, TailerTypeOK, Boundary, At
  <2>2. \A k \in 1..Len(rawlines) : rawlines[k].text # Line(lines + 1)
    BY <1>2, <1>3, NotYetWhole
  <2>3. \A n \in 1..lines + 1 : n \in 1..lines \/ n = lines + 1
    BY <1>3
  <2>4. HandedOnIsPast'
    <3> SUFFICES ASSUME NEW p \in 1..Len(file'), NEW n \in 1..lines',
                        file'[p] = <<n, 2>>, Whole(n)' # {}
                 PROVE  Past(p)'
      BY DEF HandedOnIsPast
    <3>1. n \in 1..lines /\ Whole(n) # {}
      BY <1>1, <2>2, <2>3 DEF Whole, Line
    <3>2. p \in 1..Len(file)
      <4> SUFFICES ASSUME p \notin 1..Len(file) PROVE FALSE
        OBVIOUS
      <4>1. p - Len(file) \in 1..Width + 1 /\ Len(file) + (p - Len(file)) = p
        BY <1>3, <1>5
      <4>2. added[p - Len(file)] = <<n, 2>>
        BY <1>5, <4>1
      <4>3. CASE p - Len(file) = Width + 1
        BY <1>4, <4>2, <4>3 DEF Newline
      <4>4. CASE p - Len(file) # Width + 1
        <5>1. p - Len(file) \in 1..Width
          BY <1>3, <4>1, <4>4
        <5>2. n = lines + 1
          BY <1>4, <4>2, <5>1
        <5> QED
          BY <1>3, <3>1, <5>2
      <4> QED
        BY <4>3, <4>4
    <3>3. Past(p)
      BY <1>2, <1>5, <1>9, <3>1, <3>2 DEF HandedOnIsPast
    <3> QED
      BY <1>1, <3>3 DEF Past
  <2>5. PiecesIntact'
    <3>1. 1..lines \subseteq 1..lines'
      BY <1>1, <1>3
    <3> QED
      BY <1>1, <1>2, <1>9, <3>1 DEF PiecesIntact, Line
  <2>6. HandedOnOnce'
    <3>1. \A n \in Nat : Whole(n)' = Whole(n)
      BY <1>1 DEF Whole, Line
    <3>2. Whole(lines + 1) = {}
      BY <2>2 DEF Whole
    <3> QED
      <4> SUFFICES ASSUME NEW n \in 1..lines + 1, NEW j \in Whole(n), NEW k \in Whole(n) PROVE j = k
        BY <1>1, <1>3, <3>1 DEF HandedOnOnce
      <4> QED
        BY <1>2, <1>9, <2>3, <3>2 DEF HandedOnOnce
  <2> QED
    BY <2>1, <2>4, <2>5, <2>6
<1> QED
  BY <1>1, <1>6, <1>7, <1>8, <1>9 DEF TailerInv
\* What a step that neither writes the log nor hands anything on leaves alone.
LEMMA LogAndPiecesSame ==
  ASSUME UNCHANGED <<rawlines, lines>>
  PROVE  /\ (UNCHANGED file => (FileInv' <=> FileInv))
         /\ PiecesInv' <=> PiecesInv
         /\ PiecesIntact' <=> PiecesIntact
         /\ HandedOnOnce' <=> HandedOnOnce
         /\ \A n \in Nat : Whole(n)' = Whole(n)
<1>1. (UNCHANGED file => (FileInv' <=> FileInv)) /\ (PiecesInv' <=> PiecesInv)
  BY DEF FileInv, PiecesInv
<1>2. \A n \in Nat : Whole(n)' = Whole(n)
  BY DEF Whole, Line
<1>3. PiecesIntact' <=> PiecesIntact
  BY DEF PiecesIntact, Line
<1>4. HandedOnOnce' <=> HandedOnOnce
  BY DEF HandedOnOnce, Whole, Line
<1> QED
  BY <1>1, <1>2, <1>3, <1>4

\* A place that stays out of reach is one of which nothing is asked again.
LEMMA HandedOnStays ==
  ASSUME TailerTypeOK, UNCHANGED <<file, rawlines, lines>>, HandedOnIsPast,
         \A p \in 1..Len(file) : Past(p) => Past(p)'
  PROVE  HandedOnIsPast'
<1>1. \A n \in 1..lines : Whole(n)' = Whole(n)
  BY DEF Whole, Line
<1> SUFFICES ASSUME NEW p \in 1..Len(file'), NEW n \in 1..lines',
                    file'[p] = <<n, 2>>, Whole(n)' # {}
             PROVE  Past(p)'
  BY DEF HandedOnIsPast
<1>2. p \in 1..Len(file) /\ n \in 1..lines /\ file[p] = <<n, 2>> /\ Whole(n) # {}
  BY <1>1
<1>3. Past(p)
  BY <1>2 DEF HandedOnIsPast
<1> QED
  BY <1>2, <1>3

\* The log is truncated: nothing in it has been handed on.
LEMMA TailerTruncate ==
  ASSUME TailerInv, Truncate
  PROVE  TailerInv'
<1>1. /\ truncations < MaxTruncations /\ truncations' = truncations + 1
      /\ file' = <<>> /\ touched' = "shrunk" /\ due' = {}
      /\ torn' = (torn \/ streams # <<>>)
      /\ UNCHANGED <<watching, size, streams, rawlines, tracker, lines, restarts>>
  BY DEF Truncate
<1>2. TailerTypeOK'
  BY <1>1, EmptySeq, TailerAssumption DEF TailerInv, TailerTypeOK
<1>3. FileInv'
  <2>1. LogOf(<<>>, lines, 0)
    BY AtFacts DEF LogOf
  <2>2. 0 \in 0..lines
    BY TailerAssumption DEF TailerInv, TailerTypeOK
  <2> QED
    BY <1>1, <2>1, <2>2 DEF FileInv
<1>4. PiecesInv'
  BY <1>1, LogAndPiecesSame DEF TailerInv
<1>5. ASSUME ~torn'
      PROVE  StreamsInv' /\ HandedOnIsPast' /\ PiecesIntact' /\ HandedOnOnce'
  <2>1. ~torn /\ streams = <<>> /\ streams' = <<>>
    BY <1>1, <1>5 DEF TailerInv, TailerTypeOK
  <2>2. PiecesIntact' /\ HandedOnOnce'
    BY <1>1, <2>1, LogAndPiecesSame DEF TailerInv
  <2>3. StreamsInv'
    BY <1>1, <2>1 DEF TailerInv, StreamsInv, Boundary, At
  <2>4. HandedOnIsPast'
    BY <1>1 DEF HandedOnIsPast
  <2> QED
    BY <2>2, <2>3, <2>4
<1> QED
  BY <1>2, <1>3, <1>4, <1>5 DEF TailerInv

\* The size of the log is a place where a line begins.
LEMMA LogEndsALine ==
  ASSUME TailerInv
  PROVE  /\ Len(file) \in Boundary /\ Len(file) \in Nat /\ size \in Nat
         /\ streams \in Seq(Stream)
         /\ \A k \in 1..Len(streams) :
              streams[k].start \in Nat /\ streams[k].next \in Nat /\ streams[k].end \in Nat
<1>1. TailerTypeOK /\ FileInv
  BY DEF TailerInv
<1>2. \A k \in 1..Len(streams) : streams[k] \in Stream
  BY <1>1, ElementOfSeq DEF TailerTypeOK
<1> QED
  BY <1>1, <1>2, LogFacts, LenProperties DEF TailerTypeOK, Stream

\* A poll opens a stream where the last one ends, or finds the log shrunk, when
\* no stream is open.
LEMMA TailerPoll ==
  ASSUME TailerInv, Poll
  PROVE  TailerInv'
<1> DEFINE curr == Len(file)
           window == Window(curr)
<1>1. /\ touched' = "no" /\ size' = curr
      /\ streams' = IF size > curr THEN streams ELSE Append(streams, window)
      /\ UNCHANGED <<file, watching, rawlines, tracker, lines, due, torn, truncations, restarts>>
  BY DEF Poll
<1>2. /\ curr \in Boundary /\ curr \in Nat /\ size \in Nat /\ streams \in Seq(Stream)
      /\ Len(streams) \in Nat
      /\ \A k \in 1..Len(streams) :
           streams[k].start \in Nat /\ streams[k].next \in Nat /\ streams[k].end \in Nat
  BY LogEndsALine, LenProperties
<1>3. /\ window \in Stream /\ window.start = size /\ window.next = size /\ window.end = curr
  BY <1>2 DEF Window, Stream
<1>4. UNCHANGED file
  BY <1>1
<1> HIDE DEF curr, window
<1>5. /\ Append(streams, window) \in Seq(Stream)
      /\ Len(Append(streams, window)) = Len(streams) + 1
      /\ \A k \in 1..Len(streams) : Append(streams, window)[k] = streams[k]
      /\ Append(streams, window)[Len(streams) + 1] = window
  BY <1>2, <1>3, AppendProperties
<1>6. TailerTypeOK' /\ streams' \in Seq(Stream)
  BY <1>1, <1>2, <1>5 DEF TailerInv, TailerTypeOK
<1>7. FileInv' /\ PiecesInv'
  BY <1>1, LogAndPiecesSame DEF TailerInv
<1>8. ASSUME ~torn'
      PROVE  StreamsInv' /\ HandedOnIsPast' /\ PiecesIntact' /\ HandedOnOnce'
  <2>1. StreamsInv /\ HandedOnIsPast /\ PiecesIntact /\ HandedOnOnce
    BY <1>1, <1>8 DEF TailerInv
  <2>2. PiecesIntact' /\ HandedOnOnce'
    BY <1>1, <2>1, LogAndPiecesSame
  <2>3. CASE size > curr
    <3>1. streams = <<>> /\ streams' = <<>>
      BY <1>1, <1>2, <2>1, <2>3 DEF StreamsInv, curr
    <3>2. StreamsInv'
      BY <1>1, <1>2, <3>1 DEF StreamsInv, Boundary, At, curr
    <3>3. HandedOnIsPast'
      <4> SUFFICES ASSUME NEW p \in 1..Len(file), NEW n \in 1..lines
                   PROVE  Past(p)'
        BY <1>1 DEF HandedOnIsPast
      <4> QED
        BY <1>1, <3>1 DEF Past, curr
    <3> QED
      BY <2>2, <3>2, <3>3
  <2>4. CASE ~(size > curr)
    <3>1. streams' = Append(streams, window) /\ Len(streams') = Len(streams) + 1 /\ size <= size'
      BY <1>1, <1>2, <1>5, <2>4
    <3>2. ASSUME NEW k \in 1..Len(streams')
          PROVE  \/ k \in 1..Len(streams) /\ streams'[k] = streams[k]
                 \/ k = Len(streams) + 1 /\ streams'[k] = window
      BY <1>2, <1>5, <3>1
    <3>3. \A k \in 1..Len(streams) : streams[k].end <= size /\ streams[k].end <= size'
      BY <1>1, <1>2, <2>1, <2>4 DEF StreamsInv
    <3>4. \A k \in 1..Len(streams') :
            /\ streams'[k].start \in Boundary /\ streams'[k].end \in Boundary
            /\ streams'[k].start <= streams'[k].next /\ streams'[k].next <= streams'[k].end + 1
            /\ streams'[k].end <= size'
      <4> SUFFICES ASSUME NEW k \in 1..Len(streams')
                   PROVE  /\ streams'[k].start \in Boundary /\ streams'[k].end \in Boundary
                          /\ streams'[k].start <= streams'[k].next
                          /\ streams'[k].next <= streams'[k].end + 1
                          /\ streams'[k].end <= size'
        OBVIOUS
      <4>1. CASE k \in 1..Len(streams) /\ streams'[k] = streams[k]
        BY <2>1, <3>3, <4>1 DEF StreamsInv
      <4>2. CASE streams'[k] = window
        BY <1>1, <1>2, <1>3, <2>1, <2>4, <4>2 DEF StreamsInv
      <4> QED
        BY <3>2, <4>1, <4>2
    <3>5. \A j, k \in 1..Len(streams') : j < k => streams'[j].end <= streams'[k].start
      <4> SUFFICES ASSUME NEW j \in 1..Len(streams'), NEW k \in 1..Len(streams'), j < k
                   PROVE  streams'[j].end <= streams'[k].start
        OBVIOUS
      <4>1. j \in 1..Len(streams) /\ streams'[j] = streams[j]
        BY <1>2, <3>1, <3>2
      <4>2. CASE k \in 1..Len(streams) /\ streams'[k] = streams[k]
        BY <2>1, <4>1, <4>2 DEF StreamsInv
      <4>3. CASE streams'[k] = window
        BY <1>3, <3>3, <4>1, <4>3
      <4> QED
        BY <3>2, <4>2, <4>3
    <3>6. size' \in Boundary /\ touched' = "no" /\ size' <= Len(file)
      BY <1>1, <1>2 DEF curr
    <3>7. StreamsInv'
      BY <1>1, <3>4, <3>5, <3>6 DEF StreamsInv, Boundary, At
    <3>8. HandedOnIsPast'
      <4> SUFFICES ASSUME NEW p \in 1..Len(file), NEW n \in 1..lines,
                          file[p] = <<n, 2>>, Whole(n) # {}
                   PROVE  Past(p)'
        BY <1>1, LogAndPiecesSame DEF HandedOnIsPast, TailerInv, TailerTypeOK
      <4>1. Past(p) /\ p \in Nat
        BY <2>1 DEF HandedOnIsPast
      <4>2. \A j \in 1..Len(streams') :
              \/ p <= streams'[j].next
              \/ \E k \in 1..Len(streams) : /\ streams[k].next <= streams'[j].next
                                            /\ streams'[j].end = streams[k].end
        <5> SUFFICES ASSUME NEW j \in 1..Len(streams')
                     PROVE  \/ p <= streams'[j].next
                            \/ \E k \in 1..Len(streams) : /\ streams[k].next <= streams'[j].next
                                                          /\ streams'[j].end = streams[k].end
          OBVIOUS
        <5>1. CASE j \in 1..Len(streams) /\ streams'[j] = streams[j]
          BY <1>2, <5>1
        <5>2. CASE streams'[j] = window
          BY <1>3, <4>1, <5>2 DEF Past
        <5> QED
          BY <3>2, <5>1, <5>2
      <4> QED
        BY <1>1, <1>2, <1>6, <3>1, <4>1, <4>2, PastStays
    <3> QED
      BY <2>2, <3>7, <3>8
  <2> QED
    BY <2>3, <2>4
<1> QED
  BY <1>6, <1>7, <1>8 DEF TailerInv

\* The agent stops with its streams, and starts again where the log then ends.
LEMMA TailerStopStart ==
  ASSUME TailerInv, Stop \/ start
  PROVE  TailerInv'
<1>1. UNCHANGED <<file, rawlines, lines, tracker, torn, truncations>>
  BY DEF Stop, start
<1>2. /\ Len(file) \in Boundary /\ Len(file) \in Nat /\ size \in Nat
      /\ streams \in Seq(Stream)
  BY LogEndsALine
<1>3. TailerTypeOK'
  <2>1. CASE Stop
    BY <1>1, <2>1, EmptySeq DEF Stop, TailerInv, TailerTypeOK
  <2>2. CASE start
    BY <1>1, <1>2, <2>2, TailerAssumption DEF start, WatchedFrom, TailerInv, TailerTypeOK
  <2> QED
    BY <2>1, <2>2
<1>4. FileInv' /\ PiecesInv'
  BY <1>1, LogAndPiecesSame DEF TailerInv
<1>5. ASSUME ~torn'
      PROVE  StreamsInv' /\ HandedOnIsPast' /\ PiecesIntact' /\ HandedOnOnce'
  <2>1. StreamsInv /\ HandedOnIsPast /\ PiecesIntact /\ HandedOnOnce
    BY <1>1, <1>5 DEF TailerInv
  <2>2. PiecesIntact' /\ HandedOnOnce'
    BY <1>1, <2>1, LogAndPiecesSame
  <2>3. CASE Stop
    <3>1. streams' = <<>> /\ UNCHANGED <<size, touched>>
      BY <2>3 DEF Stop
    <3>2. StreamsInv'
      BY <1>1, <2>1, <3>1 DEF StreamsInv, Boundary, At
    <3>3. HandedOnIsPast'
      <4>1. \A p \in 1..Len(file) : Past(p) => Past(p)'
        BY <3>1 DEF Past
      <4> QED
        BY <1>1, <2>1, <4>1, HandedOnStays DEF TailerInv
    <3> QED
      BY <2>2, <3>2, <3>3
  <2>4. CASE start
    <3>1. UNCHANGED streams /\ size' = Len(file) /\ touched' = "no"
      BY <2>4 DEF start, WatchedFrom
    <3>2. CASE streams = <<>>
      <4>1. StreamsInv'
        BY <1>1, <1>2, <3>1, <3>2 DEF StreamsInv, Boundary, At
      <4>2. HandedOnIsPast'
        <5>1. \A p \in 1..Len(file) : p <= size'
          BY <1>2, <3>1
        <5>2. \A p \in 1..Len(file) : Past(p)'
          BY <3>1, <3>2, <5>1 DEF Past
        <5> QED
          BY <1>1, <2>1, <5>2, HandedOnStays DEF TailerInv
      <4> QED
        BY <2>2, <4>1, <4>2
    <3>3. CASE streams # <<>>
      <4>1. size <= Len(file)
        BY <2>1, <3>3 DEF StreamsInv
      <4>2. \A k \in 1..Len(streams) : streams[k].end <= Len(file)
        BY <1>2, <2>1, <4>1, LogEndsALine DEF StreamsInv
      <4>3. StreamsInv'
        BY <1>1, <1>2, <2>1, <3>1, <4>2 DEF StreamsInv, Boundary, At
      <4>4. HandedOnIsPast'
        <5>1. \A p \in 1..Len(file) : p <= size'
          BY <1>2, <3>1
        <5>2. \A p \in 1..Len(file) : Past(p) => Past(p)'
          BY <3>1, <5>1 DEF Past
        <5> QED
          BY <1>1, <2>1, <5>2, HandedOnStays DEF TailerInv
      <4> QED
        BY <2>2, <4>3, <4>4
    <3> QED
      BY <3>2, <3>3
  <2> QED
    BY <2>3, <2>4
<1> QED
  BY <1>3, <1>4, <1>5 DEF TailerInv

\* A sequence without its k-th element.
LEMMA RemovedFrom ==
  ASSUME NEW T, NEW s \in Seq(T), NEW k \in 1..Len(s)
  PROVE  /\ RemoveAt(s, k) \in Seq(T)
         /\ Len(RemoveAt(s, k)) = Len(s) - 1
         /\ \A j \in 1..Len(s) - 1 : RemoveAt(s, k)[j] = s[IF j < k THEN j ELSE j + 1]
<1>1. Len(s) \in Nat /\ k \in Nat
  BY LenProperties
<1> DEFINE m == Len(s)
           a == SubSeq(s, 1, k - 1)
           b == SubSeq(s, k + 1, m)
<1>2. \A i \in 1..m : s[i] \in T
  BY ElementOfSeq
<1>3. /\ a \in Seq(T) /\ Len(a) = k - 1
      /\ \A i \in 1..k - 1 : a[i] = s[i]
  <2>1. 1 \in Int /\ k - 1 \in Int /\ \A i \in 1..k - 1 : s[i] \in T
    BY <1>1, <1>2
  <2>2. /\ a \in Seq(T) /\ Len(a) = IF 1 <= k - 1 THEN k - 1 - 1 + 1 ELSE 0
        /\ \A i \in 1..k - 1 - 1 + 1 : a[i] = s[1 + i - 1]
    BY <2>1, SubSeqProperties
  <2> HIDE DEF a
  <2> QED
    BY <1>1, <2>2
<1>4. /\ b \in Seq(T) /\ Len(b) = m - k
      /\ \A i \in 1..m - k : b[i] = s[k + i]
  <2>1. k + 1 \in Int /\ m \in Int /\ \A i \in k + 1..m : s[i] \in T
    BY <1>1, <1>2
  <2>2. /\ b \in Seq(T) /\ Len(b) = IF k + 1 <= m THEN m - (k + 1) + 1 ELSE 0
        /\ \A i \in 1..m - (k + 1) + 1 : b[i] = s[k + 1 + i - 1]
    BY <2>1, SubSeqProperties
  <2> HIDE DEF b
  <2> QED
    BY <1>1, <2>2
<1>5. RemoveAt(s, k) = a \o b
  BY DEF RemoveAt
<1> HIDE DEF a, b
<1>6. /\ a \o b \in Seq(T) /\ Len(a \o b) = Len(a) + Len(b)
      /\ \A i \in 1..Len(a) + Len(b) : (a \o b)[i] = IF i <= Len(a) THEN a[i] ELSE b[i - Len(a)]
  BY <1>3, <1>4, ConcatProperties
<1>7. Len(a) + Len(b) = m - 1
  BY <1>1, <1>3, <1>4
<1>8. ASSUME NEW j \in 1..m - 1
      PROVE  (a \o b)[j] = s[IF j < k THEN j ELSE j + 1]
  <2>1. CASE j < k
    BY <1>1, <1>3, <1>6, <1>7, <2>1
  <2>2. CASE ~(j < k)
    <3> DEFINE i == j - (k - 1)
    <3>1. i \in 1..m - k /\ k + i = j + 1 /\ ~(j <= k - 1)
      BY <1>1, <2>2
    <3>2. (a \o b)[j] = b[i]
      BY <1>3, <1>6, <1>7, <3>1
    <3> HIDE DEF i
    <3>3. b[i] = s[k + i]
      BY <1>4, <3>1
    <3> QED
      BY <2>2, <3>1, <3>2, <3>3
  <2> QED
    BY <2>1, <2>2
<1> QED
  BY <1>5, <1>6, <1>7, <1>8

\* A stream that has nothing left is closed: the others reach no farther.
LEMMA TailerStreamEnds ==
  ASSUME TailerInv, NEW k \in 1..Len(streams), streams' = RemoveAt(streams, k),
         UNCHANGED <<rawlines, tracker, file, touched, watching, size, lines, due, torn,
                     truncations, restarts>>
  PROVE  TailerInv'
<1>1. /\ Len(file) \in Boundary /\ Len(file) \in Nat /\ size \in Nat
      /\ streams \in Seq(Stream) /\ Len(streams) \in Nat
      /\ \A j \in 1..Len(streams) :
           streams[j].start \in Nat /\ streams[j].next \in Nat /\ streams[j].end \in Nat
  BY LogEndsALine, LenProperties
<1> DEFINE old(j) == IF j < k THEN j ELSE j + 1
<1>2. /\ streams' \in Seq(Stream) /\ Len(streams') = Len(streams) - 1
      /\ \A j \in 1..Len(streams') : old(j) \in 1..Len(streams) /\ streams'[j] = streams[old(j)]
  <2>1. /\ RemoveAt(streams, k) \in Seq(Stream) /\ Len(RemoveAt(streams, k)) = Len(streams) - 1
        /\ \A j \in 1..Len(streams) - 1 : RemoveAt(streams, k)[j] = streams[old(j)]
    BY <1>1, RemovedFrom
  <2>2. \A j \in 1..Len(streams) - 1 : old(j) \in 1..Len(streams)
    BY <1>1
  <2> HIDE DEF old
  <2> QED
    BY <2>1, <2>2
<1>3. \A i, j \in 1..Len(streams') : i < j => old(i) < old(j)
  BY <1>1, <1>2
<1> HIDE DEF old
<1>4. TailerTypeOK'
  BY <1>2 DEF TailerInv, TailerTypeOK
<1>5. FileInv' /\ PiecesInv'
  BY LogAndPiecesSame DEF TailerInv
<1>6. ASSUME ~torn'
      PROVE  StreamsInv' /\ HandedOnIsPast' /\ PiecesIntact' /\ HandedOnOnce'
  <2>1. StreamsInv /\ HandedOnIsPast /\ PiecesIntact /\ HandedOnOnce
    BY <1>6 DEF TailerInv
  <2>2. PiecesIntact' /\ HandedOnOnce'
    BY <2>1, LogAndPiecesSame
  <2>3. StreamsInv'
    <3>1. touched = "shrunk" => streams' = <<>>
      <4>1. touched # "shrunk"
        BY <1>1, <2>1 DEF StreamsInv
      <4> QED
        BY <4>1
    <3>2. \A j \in 1..Len(streams') :
            /\ streams'[j].start \in Boundary /\ streams'[j].end \in Boundary
            /\ streams'[j].start <= streams'[j].next /\ streams'[j].next <= streams'[j].end + 1
            /\ streams'[j].end <= size
      BY <1>2, <2>1 DEF StreamsInv
    <3>3. \A i, j \in 1..Len(streams') : i < j => streams'[i].end <= streams'[j].start
      BY <1>2, <1>3, <2>1 DEF StreamsInv
    <3> QED
      BY <2>1, <3>1, <3>2, <3>3 DEF StreamsInv, Boundary, At
  <2>4. HandedOnIsPast'
    <3>1. \A p \in 1..Len(file) : Past(p) => Past(p)'
      BY <1>2 DEF Past
    <3> QED
      BY <2>1, <3>1, HandedOnStays DEF TailerInv
  <2> QED
    BY <2>2, <2>3, <2>4
<1> QED
  BY <1>4, <1>5, <1>6 DEF TailerInv

\* The pieces of a chunk are handed on one for each place where one begins, and
\* no line is whole in two of them.
LEMMA PiecesFacts ==
  ASSUME TailerTypeOK, FileInv, NEW s \in Stream, NEW chunk, ChunkOf(s, chunk)
  PROVE  /\ Pieces(s, chunk) \in Seq(Piece)
         /\ \A i \in 1..Len(Pieces(s, chunk)) :
              \E j \in Begins(chunk) : Pieces(s, chunk)[i] = PieceAt(s, chunk, j)
         /\ \A i \in 1..Len(Pieces(s, chunk)), n \in Nat :
              Pieces(s, chunk)[i].text = Line(n) =>
                \E p \in s.next + 2..s.next + Len(chunk) : file[p] = <<n, 2>>
         /\ \A i, m \in 1..Len(Pieces(s, chunk)), n \in Nat :
              Pieces(s, chunk)[i].text = Line(n) /\ Pieces(s, chunk)[m].text = Line(n) => i = m
<1> DEFINE S == Begins(chunk)
           f == InOrder(S)
           c == Cardinality(S)
           ps == Pieces(s, chunk)
<1>1. /\ chunk \in Seq(Byte) /\ Len(chunk) \in Nat /\ s.next \in Nat
      /\ file \in Seq(Byte) /\ Len(file) \in Nat /\ s.next + Len(chunk) <= Len(file)
      /\ \A i \in 1..Len(chunk) : chunk[i] = file[s.next + i]
  BY LenProperties DEF ChunkOf, Stream, TailerTypeOK
<1>2. S \in SUBSET Nat /\ IsFiniteSet(S)
  <2>1. IsFiniteSet(1..Len(chunk)) /\ S \subseteq 1..Len(chunk)
    BY <1>1, FS_Interval DEF Begins
  <2> QED
    BY <1>1, <2>1, FS_Subset
<1>3. c \in Nat /\ f \in [1..c -> S] /\ \A i, m \in 1..c : f[i] = f[m] => i = m
  <2> HIDE DEF S
  <2> QED
    BY <1>2, InOrderFacts
<1>4. ps = [i \in 1..c |-> PieceAt(s, chunk, f[i])]
  BY DEF Pieces
<1> HIDE DEF f, c, ps
<1>5. \A j \in S : PieceAt(s, chunk, j) \in Piece
  BY PieceText
<1>6. ps \in Seq(Piece) /\ Len(ps) = c /\ \A i \in 1..c : f[i] \in S /\ ps[i] = PieceAt(s, chunk, f[i])
  <2> HIDE DEF S
  <2>1. \A i \in 1..c : f[i] \in S
    BY <1>3
  <2>2. ps \in [1..c -> Piece]
    BY <1>4, <1>5, <2>1
  <2>3. ps \in Seq(Piece) /\ Len(ps) = c
    BY <1>3, <2>2, IsASeq
  <2> QED
    BY <1>4, <2>1, <2>3
<1>7. ASSUME NEW i \in 1..c, NEW n \in Nat, ps[i].text = Line(n)
      PROVE  /\ chunk[f[i]] = <<n, 1>> /\ f[i] \in 1..Len(chunk)
             /\ f[i] + 1 \in 1..Len(chunk) /\ chunk[f[i] + 1] = <<n, 2>>
  BY <1>6, <1>7, PieceText, SMTT(30)
<1>8. ASSUME NEW i \in 1..c, NEW n \in Nat, ps[i].text = Line(n)
      PROVE  \E p \in s.next + 2..s.next + Len(chunk) : file[p] = <<n, 2>>
  <2> DEFINE j == f[i]
  <2>1. j \in 1..Len(chunk) /\ j + 1 \in 1..Len(chunk) /\ chunk[j + 1] = <<n, 2>>
    BY <1>7, <1>8
  <2> HIDE DEF j
  <2>2. s.next + (j + 1) \in s.next + 2..s.next + Len(chunk)
    BY <1>1, <2>1
  <2>3. file[s.next + (j + 1)] = <<n, 2>>
    BY <1>1, <2>1
  <2> QED
    BY <2>2, <2>3
<1>9. ASSUME NEW i \in 1..c, NEW m \in 1..c, NEW n \in Nat,
             ps[i].text = Line(n), ps[m].text = Line(n)
      PROVE  i = m
  <2> DEFINE j == f[i]
             l == f[m]
  <2>1. j \in 1..Len(chunk) /\ chunk[j] = <<n, 1>> /\ l \in 1..Len(chunk) /\ chunk[l] = <<n, 1>>
    BY <1>7, <1>9
  <2> HIDE DEF j, l
  <2>2. /\ s.next + j \in 1..Len(file) /\ s.next + l \in 1..Len(file)
        /\ file[s.next + j] = <<n, 1>> /\ file[s.next + l] = <<n, 1>>
    <3>1. s.next + j \in 1..Len(file) /\ s.next + l \in 1..Len(file)
      <4> DEFINE a == s.next
                 c1 == Len(chunk)
      <4>1. a \in Nat /\ c1 \in Nat /\ a + c1 <= Len(file) /\ j \in 1..c1 /\ l \in 1..c1
        BY <1>1, <2>1
      <4> HIDE DEF a, c1
      <4>2. a + j \in 1..Len(file) /\ a + l \in 1..Len(file)
        BY <1>1, <4>1
      <4> QED
        BY <4>2 DEF a
    <3> QED
      BY <1>1, <2>1, <3>1
  <2>3. <<n, 1>> # Newline
    BY DEF Newline
  <2>4. s.next + j = s.next + l
    BY <2>2, <2>3, LogFacts
  <2>5. j = l
    BY <1>1, <2>1, <2>4
  <2> QED
    BY <1>3, <2>5 DEF j, l
<1> QED
  BY <1>6, <1>8, <1>9 DEF ps

\* A stream that has read on is one.
LEMMA StreamAdvanced ==
  ASSUME NEW s \in Stream, NEW n \in Nat
  PROVE  /\ [s EXCEPT !.next = n] \in Stream
         /\ [s EXCEPT !.next = n].start = s.start
         /\ [s EXCEPT !.next = n].end = s.end
         /\ [s EXCEPT !.next = n].next = n
BY DEF Stream

\* A stream hands on the pieces of a chunk: what of a line makes it whole is in
\* the reach of this stream before the step, and of none after it.
LEMMA TailerDelivers ==
  ASSUME TailerInv, NEW k \in 1..Len(streams), NEW chunk, ChunkOf(streams[k], chunk),
         streams' = [streams EXCEPT ![k].next = @ + Len(chunk)],
         rawlines' = rawlines \o Pieces(streams[k], chunk),
         tracker' = streams[k].end,
         UNCHANGED <<file, touched, watching, size, lines, due, torn, truncations, restarts>>
  PROVE  TailerInv'
<1> DEFINE s == streams[k]
           ps == Pieces(s, chunk)
           m == Len(chunk)
           next == s.next
           end == s.end
           old == Len(rawlines)
<1>1. /\ Len(file) \in Boundary /\ Len(file) \in Nat /\ size \in Nat
      /\ streams \in Seq(Stream) /\ Len(streams) \in Nat
      /\ \A j \in 1..Len(streams) :
           streams[j].start \in Nat /\ streams[j].next \in Nat /\ streams[j].end \in Nat
  BY LogEndsALine, LenProperties
<1>2. /\ TailerTypeOK /\ FileInv /\ PiecesInv
      /\ s \in Stream /\ rawlines \in Seq(Piece) /\ old \in Nat /\ lines \in Nat
  BY <1>1, ElementOfSeq, LenProperties, TailerAssumption, SMTT(30) DEF TailerInv, TailerTypeOK
<1>3. /\ m \in Nat \ {0} /\ next \in Nat /\ end \in Nat
      /\ next + m <= Len(file) /\ next + m <= end + 1
  BY <1>1 DEF ChunkOf
<1>4. /\ ps \in Seq(Piece) /\ Len(ps) \in Nat
      /\ \A i \in 1..Len(ps) : \E j \in Begins(chunk) : ps[i] = PieceAt(s, chunk, j)
      /\ \A i \in 1..Len(ps), n \in Nat :
           ps[i].text = Line(n) => \E p \in next + 2..next + m : file[p] = <<n, 2>>
      /\ \A i, l \in 1..Len(ps), n \in Nat :
           ps[i].text = Line(n) /\ ps[l].text = Line(n) => i = l
  <2>1. /\ Pieces(s, chunk) \in Seq(Piece)
        /\ \A i \in 1..Len(Pieces(s, chunk)) :
             \E j \in Begins(chunk) : Pieces(s, chunk)[i] = PieceAt(s, chunk, j)
        /\ \A i \in 1..Len(Pieces(s, chunk)), n \in Nat :
             Pieces(s, chunk)[i].text = Line(n) =>
               \E p \in s.next + 2..s.next + Len(chunk) : file[p] = <<n, 2>>
        /\ \A i, l \in 1..Len(Pieces(s, chunk)), n \in Nat :
             Pieces(s, chunk)[i].text = Line(n) /\ Pieces(s, chunk)[l].text = Line(n) => i = l
    <3>1. TailerTypeOK /\ FileInv /\ s \in Stream /\ ChunkOf(s, chunk)
      BY <1>2
    <3> HIDE DEF s
    <3> QED
      BY <3>1, PiecesFacts
  <2>2. Len(Pieces(s, chunk)) \in Nat
    BY <2>1, LenProperties
  <2> QED
    BY <2>1, <2>2
<1>5. /\ streams' = [streams EXCEPT ![k] = [s EXCEPT !.next = next + m]]
      /\ rawlines' = rawlines \o ps
      /\ ChunkOf(s, chunk) /\ streams[k] = s /\ s.next = next /\ s.end = end
  OBVIOUS
<1> HIDE DEF s, ps, m, next, end, old
<1>6. /\ streams' \in Seq(Stream) /\ Len(streams') = Len(streams)
      /\ streams'[k].start = s.start /\ streams'[k].end = end /\ streams'[k].next = next + m
      /\ \A j \in 1..Len(streams) : j # k => streams'[j] = streams[j]
  <2> DEFINE t == [s EXCEPT !.next = next + m]
  <2>1. next + m \in Nat
    BY <1>3
  <2>2. t \in Stream /\ t.start = s.start /\ t.end = end /\ t.next = next + m
    BY <1>2, <1>5, <2>1, StreamAdvanced
  <2>3. streams' = [streams EXCEPT ![k] = t]
    BY <1>5
  <2> HIDE DEF t
  <2>4. /\ [streams EXCEPT ![k] = t] \in Seq(Stream)
        /\ Len([streams EXCEPT ![k] = t]) = Len(streams)
        /\ \A j \in 1..Len(streams) : [streams EXCEPT ![k] = t][j] = IF j = k THEN t ELSE streams[j]
    BY <1>1, <2>2, ExceptSeq
  <2> QED
    BY <2>2, <2>3, <2>4
<1>7. /\ rawlines' \in Seq(Piece) /\ Len(rawlines') = old + Len(ps)
      /\ \A i \in 1..old : rawlines'[i] = rawlines[i]
      /\ \A i \in 1..Len(rawlines') : ~(i <= old) => i - old \in 1..Len(ps) /\ rawlines'[i] = ps[i - old]
  <2>1. /\ rawlines \o ps \in Seq(Piece) /\ Len(rawlines \o ps) = old + Len(ps)
        /\ \A i \in 1..old + Len(ps) :
             (rawlines \o ps)[i] = IF i <= old THEN rawlines[i] ELSE ps[i - old]
    BY <1>2, <1>4, ConcatProperties DEF old
  <2>2. /\ rawlines' \in Seq(Piece) /\ Len(rawlines') = old + Len(ps)
        /\ \A i \in 1..old + Len(ps) : rawlines'[i] = IF i <= old THEN rawlines[i] ELSE ps[i - old]
    BY <1>5, <2>1
  <2>3. ASSUME NEW i \in 1..old PROVE rawlines'[i] = rawlines[i]
    BY <1>2, <1>4, <2>2
  <2>4. ASSUME NEW i \in 1..Len(rawlines'), ~(i <= old)
        PROVE  i - old \in 1..Len(ps) /\ rawlines'[i] = ps[i - old]
    BY <1>2, <1>4, <2>2, <2>4, SMTT(30)
  <2> QED
    BY <2>2, <2>3, <2>4
<1>8. TailerTypeOK'
  BY <1>3, <1>6, <1>7, SMTT(30) DEF TailerInv, TailerTypeOK
<1>9. FileInv'
  BY <1>2 DEF FileInv
<1>10. ASSUME NEW i \in 1..Len(rawlines')
       PROVE  \/ i \in 1..old /\ rawlines'[i] = rawlines[i]
              \/ \E j \in Begins(chunk) : rawlines'[i] = PieceAt(s, chunk, j)
  <2>1. CASE i <= old
    <3>1. i \in 1..old
      <4>1. i \in 1..Len(rawlines') /\ Len(rawlines') \in Nat
        BY <1>7
      <4> QED
        BY <1>2, <2>1, <4>1
    <3> QED
      BY <1>7, <3>1
  <2>2. CASE ~(i <= old)
    <3>1. i - old \in 1..Len(ps) /\ rawlines'[i] = ps[i - old]
      BY <1>7, <2>2
    <3>2. PICK j \in Begins(chunk) : ps[i - old] = PieceAt(s, chunk, j)
      BY <1>4, <3>1
    <3> QED
      BY <3>1, <3>2
  <2> QED
    BY <2>1, <2>2
<1>11. PiecesInv'
  <2> SUFFICES ASSUME NEW i \in 1..Len(rawlines'), NEW j \in 1..Len(rawlines'[i].text)
               PROVE  rawlines'[i].text[j][1] <= lines
    BY DEF PiecesInv
  <2>1. CASE i \in 1..old /\ rawlines'[i] = rawlines[i]
    BY <1>2, <2>1 DEF PiecesInv, old
  <2>2. CASE \E l \in Begins(chunk) : rawlines'[i] = PieceAt(s, chunk, l)
    <3>1. PICK l \in Begins(chunk) : rawlines'[i] = PieceAt(s, chunk, l)
      BY <2>2
    <3>2. \A x \in 1..Len(PieceAt(s, chunk, l).text) : PieceAt(s, chunk, l).text[x][1] <= lines
      BY <1>2, <1>5, PieceText
    <3> QED
      BY <3>1, <3>2
  <2> QED
    BY <1>10, <2>1, <2>2
<1>12. ASSUME ~torn'
       PROVE  StreamsInv' /\ HandedOnIsPast' /\ PiecesIntact' /\ HandedOnOnce'
  <2>1. StreamsInv /\ HandedOnIsPast /\ PiecesIntact /\ HandedOnOnce
    BY <1>12 DEF TailerInv
  <2>2. /\ s.start \in Boundary /\ s.end \in Boundary /\ s.start \in Nat
        /\ s.start <= next /\ next <= end + 1 /\ end <= size
    BY <1>1, <2>1 DEF StreamsInv, s, next, end
  <2>3. StreamsInv'
    <3>1. touched = "shrunk" => streams' = <<>>
      BY <1>1, <2>1 DEF StreamsInv
    <3>2. \A j \in 1..Len(streams') :
            /\ streams'[j].start \in Boundary /\ streams'[j].end \in Boundary
            /\ streams'[j].start <= streams'[j].next /\ streams'[j].next <= streams'[j].end + 1
            /\ streams'[j].end <= size
      <4> SUFFICES ASSUME NEW j \in 1..Len(streams)
                   PROVE  /\ streams'[j].start \in Boundary /\ streams'[j].end \in Boundary
                          /\ streams'[j].start <= streams'[j].next
                          /\ streams'[j].next <= streams'[j].end + 1
                          /\ streams'[j].end <= size
        BY <1>6
      <4>1. CASE j = k
        <5>1. s.start <= next + m
          BY <1>3, <2>2
        <5> QED
          BY <1>3, <1>6, <2>2, <4>1, <5>1 DEF end
      <4>2. CASE j # k
        BY <1>6, <2>1, <4>2 DEF StreamsInv
      <4> QED
        BY <4>1, <4>2
    <3>3. \A j \in 1..Len(streams) : streams'[j].start = streams[j].start /\ streams'[j].end = streams[j].end
      BY <1>6 DEF s, end
    <3>4. \A i, j \in 1..Len(streams') : i < j => streams'[i].end <= streams'[j].start
      BY <1>6, <2>1, <3>3 DEF StreamsInv
    <3> QED
      BY <2>1, <3>1, <3>2, <3>4 DEF StreamsInv, Boundary, At
  <2>4. PiecesIntact'
    <3> SUFFICES ASSUME NEW i \in 1..Len(rawlines')
                 PROVE  \/ rawlines'[i].cut
                        \/ \E n \in 1..lines : rawlines'[i].text \in {Line(n), <<<<n, 1>>>>}
      BY DEF PiecesIntact, Line
    <3>1. CASE i \in 1..old /\ rawlines'[i] = rawlines[i]
      BY <2>1, <3>1 DEF PiecesIntact, old
    <3>2. CASE \E l \in Begins(chunk) : rawlines'[i] = PieceAt(s, chunk, l)
      BY <1>2, <1>5, <2>2, <3>2, PieceIntact DEF next
    <3> QED
      BY <1>10, <3>1, <3>2
  <2>5. ASSUME NEW n \in 1..lines, NEW p \in next + 2..next + m, file[p] = <<n, 2>>
        PROVE  /\ p \in 1..Len(file) /\ ~Past(p) /\ Past(p)'
    <3>1. p \in 1..Len(file) /\ p \in Nat
      BY <1>1, <1>3, SMTT(30)
    <3>2. ~Past(p)
      <4>1. next < p /\ p <= end + 1
        BY <1>3, <3>1
      <4> QED
        BY <1>5, <4>1 DEF Past
    <3>3. p - 1 # end /\ p - 1 <= end
      <4>1. p - 1 \notin Boundary
        BY <1>2, <2>5, <3>1, LogFacts
      <4>2. p - 1 # end
        BY <1>5, <2>2, <4>1
      <4> QED
        BY <1>3, <3>1, <4>2
    <3>4. p <= end
      <4>1. p \in Nat /\ end \in Nat
        BY <1>3, <3>1
      <4> QED
        BY <3>3, <4>1, \A x, y \in Nat : x - 1 # y /\ x - 1 <= y => x <= y
    <3>5. p <= size
      BY <1>1, <1>3, <2>2, <3>1, <3>4
    <3>6. ASSUME NEW j \in 1..Len(streams') PROVE ~(streams'[j].next < p /\ p <= streams'[j].end + 1)
      <4>1. j \in 1..Len(streams)
        BY <1>6
      <4>2. CASE j = k
        BY <1>3, <1>6, <3>1, <4>2
      <4>3. CASE j < k
        <5>1. streams'[j] = streams[j] /\ streams[j].end <= s.start /\ streams[j].end \in Nat
          BY <1>1, <1>6, <2>1, <4>1, <4>3 DEF StreamsInv, s
        <5> DEFINE e == streams[j].end
        <5>2. e \in Nat /\ e <= s.start /\ streams'[j].end = e
          BY <5>1
        <5> HIDE DEF e
        <5>3. e \in Nat /\ s.start \in Nat /\ e <= s.start /\ s.start <= next
          BY <2>2, <5>2
        <5>4. p \in Nat /\ next \in Nat /\ next + 2 <= p
          BY <1>3, <3>1
        <5>5. e + 1 < p
          BY <5>3, <5>4, FarBefore
        <5> QED
          BY <3>1, <5>2, <5>5
      <4>4. CASE k < j
        <5>1. streams'[j] = streams[j] /\ end <= streams[j].start /\ streams[j].start \in Nat
              /\ streams[j].next \in Nat /\ streams[j].start <= streams[j].next
          BY <1>1, <1>6, <2>1, <4>1, <4>4, SMTT(30) DEF StreamsInv, s, end
        <5> DEFINE from == streams[j].start
                   on == streams[j].next
        <5>2. from \in Nat /\ on \in Nat /\ end <= from /\ from <= on /\ streams'[j].next = on
          BY <5>1
        <5> HIDE DEF from, on
        <5>3. p \in Nat /\ end \in Nat /\ p <= end
          BY <1>3, <3>1, <3>4
        <5>4. ~(on < p)
          BY <5>2, <5>3, \A x, y, z, w \in Nat : x <= y /\ y <= z /\ z <= w => ~(w < x)
        <5> QED
          BY <5>2, <5>4
      <4> QED
        BY <1>1, <4>1, <4>2, <4>3, <4>4
    <3> QED
      BY <3>1, <3>2, <3>5, <3>6 DEF Past
  <2>6. ASSUME NEW p \in 1..Len(file), Past(p) PROVE Past(p)'
    <3>1. \A j \in 1..Len(streams') :
            \/ p <= streams'[j].next
            \/ \E i \in 1..Len(streams) : /\ streams[i].next <= streams'[j].next
                                          /\ streams'[j].end = streams[i].end
      <4> SUFFICES ASSUME NEW j \in 1..Len(streams)
                   PROVE  /\ streams[j].next <= streams'[j].next
                          /\ streams'[j].end = streams[j].end
        BY <1>6
      <4>1. CASE j = k
        <5>1. next <= next + m
          BY <1>3
        <5> QED
          BY <1>6, <4>1, <5>1 DEF s, next, end
      <4>2. CASE j # k
        BY <1>1, <1>6, <4>2
      <4> QED
        BY <4>1, <4>2
    <3> QED
      <4>1. p \in Nat /\ size <= size' /\ size' \in Nat
        BY <1>1
      <4> QED
        BY <1>1, <1>6, <2>6, <3>1, <4>1, PastStays
  <2>7. ASSUME NEW n \in 1..lines, NEW i \in 1..Len(rawlines'), ~(i <= old),
               rawlines'[i].text = Line(n)
        PROVE  \E p \in next + 2..next + m : file[p] = <<n, 2>>
    <3>1. n \in Nat
      BY <1>2
    <3>2. i - old \in 1..Len(ps) /\ ps[i - old].text = Line(n)
      BY <1>7, <2>7
    <3> QED
      BY <1>4, <3>1, <3>2
  <2>8. HandedOnIsPast'
    <3> SUFFICES ASSUME NEW p \in 1..Len(file), NEW n \in 1..lines,
                        file[p] = <<n, 2>>, Whole(n)' # {}
                 PROVE  Past(p)'
      BY DEF HandedOnIsPast
    <3>1. PICK i \in 1..Len(rawlines') : rawlines'[i].text = Line(n)
      BY DEF Whole, Line
    <3>2. CASE i <= old
      <4>1. Whole(n) # {}
        BY <1>2, <1>7, <3>1, <3>2 DEF Whole, old
      <4> QED
        BY <2>1, <2>6, <4>1 DEF HandedOnIsPast
    <3>3. CASE ~(i <= old)
      <4>1. PICK r \in next + 2..next + m : file[r] = <<n, 2>>
        BY <2>7, <3>1, <3>3
      <4>2. r \in 1..Len(file) /\ Past(r)'
        BY <2>5, <4>1
      <4>3. <<n, 2>> # Newline
        BY DEF Newline
      <4>4. r = p
        BY <1>2, <4>1, <4>2, <4>3, LogFacts
      <4> QED
        BY <4>2, <4>4
    <3> QED
      BY <3>2, <3>3
  <2>9. ASSUME NEW n \in 1..lines, NEW i \in 1..Len(rawlines'), NEW l \in 1..Len(rawlines'),
               rawlines'[i].text = Line(n), rawlines'[l].text = Line(n), ~(i <= old)
        PROVE  i = l
    <3>1. CASE l <= old
      <4>1. Whole(n) # {}
        BY <1>2, <1>7, <2>9, <3>1 DEF Whole, old
      <4>2. PICK p \in next + 2..next + m : file[p] = <<n, 2>>
        BY <2>7, <2>9
      <4>3. p \in 1..Len(file) /\ ~Past(p)
        BY <2>5, <4>2
      <4> QED
        BY <2>1, <4>1, <4>2, <4>3 DEF HandedOnIsPast
    <3>2. CASE ~(l <= old)
      <4>1. /\ i - old \in 1..Len(ps) /\ ps[i - old].text = Line(n)
            /\ l - old \in 1..Len(ps) /\ ps[l - old].text = Line(n)
        BY <1>7, <2>9, <3>2
      <4>2. i - old = l - old
        <5>1. n \in Nat
          BY <1>2
        <5> QED
          BY <1>4, <4>1, <5>1
      <4> QED
        BY <1>2, <1>7, <4>2
    <3> QED
      BY <3>1, <3>2
  <2>10. HandedOnOnce'
    <3> SUFFICES ASSUME NEW n \in 1..lines, NEW i \in Whole(n)', NEW l \in Whole(n)'
                 PROVE  i = l
      BY DEF HandedOnOnce
    <3>1. /\ i \in 1..Len(rawlines') /\ rawlines'[i].text = Line(n)
          /\ l \in 1..Len(rawlines') /\ rawlines'[l].text = Line(n)
      BY DEF Whole, Line
    <3>2. CASE i <= old /\ l <= old
      <4>1. i \in Whole(n) /\ l \in Whole(n)
        BY <1>2, <1>7, <3>1, <3>2 DEF Whole, old
      <4> QED
        BY <2>1, <4>1 DEF HandedOnOnce
    <3>3. CASE ~(i <= old)
      BY <2>9, <3>1, <3>3
    <3>4. CASE ~(l <= old)
      BY <2>9, <3>1, <3>4
    <3> QED
      BY <3>2, <3>3, <3>4
  <2> QED
    BY <2>3, <2>4, <2>8, <2>10
<1> QED
  BY <1>8, <1>9, <1>11, <1>12 DEF TailerInv

\* The listener of a stream.
LEMMA TailerData ==
  ASSUME TailerInv, NEW k \in 1..Len(streams), Data(k)
  PROVE  TailerInv'
<1> DEFINE s == streams[k]
           chunk == IF s.next >= Len(file) \/ s.next > s.end THEN <<>> ELSE Available(s)
<1>1. /\ IF chunk = <<>>
         THEN streams' = RemoveAt(streams, k) /\ UNCHANGED <<rawlines, tracker>>
         ELSE /\ streams' = [streams EXCEPT ![k].next = @ + Len(chunk)]
              /\ rawlines' = rawlines \o Pieces(s, chunk)
              /\ tracker' = s.end
      /\ UNCHANGED <<file, touched, watching, size, lines, due, torn, truncations, restarts>>
  BY DEF Data
<1>2. CASE chunk = <<>>
  <2> HIDE DEF chunk
  <2> QED
    BY <1>1, <1>2, TailerStreamEnds
<1>3. CASE chunk # <<>>
  <2>1. s \in Stream /\ s.next \in Nat /\ s.end \in Nat /\ Len(file) \in Nat /\ file \in Seq(Byte)
    BY LogEndsALine, ElementOfSeq DEF TailerInv, TailerTypeOK
  <2>2. chunk = Available(s) /\ ~(s.next >= Len(file) \/ s.next > s.end)
    BY <1>3
  <2>3. s.next < Len(file) /\ s.next <= s.end
    BY <2>1, <2>2
  <2> HIDE DEF chunk
  <2>4. ChunkOf(s, chunk)
    BY <2>1, <2>2, <2>3, AvailableFacts DEF ChunkOf
  <2> QED
    BY <1>1, <1>3, <2>4, TailerDelivers
<1> QED
  BY <1>2, <1>3

LEMMA TailerStepInv == TailerInv /\ [TailerNext]_tailerVars => TailerInv'
<1> SUFFICES ASSUME TailerInv, [TailerNext]_tailerVars PROVE TailerInv'
  OBVIOUS
<1>1. CASE AppendLine
  BY <1>1, TailerAppend
<1>2. CASE Truncate
  BY <1>2, TailerTruncate
<1>3. CASE Poll
  BY <1>3, TailerPoll
<1>4. CASE Streams
  BY <1>4, TailerData DEF Streams
<1>5. CASE Stop \/ start
  BY <1>5, TailerStopStart
<1>6. CASE UNCHANGED tailerVars
  <2>1. UNCHANGED <<file, touched, watching, size, streams, rawlines, tracker, lines, due, torn,
                    truncations, restarts>>
    BY <1>6 DEF tailerVars
  <2>2. TailerTypeOK'
    BY <2>1 DEF TailerInv, TailerTypeOK
  <2>3. FileInv' /\ PiecesInv'
    BY <2>1, LogAndPiecesSame DEF TailerInv
  <2>4. ASSUME ~torn'
        PROVE  StreamsInv' /\ HandedOnIsPast' /\ PiecesIntact' /\ HandedOnOnce'
    <3>1. StreamsInv /\ HandedOnIsPast /\ PiecesIntact /\ HandedOnOnce
      BY <2>1, <2>4 DEF TailerInv
    <3>2. PiecesIntact' /\ HandedOnOnce'
      BY <2>1, <3>1, LogAndPiecesSame
    <3>3. StreamsInv'
      BY <2>1, <3>1 DEF StreamsInv, Boundary, At
    <3>4. \A p \in 1..Len(file) : Past(p) => Past(p)'
      BY <2>1 DEF Past
    <3> QED
      BY <2>1, <3>1, <3>2, <3>3, <3>4, HandedOnStays DEF TailerInv
  <2> QED
    BY <2>2, <2>3, <2>4 DEF TailerInv
<1> QED
  BY <1>1, <1>2, <1>3, <1>4, <1>5, <1>6 DEF TailerNext

\* No line twice, as a set of at most one place.
LEMMA HandedOnIntactFollows == TailerInv => HandedOnIntact
<1> SUFFICES ASSUME TailerInv, ~torn PROVE HandedOnIntact
  BY DEF HandedOnIntact
<1>1. PiecesIntact /\ HandedOnOnce
  BY DEF TailerInv
<1>2. ASSUME NEW n \in 1..lines PROVE Cardinality(Whole(n)) <= 1
  <2>1. CASE Whole(n) = {}
    BY <2>1, FS_EmptySet
  <2>2. CASE Whole(n) # {}
    <3>1. PICK k \in Whole(n) : TRUE
      BY <2>2
    <3>2. Whole(n) = {k}
      BY <1>1, <3>1 DEF HandedOnOnce
    <3> QED
      BY <3>2, FS_Singleton
  <2> QED
    BY <2>1, <2>2
<1> QED
  BY <1>1, <1>2 DEF PiecesIntact, HandedOnIntact
----------------------------------------------------------------------------
(* The agents together                                                     *)

LEMMA TailerInvariant == Spec => []TailerInv
<1>1. Init => TailerInv
  BY TailerInitInv DEF Init
<1>2. TailerInv /\ [Next]_inputVars => TailerInv'
  <2>1. [Next]_inputVars => [TailerNext]_tailerVars
    BY DEF Next, Http, Cache, Tailer, inputVars, tailerVars
  <2> QED
    BY <2>1, TailerStepInv
<1> QED
  BY <1>1, <1>2, PTL DEF Spec

\* What the log tailer hands on is whole lines, or the first character of one,
\* and no line twice, however its streams, the program that writes the log and
\* restarts of the agent interleave and however long lines and chunks are.
THEOREM TailerHandsOnIntact == Spec => []HandedOnIntact
BY TailerInvariant, HandedOnIntactFollows, PTL

\* The cache, the types of a process, and what an http agent relies on besides.
ProcessInv ==
  /\ agent_type \in AgentType
  /\ CacheInv /\ HttpTypeOK
  /\ agent_type = "http" => HttpInv

LEMMA ProcessInvariant == Spec => []ProcessInv
<1>1. Init => ProcessInv
  <2> SUFFICES ASSUME Init PROVE ProcessInv
    OBVIOUS
  <2>1. agent_type \in AgentType /\ HttpInit /\ CacheInit
    BY DEF Init, HttpInit
  <2>2. HttpInv
    BY <2>1, HttpInitInv
  <2> QED
    BY <2>1, <2>2 DEF HttpInv, ProcessInv
<1>2. ProcessInv /\ [Next]_inputVars => ProcessInv'
  <2> SUFFICES ASSUME ProcessInv, [Next]_inputVars PROVE ProcessInv'
    OBVIOUS
  <2>1. CASE Http
    <3>1. HttpInv'
      BY <2>1, HttpStepInv DEF Http, ProcessInv
    <3> QED
      BY <2>1, <3>1 DEF Http, HttpInv, ProcessInv
  <2>2. CASE Cache
    <3>1. CacheInv' /\ UNCHANGED <<agent_type, requests, valid, lastValid>> /\ agent_type # "http"
      BY <2>2, CacheStepInv DEF Cache, ProcessInv
    <3> QED
      BY <3>1 DEF HttpTypeOK, CacheInv, ProcessInv
  <2>3. CASE Tailer \/ UNCHANGED inputVars
    <3>1. UNCHANGED <<agent_type, httpVars>>
      BY <2>3 DEF Tailer, inputVars
    <3>2. CacheInv'
      BY <3>1, CacheStepInv DEF httpVars, ProcessInv
    <3>3. HttpTypeOK'
      BY <3>1, <3>2 DEF HttpTypeOK, httpVars, CacheInv, ProcessInv
    <3>4. agent_type = "http" => HttpInv'
      BY <3>1, HttpStepInv DEF ProcessInv
    <3> QED
      BY <3>1, <3>2, <3>3, <3>4 DEF ProcessInv
  <2> QED
    BY <2>1, <2>2, <2>3 DEF Next
<1> QED
  BY <1>1, <1>2, PTL DEF Spec

\* The values of every variable of an agent process stay in their types.
THEOREM InputTypeCorrect == Spec => []TypeOK
<1>1. ProcessInv /\ TailerInv => TypeOK
  BY DEF TypeOK, TailerInv, ProcessInv
<1> QED
  BY <1>1, ProcessInvariant, TailerInvariant, PTL

\* Whatever a process runs, it uses its cache by the operations of oa-tinycache
\* alone, so that all that is proved of the cache holds in the process.
THEOREM AgentsUseTheCache == Spec => CacheSpec
<1>1. Init => CacheInit
  BY DEF Init, HttpInit
<1>2. ProcessInv /\ [Next]_inputVars => [CacheNext]_cacheVars
  <2> SUFFICES ASSUME ProcessInv, [Next]_inputVars PROVE [CacheNext]_cacheVars
    OBVIOUS
  <2>1. CASE Http
    BY <2>1, HttpUsesCache DEF Http, ProcessInv
  <2>2. CASE Cache
    BY <2>2 DEF Cache
  <2>3. CASE Tailer \/ UNCHANGED inputVars
    BY <2>3 DEF Tailer, inputVars, httpVars
  <2> QED
    BY <2>1, <2>2, <2>3 DEF Next
<1> QED
  BY <1>1, <1>2, ProcessInvariant, PTL DEF Spec, CacheSpec

\* An agent is never served a value that was replaced, deleted or has expired.
THEOREM AgentsAreServedLatest == Spec => ServesLatest
BY AgentsUseTheCache, CacheServesLatest, PTL
=============================================================================
