----------------------------- MODULE TinyCache -----------------------------
(***************************************************************************)
(* The cache of oa-tinycache, used by the http agent for the answers of    *)
(* the API key service and by the console for its news.  The store is a    *)
(* JavaScript Map: it is walked in the order of insertion, and set deletes *)
(* the key first so that a renewed item goes to the end.  Expired items go *)
(* when they are looked up, or when the store has grown over its limit;    *)
(* if that is not enough the oldest items are removed on the next tick.    *)
(*                                                                         *)
(* What is abstracted: time is a counter that Timeout is measured in, and  *)
(* the callbacks on expiry, which only log, are left out.                  *)
(***************************************************************************)
EXTENDS Naturals, Sequences, FiniteSets

CONSTANTS
  Id,          \* keys
  Value,       \* what is stored under them
  Timeout,     \* the lifetime of an item
  Limit,       \* how many items the cache is meant to hold
  Options,     \* the settings of bg_expire and limit_expire_only to consider
  MaxTime      \* bound: how far the clock goes

ASSUME CacheAssumption ==
  /\ Timeout \in Nat
  /\ Limit \in Nat \ {0}
  /\ Options \subseteq [bg_expire : BOOLEAN, limit_expire_only : BOOLEAN]
  /\ MaxTime \in Nat
  /\ "miss" \notin Value /\ "none" \notin Value

VARIABLES
  options,                 \* how this cache was constructed
  now,
  store,                   \* the Map, oldest insertion first
  expire_force_scheduled,  \* will expire_force run on the next tick
  latest,                  \* history: the last value set per key, del and drop counted
  answer                   \* history: what the last get answered

cacheVars == <<options, now, store, expire_force_scheduled, latest, answer>>

TinyCacheItem == [id : Id, value : Value, expires : Nat]

NoItem == [value |-> "none", expires |-> 0]
Miss == "miss"

CacheTypeOK ==
  /\ options \in Options
  /\ now \in Nat
  /\ store \in Seq(TinyCacheItem)
  /\ expire_force_scheduled \in BOOLEAN
  /\ latest \in [Id -> [value : Value, expires : Nat] \cup {NoItem}]
  /\ answer \in Value \cup {Miss}

CacheInit ==
  /\ options \in Options
  /\ now = 0
  /\ store = <<>>
  /\ expire_force_scheduled = FALSE
  /\ latest = [i \in Id |-> NoItem]
  /\ answer = Miss

----------------------------------------------------------------------------
expired(item) == now > item.expires

Has(s, i) == \E k \in 1..Len(s) : s[k].id = i

PlaceOf(s, i) == CHOOSE k \in 1..Len(s) : s[k].id = i

ItemOf(s, i) == s[PlaceOf(s, i)]

\* delete: the items after the one removed move up.
Without(s, i) ==
  IF Has(s, i)
  THEN [k \in 1..Len(s) - 1 |-> IF k < PlaceOf(s, i) THEN s[k] ELSE s[k + 1]]
  ELSE s

From(s, k) == SubSeq(s, k, Len(s))

\* expire walks the store from its oldest item and stops at the first that is
\* not expired: position k is the first that stays.
FirstKept(s) ==
  CHOOSE k \in 1..Len(s) + 1 :
    /\ \A j \in 1..k - 1 : expired(s[j])
    /\ k <= Len(s) => ~expired(s[k])

Unexpired(s) == IF options.limit_expire_only THEN s ELSE From(s, FirstKept(s))

\* Mutant: the store is only cut back when it is over twice the limit.
OverLimitLate(s) == Len(s) > 2 * Limit

OverLimit(s) == Len(s) > Limit

\* The effect of expire on store s: what is left, and whether expire_force is due.
expire(s) ==
  /\ store' = Unexpired(s)
  /\ expire_force_scheduled' = (expire_force_scheduled \/ OverLimit(Unexpired(s)))

\* Mutant: Map.set without the delete: a renewed item keeps its old place.
AddedInPlace(i, v) ==
  LET item == [id |-> i, value |-> v, expires |-> now + Timeout] IN
  IF Has(store, i)
  THEN [k \in 1..Len(store) |-> IF store[k].id = i THEN item ELSE store[k]]
  ELSE Append(store, item)

\* set deletes the key and inserts it anew, at the end.
Added(i, v) == Append(Without(store, i), [id |-> i, value |-> v, expires |-> now + Timeout])

\* set(id, value).
set(i, v) ==
  /\ IF ~options.bg_expire /\ OverLimit(Added(i, v))
     THEN expire(Added(i, v))
     ELSE store' = Added(i, v) /\ UNCHANGED expire_force_scheduled
  /\ latest' = [latest EXCEPT ![i] = [value |-> v, expires |-> now + Timeout]]
  /\ UNCHANGED <<options, now, answer>>

\* Mutant: the expiry of what is found is not looked at.
FoundAny(i) == Has(store, i)

Found(i) == Has(store, i) /\ ~expired(ItemOf(store, i))

\* get(id): an expired item is a miss and, by default, removed.
get(i) ==
  /\ answer' = IF Found(i) THEN ItemOf(store, i).value ELSE Miss
  /\ store' = IF Found(i) \/ options.limit_expire_only THEN store ELSE Without(store, i)
  /\ UNCHANGED <<options, now, expire_force_scheduled, latest>>

del(i) ==
  /\ store' = Without(store, i)
  /\ latest' = [latest EXCEPT ![i] = NoItem]
  /\ UNCHANGED <<options, now, expire_force_scheduled, answer>>

\* The timer that bg_expire starts.
Expire ==
  /\ options.bg_expire
  /\ expire(store)
  /\ UNCHANGED <<options, now, latest, answer>>

drop ==
  /\ store' = <<>>
  /\ latest' = [i \in Id |-> NoItem]
  /\ UNCHANGED <<options, now, expire_force_scheduled, answer>>

\* expire_force removes items, oldest first, until the size is below the limit
\* less a tenth of the size; n is how many are left.
Enough(n) == n < Limit - n \div 10

Forced(s) ==
  IF Len(s) <= Limit THEN s
  ELSE LET k == CHOOSE k \in 2..Len(s) + 1 :
             /\ Enough(Len(s) + 1 - k) \/ k = Len(s) + 1
             /\ \A j \in 2..k - 1 : ~Enough(Len(s) + 1 - j)
       IN From(s, k)

expire_force ==
  /\ expire_force_scheduled
  /\ store' = Forced(store)
  /\ expire_force_scheduled' = FALSE
  /\ UNCHANGED <<options, now, latest, answer>>

\* Timers and I/O wait for process.nextTick, so no time passes before
\* expire_force has run.
Wait ==
  /\ now < MaxTime
  /\ ~expire_force_scheduled
  /\ now' = now + 1
  /\ UNCHANGED <<options, store, expire_force_scheduled, latest, answer>>

CacheNext ==
  \/ Wait
  \/ \E i \in Id : get(i) \/ del(i) \/ \E v \in Value : set(i, v)
  \/ Expire
  \/ drop
  \/ expire_force

CacheSpec == CacheInit /\ [][CacheNext]_cacheVars

----------------------------------------------------------------------------
(* Properties                                                              *)

\* The store holds a key once, and its items in the order in which they
\* expire.  expire depends on it: it stops at the first item that has not
\* expired, so an item out of order would outlive its time.
StoreInOrder ==
  /\ \A j, k \in 1..Len(store) : j < k => store[j].id # store[k].id
  /\ \A j, k \in 1..Len(store) : j < k => store[j].expires <= store[k].expires

\* Whatever is in the store is what was last stored under its key.
StoreIsLatest ==
  \A k \in 1..Len(store) :
    latest[store[k].id] = [value |-> store[k].value, expires |-> store[k].expires]

\* A cache that is not expired by a timer is within its limit whenever no
\* forced expiry is due on the next tick.
WithinLimit == ~options.bg_expire /\ ~expire_force_scheduled => Len(store) <= Limit

\* A lookup never answers with a value that was replaced, deleted or has expired.
Contract == INSTANCE CacheContract
ServesLatest == Contract!Spec
=============================================================================
