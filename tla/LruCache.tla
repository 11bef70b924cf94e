------------------------------ MODULE LruCache ------------------------------
(***************************************************************************)
(* The DNS answer cache (dns/cache.go): a map of items that are also       *)
(* linked into a list, most recently used first.  All operations run under *)
(* the cache's mutex, so each is one step.  An item is named by its key,   *)
(* which is unique in the map.                                             *)
(***************************************************************************)
EXTENDS Naturals, Sequences, FiniteSets

CONSTANTS
  Key,       \* the keys of DNS questions
  Val,       \* DNS answers
  NoVal,     \* the nil slice
  nil,       \* the nil pointer
  Sizes      \* what Config.CacheSize may be

\* The two items NewLruCache starts with; no question has such a key.
Dummies == {"head", "tail"}

Items == Key \cup Dummies

ASSUME CacheAssumption ==
  /\ nil \notin Items /\ NoVal \notin Val
  /\ Key \cap Dummies = {}
  /\ Sizes \subseteq Nat

VARIABLES
  size,         \* LruCache.size
  store,        \* LruCache.store: records with ttl 0
  cache,        \* the keys of LruCache.cache
  head, tail,   \* LruCache.head and tail
  prev, next,   \* item.prev and item.next
  val,          \* item.val
  stale,        \* items with exp in the past
  out           \* what the last Get returned: <<value, expired>>

cacheVars == <<size, store, cache, head, tail, prev, next, val, stale, out>>

-----------------------------------------------------------------------------

\* putToHead: the links after linking k in front of the list.
putToHead(k) ==
  /\ head' = k
  /\ prev' = [prev EXCEPT ![head] = k, ![k] = nil]
  /\ next' = [next EXCEPT ![k] = head]
  /\ UNCHANGED tail

\* moveToHead: unlink k, as the tail or from the middle, and link it in front.
moveToHead(k) ==
  IF k = head THEN UNCHANGED <<head, tail, prev, next>>
  ELSE /\ head' = k
       /\ tail' = IF k = tail THEN prev[k] ELSE tail
       /\ next' = [next EXCEPT ![prev[k]] = IF k = tail THEN nil ELSE next[k], ![k] = head]
       /\ prev' = LET unlinked == IF k = tail THEN prev ELSE [prev EXCEPT ![next[k]] = prev[k]]
                  IN  [unlinked EXCEPT ![head] = k, ![k] = nil]

\* Mutant: a hit does not count as a use.
GetNoMove(k) ==
  /\ out' = IF store[k] # NoVal THEN <<store[k], FALSE>>
            ELSE IF k \in cache THEN <<val[k], k \in stale>>
            ELSE <<NoVal, FALSE>>
  /\ UNCHANGED <<size, store, cache, head, tail, prev, next, val, stale>>

Get(k) ==
  /\ IF store[k] # NoVal
     THEN out' = <<store[k], FALSE>> /\ UNCHANGED <<head, tail, prev, next>>
     ELSE IF k \in cache
     THEN out' = <<val[k], k \in stale>> /\ moveToHead(k)
     ELSE out' = <<NoVal, FALSE>> /\ UNCHANGED <<head, tail, prev, next>>
  /\ UNCHANGED <<size, store, cache, val, stale>>

\* Set with ttl 0.
SetForever(k, v) ==
  /\ store' = [store EXCEPT ![k] = v]
  /\ UNCHANGED <<size, cache, head, tail, prev, next, val, stale, out>>

\* Set of a key that is in the map.
SetExisting(k, v) ==
  /\ k \in cache
  /\ val' = [val EXCEPT ![k] = v]
  /\ stale' = stale \ {k}
  /\ moveToHead(k)
  /\ UNCHANGED <<size, store, cache, out>>

\* Set of a new key while the map is not full after it.
SetNew(k, v) ==
  /\ k \notin cache
  /\ Cardinality(cache) + 1 <= size
  /\ putToHead(k)
  /\ cache' = cache \cup {k}
  /\ val' = [val EXCEPT ![k] = v]
  /\ stale' = stale \ {k}
  /\ UNCHANGED <<size, store, out>>

\* Set of a new key in a full map: putToHead, then removeTail.  The item that is
\* dropped is garbage, and its fields are reset here.
SetEvict(k, v) ==
  /\ k \notin cache
  /\ Cardinality(cache) + 1 > size
  /\ head' = k
  /\ prev' = [prev EXCEPT ![head] = k, ![k] = nil, ![tail] = nil]
  /\ tail' = prev[tail]
  /\ next' = [next EXCEPT ![k] = head, ![prev[tail]] = nil, ![tail] = nil]
  /\ cache' = (cache \ {tail}) \cup {k}
  /\ val' = [x \in Items |-> IF x = k THEN v ELSE IF x = tail THEN NoVal ELSE val[x]]
  /\ stale' = stale \ {k, tail}
  /\ UNCHANGED <<size, store, out>>

\* Time passes beyond an item's exp.
Expire(k) ==
  /\ k \in cache
  /\ stale' = stale \cup {k}
  /\ UNCHANGED <<size, store, cache, head, tail, prev, next, val, out>>

-----------------------------------------------------------------------------

\* NewLruCache
CacheInit ==
  /\ size \in Sizes
  /\ store = [k \in Key |-> NoVal]
  /\ cache = Dummies
  /\ head = "head" /\ tail = "tail"
  /\ next = [k \in Items |-> IF k = "head" THEN "tail" ELSE nil]
  /\ prev = [k \in Items |-> IF k = "tail" THEN "head" ELSE nil]
  /\ val = [k \in Items |-> NoVal]
  /\ stale = {}
  /\ out = <<NoVal, FALSE>>

Set(k, v) == SetExisting(k, v) \/ SetNew(k, v) \/ SetEvict(k, v)

CacheNext == \E k \in Key :
  Get(k) \/ Expire(k) \/ \E v \in Val : Set(k, v) \/ SetForever(k, v)

CacheSpec == CacheInit /\ [][CacheNext]_cacheVars

-----------------------------------------------------------------------------

\* The list, read forwards from head.
List ==
  CHOOSE s \in [1 .. Cardinality(cache) -> cache] :
    /\ s[1] = head
    /\ \A i \in 1 .. Cardinality(cache) - 1 : next[s[i]] = s[i + 1]

Abstract == INSTANCE LruSpec WITH
  Filler <- <<"head", "tail">>,
  capacity <- IF size < 2 THEN 2 ELSE size,
  forever <- store,
  order <- List,
  val <- [k \in Key |-> val[k]]

\* The pointers implement the cache that LruSpec describes: every Get returns
\* what the abstract cache returns, and the entry dropped is the least recently
\* used one.
Implements == Abstract!Spec
=============================================================================
