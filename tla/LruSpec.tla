------------------------------- MODULE LruSpec -------------------------------
(***************************************************************************)
(* What the DNS answer cache promises (dns/cache.go), without its pointers: *)
(* records set for ever, and at most capacity other entries, ordered by    *)
(* their last use, of which the least recently used one makes room.        *)
(***************************************************************************)
EXTENDS Naturals, Sequences

CONSTANTS
  Key,        \* cache keys
  Val,        \* answers
  Filler,     \* two keys nobody asks for that fill the new cache
  NoVal       \* the empty result of Get

VARIABLES
  capacity,   \* how many entries it holds, at least the two fillers
  forever,    \* records without expiry
  order,      \* the other keys, most recently used first
  val,        \* their answers
  stale,      \* those whose ttl is over
  out         \* what the last Get returned: <<value, expired>>

vars == <<capacity, forever, order, val, stale, out>>

Held == {order[i] : i \in DOMAIN order}

\* k is used: it moves from its place to the front, past those used after it.
Use(k) ==
  \E p \in DOMAIN order :
    /\ order[p] = k
    /\ order' = [i \in DOMAIN order |-> IF i = 1 THEN k ELSE IF i <= p THEN order[i - 1] ELSE order[i]]

Init ==
  /\ capacity \in Nat \ {0, 1}
  /\ forever = [k \in Key |-> NoVal]
  /\ order = Filler
  /\ val = [k \in Key |-> NoVal]
  /\ stale = {}
  /\ out = <<NoVal, FALSE>>

Get(k) ==
  /\ \/ /\ forever[k] # NoVal
        /\ out' = <<forever[k], FALSE>>
        /\ UNCHANGED order
     \/ /\ forever[k] = NoVal /\ k \in Held
        /\ out' = <<val[k], k \in stale>>
        /\ Use(k)
     \/ /\ forever[k] = NoVal /\ k \notin Held
        /\ out' = <<NoVal, FALSE>>
        /\ UNCHANGED order
  /\ UNCHANGED <<capacity, forever, val, stale>>

SetForever(k, v) ==
  /\ forever' = [forever EXCEPT ![k] = v]
  /\ UNCHANGED <<capacity, order, val, stale, out>>

\* A new key takes the place of the least recently used one in a full cache.
Set(k, v) ==
  /\ \/ /\ k \in Held
        /\ Use(k)
        /\ val' = [val EXCEPT ![k] = v]
        /\ stale' = stale \ {k}
     \/ /\ k \notin Held /\ Len(order) < capacity
        /\ order' = <<k>> \o order
        /\ val' = [val EXCEPT ![k] = v]
        /\ stale' = stale \ {k}
     \/ /\ k \notin Held /\ Len(order) >= capacity
        /\ LET lru == order[Len(order)] IN
           /\ order' = <<k>> \o SubSeq(order, 1, Len(order) - 1)
           /\ val' = [x \in Key |-> IF x = k THEN v ELSE IF x = lru THEN NoVal ELSE val[x]]
           /\ stale' = stale \ {k, lru}
  /\ UNCHANGED <<capacity, forever, out>>

Expire(k) ==
  /\ k \in Held
  /\ stale' = stale \cup {k}
  /\ UNCHANGED <<capacity, forever, order, val, out>>

Next == \E k \in Key :
  Get(k) \/ Expire(k) \/ \E v \in Val : Set(k, v) \/ SetForever(k, v)

Spec == Init /\ [][Next]_vars
=============================================================================
