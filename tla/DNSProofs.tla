------------------------------ MODULE DNSProofs ------------------------------
(***************************************************************************)
(* Proofs about the DNS client: its choice of upstreams and its answer     *)
(* cache.                                                                  *)
(*                                                                         *)
(* DNSUpstream, for any number of servers and queries and any range of the *)
(* index: as long as the index keeps to the order of the servers, a query  *)
(* walks them in a circle.  A server it has not been sent to yet lies      *)
(* ahead of it, and by no more places than it has rounds left; when no     *)
(* round is left, there is none.                                           *)
(*                                                                         *)
(* LruCache, for any keys, answers and sizes: the pointers implement       *)
(* LruSpec.  The inductive invariant says that some sequence is the list:  *)
(* it holds each key of the map once, next and prev link its neighbours in *)
(* both directions, head and tail are its ends.  A walk along next from    *)
(* the head can only be that sequence, and so it is what the refinement    *)
(* mapping yields; each operation on the pointers is then an operation on  *)
(* a sequence.                                                             *)
(***************************************************************************)
EXTENDS DNSUpstream, LruCache, FiniteSetTheorems, WellFoundedInduction, TLAPS

Labels == {"idle", "attempt", "compare", "switch", "reread", "failed"}

TypeOK ==
  /\ index \in Nat /\ index < IndexMod
  /\ pc \in [Queries -> Labels]
  /\ server \in [Queries -> Servers]
  /\ tries \in [Queries -> Nat]
  /\ tried \in [Queries -> SUBSET Servers]
  /\ moved \in SUBSET Queries

\* The server after a, and how far s is ahead of a.
After(a) == IF a = N - 1 THEN 0 ELSE a + 1
Ahead(a, s) == IF s >= a THEN s - a ELSE s + N - a

\* Where a query is, whose walk nothing upset.
Walks(label, a, n, done) ==
  /\ label # "reread"
  /\ label \in {"attempt", "compare", "switch"} => a = Server
  /\ label = "attempt" => n < N /\ \A s \in Servers \ done : Ahead(a, s) + n < N
  /\ label \in {"compare", "switch"} =>
       \A s \in Servers \ done : Ahead(a, s) > 0 /\ Ahead(a, s) + n <= N
  /\ label = "failed" => done = Servers

WalkInv == \A q \in Queries \ moved : Walks(pc[q], server[q], tries[q], tried[q])

UpstreamInv == TypeOK /\ WalkInv

-----------------------------------------------------------------------------

\* An index one higher is that of the next server.
LEMMA NextPlace ==
  ASSUME NEW i \in Nat
  PROVE  i % N \in Servers /\ (i + 1) % N = After(i % N)
<1>1. N \in Nat /\ N > 0
  BY UpstreamAssumption
<1> DEFINE d == i \div N
           r == i % N
<1>2. d \in Nat /\ r \in Nat /\ r < N /\ i = N * d + r
  BY <1>1
<1> HIDE DEF d, r
<1>3. CASE r < N - 1
  <2>1. i + 1 = N * d + (r + 1) /\ r + 1 \in Nat /\ r + 1 < N
    BY <1>1, <1>2, <1>3
  <2>2. (i + 1) % N = r + 1
    BY <1>1, <1>2, <2>1
  <2> QED BY <1>1, <1>2, <1>3, <2>2 DEF After, Servers, r
<1>4. CASE r = N - 1
  <2>1. i + 1 = N * (d + 1) + 0
    BY <1>1, <1>2, <1>4
  <2>2. (i + 1) % N = 0
    BY <1>1, <1>2, <2>1
  <2> QED BY <1>1, <1>2, <1>4, <2>2 DEF After, Servers, r
<1> QED BY <1>1, <1>2, <1>3, <1>4

\* UPStream.Switch moves to the next server, unless it wraps out of order.
LEMMA SwitchMoves ==
  ASSUME NEW i \in Nat, i < IndexMod
  PROVE  LET j == (i + 1) % IndexMod IN
         /\ j \in Nat /\ j < IndexMod
         /\ (j = 0 /\ IndexMod % N # 0) \/ j % N = After(i % N)
<1>1. N \in Nat /\ N > 0 /\ IndexMod \in Nat /\ IndexMod > 0
  BY UpstreamAssumption
<1>2. (i + 1) % N = After(i % N)
  BY NextPlace
<1>3. CASE i + 1 < IndexMod
  <2>1. (i + 1) % IndexMod = i + 1
    BY <1>1, <1>3
  <2> QED BY <1>2, <1>3, <2>1
<1>4. CASE i + 1 = IndexMod
  <2>1. (i + 1) % IndexMod = 0
    BY <1>1, <1>4
  <2>2. 0 % N = 0
    BY <1>1
  <2> QED BY <1>1, <1>2, <1>4, <2>1, <2>2
<1> QED BY <1>1, <1>3, <1>4

\* The next server is closer to those ahead.
LEMMA Closer ==
  ASSUME NEW a \in Servers, NEW s \in Servers
  PROVE  /\ After(a) \in Servers /\ Ahead(a, s) \in Nat /\ Ahead(a, s) < N
         /\ Ahead(a, s) = 0 <=> s = a
         /\ s # a => Ahead(a, s) = Ahead(After(a), s) + 1
<1>1. N \in Nat /\ N > 0 /\ a \in Nat /\ s \in Nat /\ a < N /\ s < N
  BY UpstreamAssumption DEF Servers
<1> QED BY <1>1 DEF After, Ahead, Servers

LEMMA InitInv == Init => UpstreamInv
<1> SUFFICES ASSUME Init PROVE UpstreamInv
  OBVIOUS
<1>1. N \in Nat /\ N > 0 /\ IndexMod \in Nat /\ IndexMod > 0 /\ 0 \in Servers
  BY UpstreamAssumption DEF Servers
<1>2. \A q \in Queries : pc[q] = "idle"
  BY DEF Init
<1>3. WalkInv
  BY <1>2 DEF WalkInv, Walks
<1>4. TypeOK
  BY <1>1 DEF Init, TypeOK, Labels
<1> QED BY <1>3, <1>4 DEF UpstreamInv

\* The current server is one of the list.
LEMMA ServerFacts ==
  ASSUME TypeOK
  PROVE  Server \in Servers /\ N \in Nat /\ N > 0
<1>1. index \in Nat
  BY DEF TypeOK
<1>2. index % N \in Servers
  BY <1>1, NextPlace
<1> QED BY <1>2, UpstreamAssumption DEF Server

\* Every step keeps the types.
LEMMA NextTypes ==
  ASSUME TypeOK, [Next]_vars
  PROVE  TypeOK'
<1>0. Server \in Servers /\ N \in Nat
  BY ServerFacts
<1>1. ASSUME NEW q \in Queries, Begin(q) PROVE TypeOK'
  BY <1>0, <1>1 DEF TypeOK, Labels, Begin, Goto
<1>2. ASSUME NEW q \in Queries, Attempt(q) PROVE TypeOK'
  BY <1>2 DEF TypeOK, Labels, Attempt, Goto
<1>3. ASSUME NEW q \in Queries, Compare(q) PROVE TypeOK'
  BY <1>3 DEF TypeOK, Labels, Compare, Goto
<1>4. ASSUME NEW q \in Queries, Switch(q) PROVE TypeOK'
  <2>1. index' \in Nat /\ index' < IndexMod
    BY <1>4, SwitchMoves DEF TypeOK, Switch
  <2>2. index' % N \in Servers
    BY <2>1, NextPlace
  <2> QED BY <1>4, <2>1, <2>2 DEF TypeOK, Labels, Switch, NextRound, Goto
<1>5. ASSUME NEW q \in Queries, Reread(q) PROVE TypeOK'
  BY <1>0, <1>5 DEF TypeOK, Labels, Reread, NextRound, Goto
<1>6. ASSUME NEW q \in Queries, Blame(q) PROVE TypeOK'
  BY <1>6 DEF TypeOK, Labels, Blame, Goto
<1>7. ASSUME NEW s \in Servers, Flip(s) PROVE TypeOK'
  BY <1>7 DEF TypeOK, Flip
<1>8. CASE UNCHANGED vars
  BY <1>8 DEF TypeOK, vars
<1> QED BY <1>1, <1>2, <1>3, <1>4, <1>5, <1>6, <1>7, <1>8 DEF Next, Step

\* While the index stays, a step of one query leaves the walks of the others.
LEMMA OthersWalk ==
  ASSUME UpstreamInv, NEW q \in Queries, UNCHANGED index, moved' \in SUBSET Queries,
         \A r \in Queries : r # q => /\ r \notin moved' => r \notin moved
                                     /\ pc'[r] = pc[r] /\ server'[r] = server[r]
                                     /\ tries'[r] = tries[r] /\ tried'[r] = tried[r],
         q \notin moved' => Walks(pc[q], server[q], tries[q], tried[q])'
  PROVE  WalkInv'
<1>1. ASSUME NEW r \in Queries, r \notin moved', r # q
      PROVE  Walks(pc[r], server[r], tries[r], tried[r])'
  BY <1>1 DEF UpstreamInv, WalkInv, Walks, Server
<1> QED BY <1>1 DEF WalkInv

\* A round sends the query to the server it is at; the others are ahead.
LEMMA AttemptWalks ==
  ASSUME UpstreamInv, NEW q \in Queries, Attempt(q)
  PROVE  WalkInv'
<1> DEFINE a == server[q]
           n == tries[q]
           done == tried[q]
<1>1. TypeOK
  BY DEF UpstreamInv
<1>2. /\ pc[q] = "attempt" /\ UNCHANGED <<index, server, moved>>
      /\ tried' = [tried EXCEPT ![q] = done \cup {a}]
      /\ \/ Goto(q, "idle") /\ tries' = tries
         \/ Goto(q, "compare") /\ tries' = [tries EXCEPT ![q] = n + 1]
  BY DEF Attempt
<1>3. a \in Servers /\ n \in Nat /\ done \in SUBSET Servers /\ N \in Nat /\ N > 0
  BY <1>1, ServerFacts DEF TypeOK
<1>4. ASSUME q \notin moved' PROVE Walks(pc[q], server[q], tries[q], tried[q])'
  <2>1. a = Server /\ \A s \in Servers \ done : Ahead(a, s) + n < N
    BY <1>2, <1>4 DEF UpstreamInv, WalkInv, Walks
  <2>2. Server' = Server /\ server'[q] = a /\ tried'[q] = done \cup {a}
    BY <1>1, <1>2 DEF TypeOK, Server
  <2>3. CASE Goto(q, "idle")
    <3>1. pc'[q] = "idle"
      BY <1>1, <2>3 DEF TypeOK, Goto
    <3> QED BY <3>1 DEF Walks
  <2>4. CASE Goto(q, "compare") /\ tries' = [tries EXCEPT ![q] = n + 1]
    <3>1. pc'[q] = "compare" /\ tries'[q] = n + 1
      BY <1>1, <2>4 DEF TypeOK, Goto
    <3>2. ASSUME NEW s \in Servers \ (done \cup {a})
          PROVE  Ahead(a, s) > 0 /\ Ahead(a, s) + (n + 1) <= N
      <4>1. Ahead(a, s) \in Nat /\ Ahead(a, s) # 0 /\ Ahead(a, s) + n < N
        BY <1>3, <2>1, Closer, Zenon
      <4> QED BY <1>3, <4>1
    <3> HIDE DEF a, n, done
    <3> QED BY <2>1, <2>2, <3>1, <3>2 DEF Walks, Ahead
  <2> QED BY <1>2, <2>3, <2>4
<1>5. \A r \in Queries : r # q => /\ pc'[r] = pc[r] /\ server'[r] = server[r]
                                  /\ tries'[r] = tries[r] /\ tried'[r] = tried[r]
  BY <1>1, <1>2 DEF TypeOK, Goto
<1> QED BY <1>1, <1>2, <1>4, <1>5, OthersWalk, Zenon DEF TypeOK

\* Switch goes one place on; with no round left nothing is ahead.
LEMMA SwitchWalks ==
  ASSUME UpstreamInv, NEW q \in Queries, Switch(q)
  PROVE  WalkInv'
<1> DEFINE a == server[q]
           n == tries[q]
           done == tried[q]
<1>1. TypeOK /\ index \in Nat /\ index < IndexMod
  BY DEF UpstreamInv, TypeOK
<1>2. /\ pc[q] = "switch" /\ UNCHANGED <<tries, tried>> /\ NextRound(q)
      /\ index' = (index + 1) % IndexMod
      /\ server' = [server EXCEPT ![q] = index' % N]
  BY DEF Switch
<1>3. \A r \in Queries : r \notin moved' => r = q /\ ~(index' = 0 /\ IndexMod % N # 0)
  BY DEF Switch
<1>4. a \in Servers /\ n \in Nat /\ done \in SUBSET Servers /\ N \in Nat /\ N > 0
  BY <1>1, ServerFacts DEF TypeOK
<1>5. ASSUME q \notin moved' PROVE Walks(pc[q], server[q], tries[q], tried[q])'
  <2>1. q \notin moved
    BY <1>5 DEF Switch
  <2>2. a = Server /\ \A s \in Servers \ done : Ahead(a, s) > 0 /\ Ahead(a, s) + n <= N
    BY <1>2, <2>1 DEF UpstreamInv, WalkInv, Walks
  <2>3. index' % N = After(a)
    BY <1>1, <1>2, <1>3, <1>5, <2>2, SwitchMoves DEF Server
  <2>4. /\ Server' = After(a) /\ server'[q] = After(a) /\ tries'[q] = n /\ tried'[q] = done
        /\ pc'[q] = IF n < N THEN "attempt" ELSE "failed"
    BY <1>1, <1>2, <2>3 DEF TypeOK, Server, NextRound, Goto
  <2> HIDE DEF a, n, done
  <2>5. ASSUME NEW s \in Servers \ done PROVE Ahead(After(a), s) + n < N
    <3>1. Ahead(a, s) \in Nat /\ s # a /\ Ahead(a, s) = Ahead(After(a), s) + 1
      BY <1>4, <2>2, Closer
    <3>2. Ahead(After(a), s) \in Nat
      BY <1>4, Closer, Zenon
    <3> QED BY <1>4, <2>2, <3>1, <3>2
  <2>6. CASE n < N
    BY <2>4, <2>5, <2>6 DEF Walks, Ahead
  <2>7. CASE ~(n < N)
    <3>1. ASSUME NEW s \in Servers \ done PROVE FALSE
      <4>1. Ahead(After(a), s) \in Nat
        BY <1>4, Closer, Zenon
      <4> QED BY <1>4, <2>5, <2>7, <4>1
    <3>2. done = Servers
      BY <1>4, <3>1
    <3> QED BY <2>4, <2>7, <3>2 DEF Walks
  <2> QED BY <2>6, <2>7
<1> QED BY <1>3, <1>5 DEF WalkInv

\* The other steps move no query on.
LEMMA NextWalks ==
  ASSUME UpstreamInv, [Next]_vars
  PROVE  WalkInv'
<1>0. TypeOK /\ TypeOK' /\ Server \in Servers /\ N \in Nat /\ N > 0
  BY NextTypes, ServerFacts DEF UpstreamInv
<1>1. ASSUME NEW q \in Queries, Begin(q) PROVE WalkInv'
  <2>1. /\ UNCHANGED index /\ pc'[q] = "attempt" /\ server'[q] = Server
        /\ tries'[q] = 0 /\ tried'[q] = {}
        /\ \A r \in Queries : r # q => /\ r \notin moved' => r \notin moved
                                       /\ pc'[r] = pc[r] /\ server'[r] = server[r]
                                       /\ tries'[r] = tries[r] /\ tried'[r] = tried[r]
    BY <1>0, <1>1 DEF Begin, Goto, TypeOK
  <2>2. Server' = Server
    BY <2>1 DEF Server
  <2>3. \A s \in Servers : Ahead(Server, s) + 0 < N
    BY <1>0, Closer
  <2>4. Walks(pc[q], server[q], tries[q], tried[q])'
    <3> HIDE DEF Server
    <3> QED BY <1>0, <2>1, <2>2, <2>3 DEF Walks, Ahead
  <2> QED BY <1>0, <2>1, <2>4, OthersWalk, Zenon DEF TypeOK
<1>2. ASSUME NEW q \in Queries, Compare(q) PROVE WalkInv'
  <2>1. /\ UNCHANGED <<index, server, tries, tried, moved>> /\ pc[q] = "compare"
        /\ pc'[q] = IF Server = server[q] THEN "switch" ELSE "reread"
        /\ \A r \in Queries : r # q => pc'[r] = pc[r]
    BY <1>0, <1>2 DEF Compare, Goto, TypeOK
  <2>2. q \notin moved' => Walks(pc[q], server[q], tries[q], tried[q])'
    BY <2>1 DEF UpstreamInv, WalkInv, Walks, Server, Ahead
  <2> QED BY <1>0, <2>1, <2>2, OthersWalk DEF TypeOK
<1>3. ASSUME NEW q \in Queries, Reread(q) PROVE WalkInv'
  <2>1. /\ UNCHANGED <<index, moved>> /\ q \in moved'
        /\ \A r \in Queries : r # q => /\ pc'[r] = pc[r] /\ server'[r] = server[r]
                                       /\ tries'[r] = tries[r] /\ tried'[r] = tried[r]
    BY <1>0, <1>3 DEF Reread, NextRound, Goto, TypeOK, UpstreamInv, WalkInv, Walks
  <2> QED BY <1>0, <2>1, OthersWalk DEF TypeOK
<1>4. ASSUME NEW q \in Queries, Blame(q) PROVE WalkInv'
  <2>1. /\ UNCHANGED <<index, server, tries, tried, moved>> /\ pc'[q] = "idle"
        /\ \A r \in Queries : r # q => pc'[r] = pc[r]
    BY <1>0, <1>4 DEF Blame, Goto, TypeOK
  <2>2. Walks(pc[q], server[q], tries[q], tried[q])'
    BY <2>1 DEF Walks
  <2> QED BY <1>0, <2>1, <2>2, OthersWalk DEF TypeOK
<1>5. ASSUME NEW s \in Servers, Flip(s) PROVE WalkInv'
  BY <1>5 DEF Flip, UpstreamInv, WalkInv, Walks, Server
<1>6. CASE UNCHANGED vars
  BY <1>6 DEF vars, UpstreamInv, WalkInv, Walks, Server
<1> QED BY <1>1, <1>2, <1>3, <1>4, <1>5, <1>6, AttemptWalks, SwitchWalks DEF Next, Step

\* A query under which neither another query nor the wrap of the index upset the
\* order has been sent to every server when it charges the forwarder: the loop of
\* exchange and SwitchIf between them leave none out.
THEOREM NoServerLeftOut == Spec => []AllTriedAlone
<1>1. UpstreamInv /\ [Next]_vars => UpstreamInv'
  BY NextTypes, NextWalks DEF UpstreamInv
<1>2. UpstreamInv => AllTriedAlone
  BY DEF UpstreamInv, WalkInv, Walks, AllTriedAlone
<1> QED BY <1>1, <1>2, InitInv, PTL DEF Spec

-----------------------------------------------------------------------------
\* The answer cache.

\* s, of n items, is the list that runs from h to t along nx and back along pv,
\* through each item of the map's keys C once.
IsList(s, n, C, h, t, nx, pv) ==
  /\ n \in Nat /\ n >= 2 /\ s \in [1 .. n -> C]
  /\ \A x \in C : \E i \in 1 .. n : s[i] = x
  /\ \A i, j \in 1 .. n : s[i] = s[j] => i = j
  /\ s[1] = h /\ s[n] = t
  /\ \A i \in 1 .. n - 1 : nx[s[i]] = s[i + 1] /\ pv[s[i + 1]] = s[i]

Linked(s, n) == IsList(s, n, cache, head, tail, next, prev)

CacheTypes ==
  /\ size \in Nat
  /\ store \in [Key -> Val \cup {NoVal}]
  /\ cache \in SUBSET Items
  /\ head \in Items /\ tail \in Items
  /\ prev \in [Items -> Items \cup {nil}] /\ next \in [Items -> Items \cup {nil}]
  /\ val \in [Items -> Val \cup {NoVal}]

CacheInv == CacheTypes /\ \E n \in Nat : \E s \in [1 .. n -> cache] : Linked(s, n)

\* A set of numbers that is not empty has a least one.
LEMMA LeastOf ==
  ASSUME NEW S \in SUBSET Nat, S # {}
  PROVE  \E x \in S : \A y \in S : x <= y
<1> DEFINE R == OpToRel(<, Nat)
<1>1. \A x, y \in Nat : y < x => <<y, x>> \in R
  BY Zenon DEF OpToRel
<1>2. IsWellFoundedOn(R, Nat)
  BY NatLessThanWellFounded, Zenon
<1> HIDE DEF R
<1>3. PICK x \in S : \A y \in S : ~(<<y, x>> \in R)
  BY <1>2, WFMin, Zenon
<1>4. ASSUME NEW y \in S PROVE x <= y
  <2>1. ~(y < x)
    BY <1>1, <1>3, Zenon
  <2> QED BY <2>1
<1> QED BY <1>4

\* w is a walk along nx from h.
IsWalk(w, n, C, h, nx) ==
  w \in [1 .. n -> C] /\ w[1] = h /\ \A i \in 1 .. n - 1 : nx[w[i]] = w[i + 1]

\* A walk along nx from h visits the items in the order of the list.
LEMMA WalkIsList ==
  ASSUME NEW n, NEW C, NEW h, NEW t, NEW nx, NEW pv, NEW s, NEW w,
         IsList(s, n, C, h, t, nx, pv), IsWalk(w, n, C, h, nx)
  PROVE  w = s
<1>w. w \in [1 .. n -> C] /\ w[1] = h /\ \A i \in 1 .. n - 1 : nx[w[i]] = w[i + 1]
  BY Zenon DEF IsWalk
<1> DEFINE D == {i \in 1 .. n : w[i] # s[i]}
<1>0. n \in Nat /\ s \in [1 .. n -> C]
  BY Zenon DEF IsList
<1>1. D = {}
  <2> SUFFICES ASSUME D # {} PROVE FALSE
    OBVIOUS
  <2>1. D \in SUBSET Nat
    BY <1>0
  <2> HIDE DEF D
  <2>2. PICK i \in D : \A j \in D : i <= j
    BY <2>1, LeastOf, Zenon
  <2> USE DEF D
  <2>3. i \in 1 .. n /\ w[i] # s[i]
    BY <2>2, Zenon
  <2>4. i # 1
    BY <2>3, <1>0, <1>w DEF IsList
  <2>5. i - 1 \in 1 .. n /\ i - 1 \in 1 .. n - 1 /\ (i - 1) + 1 = i
    BY <1>0, <2>3, <2>4
  <2>6. w[i - 1] = s[i - 1]
    BY <2>5, <2>2, <2>3
  <2>7. nx[w[i - 1]] = w[i] /\ nx[s[i - 1]] = s[i]
    BY <2>5, <1>w, ZenonT(40) DEF IsList
  <2> QED BY <2>3, <2>6, <2>7
<1>2. \A i \in 1 .. n : w[i] = s[i]
  BY <1>1, Zenon
<1> QED BY <1>0, <1>2, <1>w

ListOf(C, h, nx) ==
  CHOOSE s \in [1 .. Cardinality(C) -> C] :
    s[1] = h /\ \A i \in 1 .. Cardinality(C) - 1 : nx[s[i]] = s[i + 1]

\* The refinement mapping's list is the one the pointers describe.
LEMMA ListIs ==
  ASSUME NEW n, NEW C, NEW h, NEW t, NEW nx, NEW pv, NEW s,
         IsList(s, n, C, h, t, nx, pv)
  PROVE  ListOf(C, h, nx) = s /\ Cardinality(C) = n /\ s \in Seq(C) /\ Len(s) = n
<1>1. n \in Nat /\ s \in [1 .. n -> C]
  BY Zenon DEF IsList
<1>2. s \in Bijection(1 .. n, C)
  BY <1>1, Zenon DEF IsList, Bijection, Injection, Surjection, IsInjective
<1>3. Cardinality(C) = n
  BY <1>1, <1>2, FS_CountingElements, Zenon DEF ExistsBijection
<1>4. IsWalk(s, n, C, h, nx)
  BY <1>1, Zenon DEF IsList, IsWalk
<1>5. IsWalk(ListOf(C, h, nx), n, C, h, nx)
  <2> DEFINE P(w) == w[1] = h /\ \A i \in 1 .. n - 1 : nx[w[i]] = w[i + 1]
  <2>1. ListOf(C, h, nx) = CHOOSE w \in [1 .. n -> C] : P(w)
    BY <1>3, Zenon DEF ListOf
  <2>2. P(s)
    BY <1>4, Zenon DEF IsWalk
  <2> HIDE DEF P
  <2>3. ListOf(C, h, nx) \in [1 .. n -> C] /\ P(ListOf(C, h, nx))
    BY <2>1, <2>2, <1>1, Zenon
  <2> QED BY <2>3, Zenon DEF P, IsWalk
<1>6. ListOf(C, h, nx) = s
  BY <1>4, <1>5, WalkIsList, Zenon
<1> QED BY <1>1, <1>3, <1>6

-----------------------------------------------------------------------------
\* The list after k, its p-th item, moved to the front, and after a new item k was
\* put in front of it.
Fronted(s, n, p) ==
  [i \in 1 .. n |-> IF i = 1 THEN s[p] ELSE IF i <= p THEN s[i - 1] ELSE s[i]]
Put(s, n, k) == [i \in 1 .. n + 1 |-> IF i = 1 THEN k ELSE s[i - 1]]

\* The links after moveToHead of an item k that is not the head.
MovedNext(nx, pv, h, t, k) == [nx EXCEPT ![pv[k]] = IF k = t THEN nil ELSE nx[k], ![k] = h]
MovedPrev(nx, pv, h, t, k) ==
  LET un == IF k = t THEN pv ELSE [pv EXCEPT ![nx[k]] = pv[k]]
  IN  [un EXCEPT ![h] = k, ![k] = nil]

\* moveToHead, of an item from the middle or the tail.
LEMMA MoveKeepsList ==
  ASSUME NEW I, NEW J, NEW C \in SUBSET I, NEW nx \in [I -> J], NEW pv \in [I -> J],
         NEW n, NEW s, NEW h, NEW t, IsList(s, n, C, h, t, nx, pv),
         NEW p \in 1 .. n, p # 1
  PROVE  LET k == s[p] IN
         IsList(Fronted(s, n, p), n, C, k, IF k = t THEN pv[k] ELSE t,
                MovedNext(nx, pv, h, t, k), MovedPrev(nx, pv, h, t, k))
<1> DEFINE q == Fronted(s, n, p)
           k == s[p]
           nx1 == MovedNext(nx, pv, h, t, k)
           un == IF k = t THEN pv ELSE [pv EXCEPT ![nx[k]] = pv[k]]
           pv1 == MovedPrev(nx, pv, h, t, k)
<1>1. /\ n \in Nat /\ n >= 2 /\ s \in [1 .. n -> C]
      /\ \A x \in C : \E i \in 1 .. n : s[i] = x
      /\ \A i, j \in 1 .. n : s[i] = s[j] => i = j
      /\ s[1] = h /\ s[n] = t
  BY Zenon DEF IsList
<1>2. \A i \in 1 .. n - 1 : nx[s[i]] = s[i + 1] /\ pv[s[i + 1]] = s[i]
  BY Zenon DEF IsList
<1>3. /\ q \in [1 .. n -> C] /\ q[1] = k
      /\ \A i \in 2 .. p : q[i] = s[i - 1]
      /\ \A i \in p + 1 .. n : q[i] = s[i]
  BY <1>1 DEF Fronted
<1> HIDE DEF q
<1>4. /\ p \in 2 .. n /\ p \in Nat /\ p - 1 \in 1 .. n /\ p - 1 \in 1 .. n - 1 /\ (p - 1) + 1 = p
      /\ pv[k] = s[p - 1] /\ k # h /\ (k = t <=> p = n) /\ k \in C
  BY <1>1, <1>2
<1>5. ASSUME p < n PROVE p \in 1 .. n - 1 /\ nx[k] = s[p + 1]
  BY <1>4, <1>2, <1>5, <1>1
<1>6. \A x \in C : \E i \in 1 .. n : q[i] = x
  <2> SUFFICES ASSUME NEW x \in C PROVE \E i \in 1 .. n : q[i] = x
    OBVIOUS
  <2>1. PICK i \in 1 .. n : s[i] = x
    BY <1>1
  <2>2. CASE i = p
    BY <2>1, <2>2, <1>3, <1>1
  <2>3. CASE i < p
    <3>1. i + 1 \in 2 .. p /\ i + 1 \in 1 .. n /\ (i + 1) - 1 = i
      BY <2>3, <1>4, <1>1
    <3> QED BY <3>1, <2>1, <1>3
  <2>4. CASE i > p
    BY <2>1, <2>4, <1>3, <1>1, <1>4
  <2> QED BY <2>2, <2>3, <2>4, <1>1
<1>7. \A i, j \in 1 .. n : q[i] = q[j] => i = j
  <2> SUFFICES ASSUME NEW i \in 1 .. n, NEW j \in 1 .. n, q[i] = q[j] PROVE i = j
    OBVIOUS
  <2> DEFINE Old(a) == IF a = 1 THEN p ELSE IF a <= p THEN a - 1 ELSE a
  <2>1. \A a \in 1 .. n : Old(a) \in 1 .. n /\ q[a] = s[Old(a)]
    <3> SUFFICES ASSUME NEW a \in 1 .. n PROVE Old(a) \in 1 .. n /\ q[a] = s[Old(a)]
      BY Zenon
    <3>1. CASE a = 1
      BY <3>1, <1>3, <1>4
    <3>2. CASE a # 1 /\ a <= p
      <4>1. a \in 2 .. p /\ a - 1 \in 1 .. n
        BY <3>2, <1>1, <1>4
      <4> QED BY <4>1, <3>2, <1>3
    <3>3. CASE a > p
      <4>1. a \in p + 1 .. n /\ a # 1 /\ ~(a <= p)
        BY <3>3, <1>1, <1>4
      <4> QED BY <4>1, <1>3
    <3> QED BY <3>1, <3>2, <3>3, <1>1, <1>4
  <2>2. Old(i) = Old(j)
    BY <2>1, <1>1
  <2> QED BY <2>2, <1>1, <1>4
<1>8. q[n] = IF k = t THEN pv[k] ELSE t
  BY <1>1, <1>3, <1>4
\* The links, place by place: the new head, what was in front of k, and the rest.
<1>9. ASSUME NEW i \in 1 .. n - 1 PROVE nx1[q[i]] = q[i + 1] /\ pv1[q[i + 1]] = q[i]
  <2>0. i \in 1 .. n /\ i + 1 \in 1 .. n /\ i \in Nat /\ s[i] \in C /\ s[i + 1] \in C
    BY <1>1
  <2>1. un \in [I -> J \cup {s[p - 1]}] /\ h \in I /\ k \in I /\ s[p - 1] \in I
    BY <1>1, <1>4, <1>5
  <2>a. \A x \in I : x # k => nx1[x] = IF x = s[p - 1] THEN (IF k = t THEN nil ELSE nx[k]) ELSE nx[x]
    BY <1>4, <2>1 DEF MovedNext
  <2>b. nx1[k] = h
    BY <1>4, <2>1 DEF MovedNext
  <2>c. pv1[h] = k
    BY <1>4, <2>1 DEF MovedPrev
  <2>d. \A x \in I : x # k /\ x # h => pv1[x] = un[x]
    BY <1>4, <2>1 DEF MovedPrev
  <2> HIDE DEF nx1, pv1
  <2>2. CASE i = 1
    BY <2>2, <1>1, <1>3, <1>4, <2>b, <2>c
  <2>3. CASE i # 1 /\ i < p
    <3>1. q[i] = s[i - 1] /\ q[i + 1] = s[i] /\ i - 1 \in 1 .. n - 1 /\ (i - 1) + 1 = i /\ i - 1 \in 1 .. n
      <4>1. i \in 2 .. p /\ i + 1 \in 2 .. p /\ (i + 1) - 1 = i
        BY <2>3, <1>4, <2>0, <1>1
      <4>2. i - 1 \in 1 .. n - 1 /\ (i - 1) + 1 = i /\ i - 1 \in 1 .. n
        BY <2>3, <2>0, <1>1
      <4> QED BY <4>1, <4>2, <1>3
    <3>2. s[i - 1] # k /\ s[i - 1] # s[p - 1] /\ s[i] # k /\ s[i] # h
      BY <3>1, <2>3, <2>0, <1>1, <1>4
    <3>3. nx[s[i - 1]] = s[i] /\ pv[s[i]] = s[i - 1]
      BY <3>1, <1>2
    <3>4. s[i - 1] \in I /\ s[i] \in I
      BY <3>1, <1>1, <2>0
    <3>5. un[s[i]] = pv[s[i]]
      <4>1. CASE k = t
        BY <4>1
      <4>2. CASE k # t
        <5>1. p < n
          BY <4>2, <1>4, <1>1
        <5>2. s[i] # s[p + 1]
          BY <5>1, <1>5, <1>1, <2>3, <1>4, <2>0
        <5> QED BY <5>1, <5>2, <1>5, <4>2, <3>4
      <4> QED BY <4>1, <4>2
    <3>6. nx1[s[i - 1]] = nx[s[i - 1]]
      BY <2>a, <3>2, <3>4
    <3> QED BY <3>1, <3>2, <3>3, <3>4, <3>5, <3>6, <2>d
  <2>4. CASE i = p
    <3>1. q[i] = s[p - 1] /\ q[i + 1] = s[p + 1] /\ p < n
      BY <2>4, <1>3, <1>4, <2>0, <1>1
    <3>2. s[p - 1] # k /\ s[p + 1] # k /\ s[p + 1] # h /\ s[p + 1] \in I /\ k # t
      BY <3>1, <1>1, <1>4, <1>5
    <3>3. nx[k] = s[p + 1]
      BY <3>1, <1>5
    <3>4. un[s[p + 1]] = s[p - 1]
      BY <3>2, <3>3, <1>4
    <3>5. nx1[s[p - 1]] = s[p + 1]
      BY <2>a, <2>1, <3>2, <3>3
    <3> QED BY <3>1, <3>2, <3>4, <3>5, <2>d
  <2>5. CASE i > p
    <3>1. q[i] = s[i] /\ q[i + 1] = s[i + 1] /\ p < n
      BY <2>5, <1>3, <1>4, <2>0, <1>1
    <3>2. s[i] # k /\ s[i] # s[p - 1] /\ s[i + 1] # k /\ s[i + 1] # h /\ k # t /\ s[i + 1] # s[p + 1]
      BY <2>5, <2>0, <1>1, <1>4, <3>1, <1>5
    <3>3. un[s[i + 1]] = pv[s[i + 1]]
      BY <3>1, <3>2, <1>5, <2>0
    <3>4. nx1[s[i]] = nx[s[i]]
      BY <2>a, <3>2, <2>0
    <3> QED BY <3>1, <3>2, <3>3, <3>4, <2>d, <1>2, <2>0
  <2> QED BY <2>2, <2>3, <2>4, <2>5, <2>0, <1>4
<1>10. IsList(q, n, C, k, IF k = t THEN pv[k] ELSE t, nx1, pv1)
  <2> HIDE DEF k, nx1, pv1
  <2> QED BY <1>1, <1>3, <1>6, <1>7, <1>8, <1>9, Zenon DEF IsList
<1> QED BY <1>10, Zenon DEF q

\* putToHead.
LEMMA PutKeepsList ==
  ASSUME NEW I, NEW J, NEW C \in SUBSET I, NEW nx \in [I -> J], NEW pv \in [I -> J],
         NEW n, NEW s, NEW h, NEW t, IsList(s, n, C, h, t, nx, pv),
         NEW k \in I, k \notin C
  PROVE  IsList(Put(s, n, k), n + 1, C \cup {k}, k, t,
                [nx EXCEPT ![k] = h], [pv EXCEPT ![h] = k, ![k] = nil])
<1> DEFINE q == Put(s, n, k)
           nx1 == [nx EXCEPT ![k] = h]
           pv1 == [pv EXCEPT ![h] = k, ![k] = nil]
<1>1. /\ n \in Nat /\ n >= 2 /\ s \in [1 .. n -> C]
      /\ \A x \in C : \E i \in 1 .. n : s[i] = x
      /\ \A i, j \in 1 .. n : s[i] = s[j] => i = j
      /\ s[1] = h /\ s[n] = t
  BY Zenon DEF IsList
<1>2. \A i \in 1 .. n - 1 : nx[s[i]] = s[i + 1] /\ pv[s[i + 1]] = s[i]
  BY Zenon DEF IsList
<1>3. /\ q \in [1 .. n + 1 -> C \cup {k}] /\ q[1] = k
      /\ \A i \in 1 .. n : q[i + 1] = s[i]
  BY <1>1 DEF Put
<1> HIDE DEF q
<1>4. \A i \in 1 .. n + 1 : i = 1 \/ (i - 1 \in 1 .. n /\ q[i] = s[i - 1])
  <2> SUFFICES ASSUME NEW i \in 1 .. n + 1, i # 1 PROVE i - 1 \in 1 .. n /\ q[i] = s[i - 1]
    OBVIOUS
  <2>1. i - 1 \in 1 .. n /\ (i - 1) + 1 = i
    BY <1>1
  <2> QED BY <2>1, <1>3
<1>5. \A x \in C \cup {k} : \E i \in 1 .. n + 1 : q[i] = x
  <2> SUFFICES ASSUME NEW x \in C PROVE \E i \in 1 .. n + 1 : q[i] = x
    BY <1>1, <1>3
  <2>1. PICK i \in 1 .. n : s[i] = x
    BY <1>1
  <2>2. i + 1 \in 1 .. n + 1
    BY <1>1
  <2> QED BY <2>1, <2>2, <1>3
<1>6. \A i, j \in 1 .. n + 1 : q[i] = q[j] => i = j
  <2> SUFFICES ASSUME NEW i \in 1 .. n + 1, NEW j \in 1 .. n + 1, q[i] = q[j] PROVE i = j
    OBVIOUS
  <2>1. i = 1 \/ q[i] \in C
    BY <1>1, <1>4
  <2>2. j = 1 \/ q[j] \in C
    BY <1>1, <1>4
  <2>3. i = 1 <=> j = 1
    BY <2>1, <2>2, <1>3
  <2>4. CASE i # 1
    <3>1. s[i - 1] = s[j - 1] /\ i - 1 \in 1 .. n /\ j - 1 \in 1 .. n
      BY <1>4, <2>3, <2>4
    <3> QED BY <3>1, <1>1
  <2> QED BY <2>3, <2>4
<1>7. n + 1 \in 1 .. n + 1 /\ q[n + 1] = t
  BY <1>1, <1>3
<1>8. ASSUME NEW i \in 1 .. (n + 1) - 1 PROVE nx1[q[i]] = q[i + 1] /\ pv1[q[i + 1]] = q[i]
  <2>1. i \in 1 .. n /\ q[i + 1] = s[i] /\ s[i] \in C /\ s[i] # k /\ h \in C /\ h # k
    BY <1>1, <1>3
  <2>2. CASE i = 1
    BY <2>1, <2>2, <1>1, <1>3
  <2>3. CASE i # 1
    <3>1. i - 1 \in 1 .. n /\ i - 1 \in 1 .. n - 1 /\ (i - 1) + 1 = i /\ q[i] = s[i - 1]
      BY <2>1, <2>3, <1>1, <1>3
    <3>2. s[i] # h /\ s[i - 1] # k /\ s[i - 1] \in C
      BY <2>1, <2>3, <3>1, <1>1
    <3>3. nx1[s[i - 1]] = nx[s[i - 1]] /\ pv1[s[i]] = pv[s[i]]
      BY <2>1, <3>2
    <3> QED BY <2>1, <3>1, <3>3, <1>2, SMTT(30)
  <2> QED BY <2>2, <2>3
<1>9. n + 1 \in Nat /\ n + 1 >= 2
  BY <1>1
<1> QED BY <1>3, <1>5, <1>6, <1>7, <1>8, <1>9, Zenon DEF IsList, q

\* putToHead and then removeTail.
LEMMA EvictKeepsList ==
  ASSUME NEW I, NEW J, NEW C \in SUBSET I, NEW nx \in [I -> J], NEW pv \in [I -> J],
         NEW n, NEW s, NEW h, NEW t, IsList(s, n, C, h, t, nx, pv),
         NEW k \in I, k \notin C
  PROVE  IsList(Put(s, n - 1, k), n, (C \ {t}) \cup {k}, k, pv[t],
                [nx EXCEPT ![k] = h, ![pv[t]] = nil, ![t] = nil],
                [pv EXCEPT ![h] = k, ![k] = nil, ![t] = nil])
<1> DEFINE q == Put(s, n - 1, k)
           nx1 == [nx EXCEPT ![k] = h, ![pv[t]] = nil, ![t] = nil]
           pv1 == [pv EXCEPT ![h] = k, ![k] = nil, ![t] = nil]
           D == (C \ {t}) \cup {k}
<1>1. /\ n \in Nat /\ n >= 2 /\ s \in [1 .. n -> C]
      /\ \A x \in C : \E i \in 1 .. n : s[i] = x
      /\ \A i, j \in 1 .. n : s[i] = s[j] => i = j
      /\ s[1] = h /\ s[n] = t
  BY Zenon DEF IsList
<1>2. \A i \in 1 .. n - 1 : nx[s[i]] = s[i + 1] /\ pv[s[i + 1]] = s[i]
  BY Zenon DEF IsList
<1>a. n - 1 \in Nat /\ n - 1 >= 1 /\ n - 1 \in 1 .. n - 1 /\ n - 1 \in 1 .. n /\ (n - 1) + 1 = n
  BY <1>1
<1>b. pv[t] = s[n - 1]
  BY <1>1, <1>2, <1>a
<1>c. \A i \in 1 .. n - 1 : i \in 1 .. n /\ s[i] \in C /\ s[i] # t /\ s[i] # k
  BY <1>1
<1>3. /\ q \in [1 .. n -> D] /\ q[1] = k
      /\ \A i \in 1 .. n - 1 : q[i + 1] = s[i]
  BY <1>1, <1>a, <1>c DEF Put
<1> HIDE DEF q
<1>4. \A i \in 1 .. n : i = 1 \/ (i - 1 \in 1 .. n - 1 /\ q[i] = s[i - 1])
  <2> SUFFICES ASSUME NEW i \in 1 .. n, i # 1 PROVE i - 1 \in 1 .. n - 1 /\ q[i] = s[i - 1]
    OBVIOUS
  <2>1. i - 1 \in 1 .. n - 1 /\ (i - 1) + 1 = i
    BY <1>1
  <2> QED BY <2>1, <1>3
<1>5. \A x \in D : \E i \in 1 .. n : q[i] = x
  <2> SUFFICES ASSUME NEW x \in C, x # t PROVE \E i \in 1 .. n : q[i] = x
    BY <1>1, <1>3
  <2>1. PICK i \in 1 .. n : s[i] = x
    BY <1>1
  <2>2. i + 1 \in 1 .. n /\ i \in 1 .. n - 1
    BY <1>1, <2>1
  <2> QED BY <2>1, <2>2, <1>3
<1>6. \A i, j \in 1 .. n : q[i] = q[j] => i = j
  BY <1>1, <1>3, <1>4, <1>c
<1>7. q[n] = s[n - 1]
  BY <1>a, <1>3
<1>8. ASSUME NEW i \in 1 .. n - 1 PROVE nx1[q[i]] = q[i + 1] /\ pv1[q[i + 1]] = q[i]
  <2>1. /\ q[i + 1] = s[i] /\ s[i] \in C /\ s[i] # k /\ s[i] # t /\ i \in 1 .. n
        /\ h \in C /\ h # k /\ t \in C /\ t # k /\ h # t /\ s[n - 1] \in C /\ s[n - 1] # k
    BY <1>1, <1>3, <1>c, <1>a
  <2>2. CASE i = 1
    <3>1. nx1[k] = h /\ pv1[h] = k
      BY <2>1, <1>b
    <3> QED BY <2>1, <2>2, <3>1, <1>1, <1>3
  <2>3. CASE i # 1
    <3>1. i - 1 \in 1 .. n /\ i - 1 \in 1 .. n - 1 /\ (i - 1) + 1 = i /\ q[i] = s[i - 1]
      BY <2>1, <2>3, <1>1, <1>4
    <3>2. s[i] # h /\ s[i - 1] # k /\ s[i - 1] \in C /\ s[i - 1] # s[n - 1] /\ s[i - 1] # t
      BY <2>1, <2>3, <3>1, <1>1, <1>a, <1>c
    <3>3. nx1[s[i - 1]] = nx[s[i - 1]] /\ pv1[s[i]] = pv[s[i]]
      BY <2>1, <3>2, <1>b
    <3> QED BY <2>1, <3>1, <3>3, <1>2
  <2> QED BY <2>2, <2>3
<1> QED BY <1>1, <1>3, <1>5, <1>6, <1>7, <1>8, <1>b, Zenon DEF IsList, q

-----------------------------------------------------------------------------
\* The first list: the two initial items.
LEMMA FirstList ==
  ASSUME CacheInit
  PROVE  CacheTypes /\ Linked(<<"head", "tail">>, 2) /\ List = <<"head", "tail">>
<1>1. Dummies \subseteq Items /\ "head" # "tail" /\ nil \notin Items
  BY CacheAssumption DEF Items, Dummies
<1>2. CacheTypes
  <2>1. size \in Nat
    BY CacheAssumption DEF CacheInit
  <2> QED BY <1>1, <2>1 DEF CacheInit, CacheTypes, Dummies
<1>3. Linked(<<"head", "tail">>, 2)
  BY <1>1 DEF CacheInit, Linked, IsList, Dummies
<1>4. List = ListOf(cache, head, next)
  BY Zenon DEF List, ListOf
<1> QED BY <1>2, <1>3, <1>4, ListIs, Zenon DEF Linked

MappedFacts(s, n) ==
  /\ List = s /\ Cardinality(cache) = n /\ s \in Seq(cache) /\ Len(s) = n
  /\ n \in Nat /\ n >= 2 /\ DOMAIN s = 1 .. n /\ s \in [1 .. n -> cache]
  /\ s[1] = head /\ s[n] = tail
  /\ Abstract!Held = cache

\* What the list is, before and after a step, to the abstract cache.
LEMMA Mapped ==
  ASSUME NEW n, NEW s, Linked(s, n)
  PROVE  MappedFacts(s, n)
<1>1. List = ListOf(cache, head, next)
  BY Zenon DEF List, ListOf
<1>2. List = s /\ Cardinality(cache) = n /\ s \in Seq(cache) /\ Len(s) = n
  <2>1. ListOf(cache, head, next) = s /\ Cardinality(cache) = n /\ s \in Seq(cache) /\ Len(s) = n
    <3>1. IsList(s, n, cache, head, tail, next, prev)
      BY Zenon DEF Linked
    <3> QED BY <3>1, ListIs
  <2> QED BY <1>1, <2>1, Zenon
<1>3. n \in Nat /\ n >= 2 /\ s \in [1 .. n -> cache] /\ s[1] = head /\ s[n] = tail
  BY Zenon DEF Linked, IsList
<1>4. {s[i] : i \in 1 .. n} = cache
  BY <1>3 DEF Linked, IsList
<1>5. DOMAIN s = 1 .. n
  BY <1>3
<1>6. Abstract!Held = cache
  BY <1>2, <1>4, <1>5, Zenon DEF Abstract!Held
<1> QED BY <1>2, <1>3, <1>5, <1>6, Zenon DEF MappedFacts

\* The same of the list after a step.
LEMMA MappedAfter ==
  ASSUME NEW n, NEW s, Linked(s, n)'
  PROVE  List' = s
<1>1. List' = ListOf(cache', head', next')
  BY Zenon DEF List, ListOf
<1> QED BY <1>1, ListIs, Zenon DEF Linked

\* moveToHead is the abstract Use: the item comes first, the others keep their order.
LEMMA MoveIsUse ==
  ASSUME CacheTypes, NEW n, NEW s, Linked(s, n), NEW k \in Key, k \in cache,
         moveToHead(k), cache' = cache
  PROVE  /\ \E q \in [1 .. n -> cache] : Linked(q, n)'
         /\ Abstract!Use(k)
         /\ head' \in Items /\ tail' \in Items
         /\ prev' \in [Items -> Items \cup {nil}] /\ next' \in [Items -> Items \cup {nil}]
<1>1. /\ List = s /\ n \in Nat /\ n >= 2 /\ DOMAIN s = 1 .. n /\ s \in [1 .. n -> cache]
      /\ s[1] = head /\ s[n] = tail
  <2>1. MappedFacts(s, n)
    BY Mapped, Zenon
  <2> QED BY <2>1, Zenon DEF MappedFacts
<1>2. PICK p \in 1 .. n : s[p] = k
  BY Zenon DEF Linked, IsList
<1>3. ASSUME NEW q \in [1 .. n -> cache], q = Fronted(s, n, p), Linked(q, n)'
      PROVE  Abstract!Use(k)
  <2>1. List' = Fronted(s, n, p)
    BY <1>3, MappedAfter, Zenon
  <2>2. p \in DOMAIN List /\ List[p] = k
    BY <1>1, <1>2
  <2> QED BY <1>1, <2>1, <2>2 DEF Abstract!Use, Fronted
<1>4. CASE k = head
  <2>1. UNCHANGED <<head, tail, prev, next>>
    BY <1>4 DEF moveToHead
  <2>2. p = 1
    BY <1>1, <1>2, <1>4 DEF Linked, IsList
  <2>3. s = Fronted(s, n, p)
    BY <2>2, <1>1 DEF Fronted
  <2>4. Linked(s, n)'
    BY <2>1, Zenon DEF Linked
  <2> QED BY <2>1, <2>3, <2>4, <1>1, <1>3, Zenon DEF CacheTypes
<1>5. CASE k # head
  <2> DEFINE nx1 == MovedNext(next, prev, head, tail, k)
             pv1 == MovedPrev(next, prev, head, tail, k)
             q == Fronted(s, n, p)
  <2>1. head' = k /\ tail' = (IF k = tail THEN prev[k] ELSE tail) /\ next' = nx1 /\ prev' = pv1
    BY <1>5, Zenon DEF moveToHead, MovedNext, MovedPrev
  <2>2. p # 1
    BY <1>1, <1>2, <1>5
  <2>t. /\ cache \in SUBSET Items /\ next \in [Items -> Items \cup {nil}]
        /\ prev \in [Items -> Items \cup {nil}] /\ k \in Items /\ head \in Items
    BY DEF CacheTypes
  <2>3. IsList(q, n, cache, k, IF k = tail THEN prev[k] ELSE tail, nx1, pv1)
    <3>1. IsList(s, n, cache, head, tail, next, prev)
      BY Zenon DEF Linked
    <3>2. IsList(q, n, cache, s[p], IF s[p] = tail THEN prev[s[p]] ELSE tail,
                 MovedNext(next, prev, head, tail, s[p]), MovedPrev(next, prev, head, tail, s[p]))
      BY <3>1, <2>2, <2>t, MoveKeepsList, Zenon
    <3> QED BY <3>2, <1>2, Zenon
  <2>4. Linked(q, n)'
    BY <2>1, <2>3, Zenon DEF Linked
  <2>5. q \in [1 .. n -> cache]
    BY <1>1, <1>2 DEF Fronted
  <2>6. prev[k] = s[p - 1] /\ p - 1 \in 1 .. n
    <3>1. p - 1 \in 1 .. n - 1 /\ (p - 1) + 1 = p
      BY <1>1, <2>2
    <3> QED BY <3>1, <1>1, <1>2 DEF Linked, IsList
  <2>7. prev[k] \in Items /\ prev' \in [Items -> Items \cup {nil}] /\ next' \in [Items -> Items \cup {nil}]
    BY <1>1, <2>1, <2>6, <2>t DEF MovedNext, MovedPrev
  <2>8. tail' \in Items /\ head' \in Items
    BY <2>1, <2>7, <2>t DEF CacheTypes
  <2> QED BY <2>4, <2>5, <2>7, <2>8, <1>3, Zenon
<1> QED BY <1>4, <1>5

\* A step that leaves the map's keys and the links alone leaves the list alone.
LEMMA LinksStay ==
  ASSUME UNCHANGED <<cache, head, tail, next, prev>>
  PROVE  /\ List' = List
         /\ \A n, s : Linked(s, n) => Linked(s, n)'
<1>1. List' = List
  BY Zenon DEF List
<1>2. \A n, s : Linked(s, n) => Linked(s, n)'
  BY Zenon DEF Linked
<1> QED BY <1>1, <1>2

\* Get is the abstract Get.
LEMMA GetStep ==
  ASSUME CacheInv, NEW k \in Key, Get(k)
  PROVE  CacheInv' /\ Abstract!Get(k)
<1>1. PICK n, s : Linked(s, n)
  BY Zenon DEF CacheInv
<1>2. n \in Nat /\ Abstract!Held = cache
  <2>1. MappedFacts(s, n)
    BY <1>1, Mapped, Zenon
  <2> QED BY <2>1, Zenon DEF MappedFacts
<1>3. UNCHANGED <<size, store, cache, val, stale>> /\ CacheTypes
  BY Zenon DEF Get, CacheInv
<1>4. CASE store[k] = NoVal /\ k \in cache
  <2>1. out' = <<val[k], k \in stale>> /\ moveToHead(k)
    BY <1>4, Zenon DEF Get
  <2>2. /\ \E q \in [1 .. n -> cache] : Linked(q, n)'
        /\ Abstract!Use(k)
        /\ head' \in Items /\ tail' \in Items
        /\ prev' \in [Items -> Items \cup {nil}] /\ next' \in [Items -> Items \cup {nil}]
    BY <1>1, <1>3, <1>4, <2>1, MoveIsUse, Zenon
  <2>3. CacheInv'
    <3>1. CacheTypes'
      BY <1>3, <2>2, Zenon DEF CacheTypes
    <3>2. \E q \in [1 .. n -> cache'] : Linked(q, n)'
      BY <2>2, <1>3, Zenon
    <3> QED BY <1>2, <3>1, <3>2, Zenon DEF CacheInv
  <2>4. Abstract!Get(k)
    <3>1. out' = <<[x \in Key |-> val[x]][k], k \in stale>>
      BY <2>1
    <3> QED BY <1>2, <1>3, <1>4, <2>2, <3>1, Zenon DEF Abstract!Get
  <2> QED BY <2>3, <2>4
<1>5. CASE store[k] # NoVal \/ k \notin cache
  <2>1. UNCHANGED <<head, tail, prev, next>>
    BY <1>5, Zenon DEF Get
  <2>2. List' = List /\ Linked(s, n)'
    BY <1>1, <1>3, <2>1, LinksStay, Zenon
  <2>3. CacheInv'
    <3>1. CacheTypes'
      BY <1>3, <2>1, Zenon DEF CacheTypes
    <3>2. s \in [1 .. n -> cache']
      BY <2>2, Zenon DEF Linked, IsList
    <3> QED BY <1>2, <3>1, <3>2, <2>2, Zenon DEF CacheInv
  <2>4. Abstract!Get(k)
    BY <1>2, <1>3, <1>5, <2>2, Zenon DEF Abstract!Get, Get
  <2> QED BY <2>3, <2>4
<1> QED BY <1>4, <1>5

\* Set with ttl 0, and the passing of time.
LEMMA QuietStep ==
  ASSUME CacheInv, NEW k \in Key
  PROVE  /\ \A v \in Val : SetForever(k, v) => CacheInv' /\ Abstract!SetForever(k, v)
         /\ Expire(k) => CacheInv' /\ Abstract!Expire(k)
<1>1. PICK n, s : Linked(s, n)
  BY Zenon DEF CacheInv
<1>2. n \in Nat /\ Abstract!Held = cache
  <2>1. MappedFacts(s, n)
    BY <1>1, Mapped, Zenon
  <2> QED BY <2>1, Zenon DEF MappedFacts
<1>3. ASSUME UNCHANGED <<size, cache, head, tail, prev, next, val>>,
             store' \in [Key -> Val \cup {NoVal}]
      PROVE  CacheInv' /\ List' = List
  <2>1. List' = List /\ Linked(s, n)'
    BY <1>1, <1>3, LinksStay, Zenon
  <2>2. s \in [1 .. n -> cache']
    BY <2>1, Zenon DEF Linked, IsList
  <2>3. CacheTypes'
    BY <1>3, Zenon DEF CacheTypes, CacheInv
  <2> QED BY <1>2, <2>1, <2>2, <2>3, Zenon DEF CacheInv
<1>4. ASSUME NEW v \in Val, SetForever(k, v)
      PROVE  CacheInv' /\ Abstract!SetForever(k, v)
  <2>1. store' \in [Key -> Val \cup {NoVal}]
    BY <1>4 DEF SetForever, CacheInv, CacheTypes
  <2>2. CacheInv' /\ List' = List
    BY <1>3, <1>4, <2>1, Zenon DEF SetForever
  <2> QED BY <1>4, <2>2, Zenon DEF SetForever, Abstract!SetForever
<1>5. ASSUME Expire(k)
      PROVE  CacheInv' /\ Abstract!Expire(k)
  <2>1. CacheInv' /\ List' = List
    BY <1>3, <1>5, Zenon DEF Expire, CacheInv, CacheTypes
  <2> QED BY <1>2, <1>5, <2>1, Zenon DEF Expire, Abstract!Expire
<1> QED BY <1>4, <1>5

\* Set of a key that is in the map.
LEMMA SetExistingStep ==
  ASSUME CacheInv, NEW k \in Key, NEW v \in Val, SetExisting(k, v)
  PROVE  CacheInv' /\ Abstract!Set(k, v)
<1>1. PICK n, s : Linked(s, n)
  BY Zenon DEF CacheInv
<1>2. n \in Nat /\ Abstract!Held = cache
  <2>1. MappedFacts(s, n)
    BY <1>1, Mapped, Zenon
  <2> QED BY <2>1, Zenon DEF MappedFacts
<1>3. /\ UNCHANGED <<size, store, cache, out>> /\ CacheTypes /\ k \in cache /\ moveToHead(k)
      /\ val' = [val EXCEPT ![k] = v] /\ stale' = stale \ {k}
  BY Zenon DEF SetExisting, CacheInv
<1>4. /\ \E q \in [1 .. n -> cache] : Linked(q, n)'
      /\ Abstract!Use(k)
      /\ head' \in Items /\ tail' \in Items
      /\ prev' \in [Items -> Items \cup {nil}] /\ next' \in [Items -> Items \cup {nil}]
  BY <1>1, <1>3, MoveIsUse, Zenon
<1>5. CacheInv'
  <2>1. val' \in [Items -> Val \cup {NoVal}]
    BY <1>3 DEF CacheTypes
  <2>2. CacheTypes'
    BY <1>3, <1>4, <2>1, Zenon DEF CacheTypes
  <2> QED BY <1>2, <1>3, <1>4, <2>2, Zenon DEF CacheInv
<1>6. [x \in Key |-> val'[x]] = [[x \in Key |-> val[x]] EXCEPT ![k] = v]
  BY <1>3, Zenon DEF CacheTypes, Items
<1> QED BY <1>2, <1>3, <1>4, <1>5, <1>6, Zenon DEF Abstract!Set

\* Set of a new key while there is room.
LEMMA SetNewStep ==
  ASSUME CacheInv, NEW k \in Key, NEW v \in Val, SetNew(k, v)
  PROVE  CacheInv' /\ Abstract!Set(k, v)
<1>1. PICK n, s : Linked(s, n)
  BY Zenon DEF CacheInv
<1>2. /\ List = s /\ Cardinality(cache) = n /\ s \in Seq(cache) /\ Len(s) = n
      /\ n \in Nat /\ n >= 2 /\ Abstract!Held = cache /\ s \in [1 .. n -> cache] /\ s[1] = head
  <2>1. MappedFacts(s, n)
    BY <1>1, Mapped, Zenon
  <2> QED BY <2>1, Zenon DEF MappedFacts
<1>3. /\ UNCHANGED <<size, store, out>> /\ CacheTypes /\ k \notin cache /\ n + 1 <= size
      /\ putToHead(k) /\ cache' = cache \cup {k}
      /\ val' = [val EXCEPT ![k] = v] /\ stale' = stale \ {k}
  BY <1>2, Zenon DEF SetNew, CacheInv
<1>t. /\ cache \in SUBSET Items /\ next \in [Items -> Items \cup {nil}]
      /\ prev \in [Items -> Items \cup {nil}] /\ k \in Items /\ head \in Items /\ tail \in Items
      /\ size \in Nat
  BY <1>3, Zenon DEF CacheTypes, Items
<1>4. /\ head' = k /\ tail' = tail /\ next' = [next EXCEPT ![k] = head]
      /\ prev' = [prev EXCEPT ![head] = k, ![k] = nil]
  BY <1>3, Zenon DEF putToHead
<1>5. Linked(Put(s, n, k), n + 1)'
  <2>1. IsList(s, n, cache, head, tail, next, prev)
    BY <1>1, Zenon DEF Linked
  <2>2. IsList(Put(s, n, k), n + 1, cache \cup {k}, k, tail,
               [next EXCEPT ![k] = head], [prev EXCEPT ![head] = k, ![k] = nil])
    BY <2>1, <1>3, <1>t, PutKeepsList, Zenon
  <2> QED BY <2>2, <1>3, <1>4, Zenon DEF Linked
<1>6. List' = Put(s, n, k)
  BY <1>5, MappedAfter, Zenon
<1>7. Put(s, n, k) = <<k>> \o s
  BY <1>2 DEF Put
<1>8. CacheInv'
  <2>1. val' \in [Items -> Val \cup {NoVal}]
    BY <1>3, Zenon DEF CacheTypes
  <2>2. CacheTypes'
    <3>1. next' \in [Items -> Items \cup {nil}] /\ prev' \in [Items -> Items \cup {nil}]
      BY <1>4, <1>t
    <3>2. cache' \in SUBSET Items /\ head' \in Items /\ tail' \in Items
      BY <1>3, <1>4, <1>t
    <3> QED BY <1>3, <2>1, <3>1, <3>2, Zenon DEF CacheTypes
  <2>3. Put(s, n, k) \in [1 .. n + 1 -> cache'] /\ n + 1 \in Nat
    BY <1>5, <1>2, Zenon DEF Linked, IsList
  <2> QED BY <1>5, <2>2, <2>3, Zenon DEF CacheInv
<1>9. [x \in Key |-> val'[x]] = [[x \in Key |-> val[x]] EXCEPT ![k] = v]
  BY <1>3, Zenon DEF CacheTypes, Items
<1>10. Len(List) < IF size < 2 THEN 2 ELSE size
  BY <1>2, <1>3, <1>t
<1>11. k \notin Abstract!Held /\ List' = <<k>> \o List
  BY <1>2, <1>3, <1>6, <1>7
<1> QED BY <1>3, <1>8, <1>9, <1>10, <1>11, Zenon DEF Abstract!Set

\* Set of a new key in a full map.
LEMMA SetEvictStep ==
  ASSUME CacheInv, NEW k \in Key, NEW v \in Val, SetEvict(k, v)
  PROVE  CacheInv' /\ Abstract!Set(k, v)
<1>1. PICK n, s : Linked(s, n)
  BY Zenon DEF CacheInv
<1>2. /\ List = s /\ Cardinality(cache) = n /\ s \in Seq(cache) /\ Len(s) = n /\ s[n] = tail
      /\ n \in Nat /\ n >= 2 /\ Abstract!Held = cache /\ s \in [1 .. n -> cache]
  <2>1. MappedFacts(s, n)
    BY <1>1, Mapped, Zenon
  <2> QED BY <2>1, Zenon DEF MappedFacts
<1>3. /\ UNCHANGED <<size, store, out>> /\ CacheTypes /\ k \notin cache /\ n + 1 > size
      /\ head' = k /\ tail' = prev[tail] /\ cache' = (cache \ {tail}) \cup {k}
      /\ prev' = [prev EXCEPT ![head] = k, ![k] = nil, ![tail] = nil]
      /\ next' = [next EXCEPT ![k] = head, ![prev[tail]] = nil, ![tail] = nil]
      /\ val' = [x \in Items |-> IF x = k THEN v ELSE IF x = tail THEN NoVal ELSE val[x]]
      /\ stale' = stale \ {k, tail}
  BY <1>2, Zenon DEF SetEvict, CacheInv
<1>t. /\ cache \in SUBSET Items /\ next \in [Items -> Items \cup {nil}]
      /\ prev \in [Items -> Items \cup {nil}] /\ k \in Items /\ head \in Items /\ tail \in Items
      /\ size \in Nat /\ Key \subseteq Items
  BY <1>3, Zenon DEF CacheTypes, Items
<1>5. Linked(Put(s, n - 1, k), n)'
  <2>1. IsList(s, n, cache, head, tail, next, prev)
    BY <1>1, Zenon DEF Linked
  <2>2. IsList(Put(s, n - 1, k), n, (cache \ {tail}) \cup {k}, k, prev[tail],
               [next EXCEPT ![k] = head, ![prev[tail]] = nil, ![tail] = nil],
               [prev EXCEPT ![head] = k, ![k] = nil, ![tail] = nil])
    BY <2>1, <1>3, <1>t, EvictKeepsList, Zenon
  <2> QED BY <2>2, <1>3, Zenon DEF Linked
<1>6. List' = Put(s, n - 1, k)
  BY <1>5, MappedAfter, Zenon
<1>7. Put(s, n - 1, k) = <<k>> \o SubSeq(s, 1, n - 1)
  <2>1. SubSeq(s, 1, n - 1) \in Seq(cache) /\ Len(SubSeq(s, 1, n - 1)) = n - 1
    BY <1>2
  <2> QED BY <1>2, <2>1 DEF Put
<1>8. CacheInv'
  <2>1. val' \in [Items -> Val \cup {NoVal}]
    BY <1>3 DEF CacheTypes
  <2>2. Put(s, n - 1, k) \in [1 .. n -> cache'] /\ tail' = Put(s, n - 1, k)[n]
    BY <1>5, Zenon DEF Linked, IsList
  <2>3. cache' \in SUBSET Items
    BY <1>3, <1>t
  <2>4. CacheTypes'
    <3>1. next' \in [Items -> Items \cup {nil}] /\ prev' \in [Items -> Items \cup {nil}]
      BY <1>3, <1>t
    <3>2. head' \in Items /\ tail' \in Items
      BY <1>2, <1>3, <1>t, <2>2, <2>3
    <3> QED BY <1>3, <2>1, <2>3, <3>1, <3>2, Zenon DEF CacheTypes
  <2> QED BY <1>2, <1>5, <2>2, <2>4, Zenon DEF CacheInv
<1>9. [x \in Key |-> val'[x]]
        = [x \in Key |-> IF x = k THEN v ELSE IF x = tail THEN NoVal ELSE [y \in Key |-> val[y]][x]]
  BY <1>3, <1>t
<1>10. Len(List) >= IF size < 2 THEN 2 ELSE size
  BY <1>2, <1>3, <1>t
<1>11. k \notin Abstract!Held /\ List' = <<k>> \o SubSeq(List, 1, Len(List) - 1) /\ List[Len(List)] = tail
  BY <1>2, <1>3, <1>6, <1>7, Zenon
<1> QED BY <1>3, <1>8, <1>9, <1>10, <1>11, Zenon DEF Abstract!Set

\* The pointers of dns/cache.go implement the least-recently-used cache of LruSpec,
\* for any keys, answers and sizes: Get and Set return and keep what the abstract
\* cache does, and what makes room is the entry that was used longest ago.
THEOREM CacheImplements == CacheSpec => Implements
<1>1. CacheInit => CacheInv /\ Abstract!Init
  <2> SUFFICES ASSUME CacheInit PROVE CacheInv /\ Abstract!Init
    OBVIOUS
  <2>1. CacheTypes /\ Linked(<<"head", "tail">>, 2) /\ List = <<"head", "tail">>
    BY FirstList
  <2>2. CacheInv
    <3>1. <<"head", "tail">> \in [1 .. 2 -> cache] /\ 2 \in Nat
      BY <2>1 DEF Linked, IsList
    <3> QED BY <2>1, <3>1, Zenon DEF CacheInv
  <2>3. (IF size < 2 THEN 2 ELSE size) \in Nat \ {0, 1}
    BY <2>1 DEF CacheTypes
  <2>4. [k \in Key |-> val[k]] = [k \in Key |-> NoVal]
    BY DEF CacheInit, Items
  <2> QED BY <2>1, <2>2, <2>3, <2>4, Zenon DEF CacheInit, Abstract!Init
<1>2. CacheInv /\ [CacheNext]_cacheVars => CacheInv' /\ [Abstract!Next]_(Abstract!vars)
  <2> SUFFICES ASSUME CacheInv, [CacheNext]_cacheVars
               PROVE  CacheInv' /\ [Abstract!Next]_(Abstract!vars)
    OBVIOUS
  <2>1. ASSUME NEW k \in Key, Get(k) PROVE CacheInv' /\ Abstract!Next
    BY <2>1, GetStep, Zenon DEF Abstract!Next
  <2>2. ASSUME NEW k \in Key, Expire(k) PROVE CacheInv' /\ Abstract!Next
    BY <2>2, QuietStep, Zenon DEF Abstract!Next
  <2>3. ASSUME NEW k \in Key, NEW v \in Val, SetForever(k, v) PROVE CacheInv' /\ Abstract!Next
    BY <2>3, QuietStep, Zenon DEF Abstract!Next
  <2>4. ASSUME NEW k \in Key, NEW v \in Val, Set(k, v) PROVE CacheInv' /\ Abstract!Next
    BY <2>4, SetExistingStep, SetNewStep, SetEvictStep, Zenon DEF Set, Abstract!Next
  <2>5. CASE UNCHANGED cacheVars
    <3>1. List' = List /\ \A n, s : Linked(s, n) => Linked(s, n)'
      BY <2>5, LinksStay, Zenon DEF cacheVars
    <3>2. CacheInv'
      BY <2>5, <3>1, Zenon DEF cacheVars, CacheInv, CacheTypes
    <3>3. UNCHANGED Abstract!vars
      BY <2>5, <3>1, Zenon DEF cacheVars, Abstract!vars
    <3> QED BY <3>2, <3>3
  <2> QED BY <2>1, <2>2, <2>3, <2>4, <2>5, Zenon DEF CacheNext
<1> QED BY <1>1, <1>2, PTL DEF CacheSpec, Implements, Abstract!Spec
=============================================================================
