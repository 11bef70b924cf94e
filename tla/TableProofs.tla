----------------------------- MODULE TableProofs -----------------------------
(***************************************************************************)
(* The two tables a datagram may change, for any sizes: the address pool   *)
(* of the DHCP service and the session table of a UDP server.              *)
(***************************************************************************)
EXTENDS DHCPPool, UDPNat, WellFoundedInduction, TLAPS

\* The address pool.  No two DHCP clients use the same address.  The argument
\* compares clocks: what a client holds, or is about to receive, is its own item in
\* the pool, and the item's lease outlasts the client's.  And no client has two
\* addresses, as a free item is only given to a client that owns none.

\* The lease l, held by m or on its way to m, is covered by m's item.
Covered(l, m) ==
  l.ip # NoIP => /\ l.ip \in IPs /\ mac[l.ip] = m
                 /\ left[l.ip] = 0 \/ l.left < left[l.ip]

LeasesCovered == \A m \in Macs : Covered(held[m], m) /\ Covered(reply[m], m)

\* The zero expire marks exactly the free and the reserved items.
ZeroExpire == \A a \in IPs : left[a] = 0 <=> mac[a] = Nobody \/ Static[a] # Nobody

IInv == TypeOK /\ StaticStays /\ ZeroExpire /\ LeasesCovered

\* The scan of LeaseIP over a client's items finds one of them.
LEMMA FirstIsMember == ASSUME NEW S \in SUBSET IPs, S # {} PROVE First(S) \in S
<1>1. S \subseteq Nat
  BY PoolAssumption DEF IPs
<1> DEFINE R == OpToRel(<, Nat)
<1>2. \A x, y \in Nat : y < x => <<y, x>> \in R
  BY Zenon DEF OpToRel
<1>3. IsWellFoundedOn(R, Nat)
  BY NatLessThanWellFounded, Zenon
<1> HIDE DEF R
<1>4. \E x \in S : \A y \in S : ~(<<y, x>> \in R)
  BY <1>1, <1>3, WFMin, Zenon
<1>5. PICK x \in S : \A y \in S : ~(<<y, x>> \in R)
  BY <1>4
<1>6. \A y \in S : x <= y
  <2> SUFFICES ASSUME NEW y \in S PROVE ~(y < x)
    BY <1>1
  <2> QED BY <1>1, <1>2, <1>5, Zenon
<1> QED BY <1>6 DEF First

\* LeaseIP returns an item of the client's own or a free one, and a free one
\* only to a client that owns none.
LEMMA LeaseFacts ==
  ASSUME TypeOK, NEW m \in Macs, NEW ip, NEW a \in LeaseIP(m, ip)
  PROVE  /\ a \in IPs /\ (mac[a] = m \/ mac[a] = Nobody)
         /\ mac[a] = m \/ \A b \in IPs : mac[b] # m
<1>1. CASE Own(m) # {}
  <2>1. Own(m) \in SUBSET IPs
    BY DEF Own
  <2>2. a \in Own(m)
    BY <1>1, <2>1, FirstIsMember DEF LeaseIP
  <2> QED BY <2>2 DEF Own
<1>2. CASE Own(m) = {}
  BY <1>2 DEF LeaseIP, Free, Own
<1> QED BY <1>1, <1>2

\* The pool that New sets up.
LEMMA InitIInv == Init => IInv
<1> SUFFICES ASSUME Init PROVE IInv
  OBVIOUS
<1>1. TypeOK
  <2>1. failover \in BOOLEAN
    BY Zenon DEF Init
  <2> QED BY <2>1, PoolAssumption DEF Init, TypeOK, Nothing
<1>2. StaticStays /\ ZeroExpire
  BY PoolAssumption DEF Init, StaticStays, ZeroExpire
<1>3. LeasesCovered
  BY Zenon DEF Init, LeasesCovered, Covered, Nothing
<1> QED BY <1>1, <1>2, <1>3 DEF IInv

\* Granting an item of the client's own or a free one keeps every other client's
\* lease covered, and covers a new lease of the client.
LEMMA GrantKeeps ==
  ASSUME IInv, NEW m \in Macs, NEW a \in IPs, mac[a] = m \/ mac[a] = Nobody, Grant(m, a)
  PROVE  /\ mac' \in [IPs -> Macs \cup {Nobody}] /\ left' \in [IPs -> 0 .. Lease + 1]
         /\ StaticStays' /\ ZeroExpire'
         /\ \A l \in [ip : IPs \cup {NoIP}, left : 0 .. Lease], n \in Macs :
              (l.ip # NoIP => /\ l.ip \in IPs /\ mac[l.ip] = n
                              /\ left[l.ip] = 0 \/ l.left < left[l.ip])
              => (l.ip # NoIP => /\ l.ip \in IPs /\ mac'[l.ip] = n
                                 /\ left'[l.ip] = 0 \/ l.left < left'[l.ip])
         /\ mac'[a] = m /\ (left'[a] = 0 \/ Lease < left'[a])
<1> USE PoolAssumption DEF IInv, TypeOK, Grant
<1>1. mac' \in [IPs -> Macs \cup {Nobody}] /\ left' \in [IPs -> 0 .. Lease + 1]
  OBVIOUS
<1>2. StaticStays' /\ ZeroExpire'
  BY DEF StaticStays, ZeroExpire
<1>3. mac'[a] = m /\ (left'[a] = 0 \/ Lease < left'[a])
  OBVIOUS
<1>4. ASSUME NEW l \in [ip : IPs \cup {NoIP}, left : 0 .. Lease], NEW n \in Macs,
             l.ip # NoIP, mac[l.ip] = n, left[l.ip] = 0 \/ l.left < left[l.ip]
      PROVE  l.ip \in IPs /\ mac'[l.ip] = n /\ (left'[l.ip] = 0 \/ l.left < left'[l.ip])
  <2>1. l.ip \in IPs /\ l.left \in 0 .. Lease
    BY <1>4
  <2>2. CASE l.ip = a
    BY <1>3, <1>4, <2>1, <2>2
  <2>3. CASE l.ip # a
    BY <1>4, <2>1, <2>3
  <2> QED BY <2>2, <2>3
<1> QED BY <1>1, <1>2, <1>3, <1>4

\* DISCOVER and INFORM change no client's lease.
LEMMA DiscoverKeeps == ASSUME IInv, NEW m \in Macs, Discover(m) PROVE IInv'
<1>1. PICK a \in LeaseIP(m, NoIP) : Grant(m, a)
  BY DEF Discover
<1>2. a \in IPs /\ (mac[a] = m \/ mac[a] = Nobody)
  BY LeaseFacts DEF IInv
<1>3. UNCHANGED <<failover, reply, held>>
  BY DEF Discover
<1>4. TypeOK'
  BY <1>1, <1>2, <1>3, GrantKeeps DEF IInv, TypeOK
<1>5. StaticStays' /\ ZeroExpire'
  BY <1>1, <1>2, GrantKeeps
<1>6. LeasesCovered'
  BY <1>1, <1>2, <1>3, GrantKeeps DEF IInv, TypeOK, LeasesCovered, Covered
<1> QED BY <1>4, <1>5, <1>6 DEF IInv

\* REQUEST: an ack carries a lease that the granted item outlasts.
LEMMA RequestKeeps ==
  ASSUME IInv, NEW m \in Macs, NEW ip \in IPs, Request(m, ip) PROVE IInv'
<1>1. PICK a \in LeaseIP(m, ip) :
        /\ Grant(m, a)
        /\ IF a = ip
           THEN reply' = [reply EXCEPT ![m] = [ip |-> a, left |-> Lease]] /\ UNCHANGED held
           ELSE /\ reply' = [reply EXCEPT ![m] = Nothing]
                /\ held' \in {held, [held EXCEPT ![m] = Nothing]}
  BY DEF Request
<1>2. a \in IPs /\ (mac[a] = m \/ mac[a] = Nobody)
  BY LeaseFacts DEF IInv
<1>3. UNCHANGED failover
  BY DEF Request
<1>4. /\ reply \in [Macs -> [ip : IPs \cup {NoIP}, left : 0 .. Lease]]
      /\ held \in [Macs -> [ip : IPs \cup {NoIP}, left : 0 .. Lease]]
  BY DEF IInv, TypeOK
<1>5. [ip |-> a, left |-> Lease] \in [ip : IPs \cup {NoIP}, left : 0 .. Lease]
  BY <1>2, PoolAssumption
<1>6. Nothing \in [ip : IPs \cup {NoIP}, left : 0 .. Lease] /\ Nothing.ip = NoIP
  BY PoolAssumption DEF Nothing
<1>7. /\ reply' \in [Macs -> [ip : IPs \cup {NoIP}, left : 0 .. Lease]]
      /\ held' \in [Macs -> [ip : IPs \cup {NoIP}, left : 0 .. Lease]]
  BY <1>1, <1>4, <1>5, <1>6, Zenon
<1>8. TypeOK'
  BY <1>1, <1>2, <1>3, <1>7, GrantKeeps DEF IInv, TypeOK
<1>9. StaticStays' /\ ZeroExpire'
  BY <1>1, <1>2, GrantKeeps
<1>10. ASSUME NEW n \in Macs PROVE Covered(held[n], n)' /\ Covered(reply[n], n)'
  <2>1. held'[n] = held[n] \/ held'[n] = Nothing
    BY <1>1, <1>4
  <2>2. Covered(held[n], n)'
    <3>1. held'[n] \in [ip : IPs \cup {NoIP}, left : 0 .. Lease] /\ Covered(held[n], n)
      BY <1>7 DEF IInv, LeasesCovered
    <3>2. CASE held'[n] = held[n]
      BY <1>1, <1>2, <3>1, <3>2, GrantKeeps DEF Covered
    <3>3. CASE held'[n] = Nothing
      BY <1>6, <3>3, Zenon DEF Covered
    <3> QED BY <2>1, <3>2, <3>3
  <2>3. \/ reply'[n] = reply[n] \/ reply'[n] = Nothing
        \/ n = m /\ reply'[n] = [ip |-> a, left |-> Lease]
    BY <1>1, <1>4
  <2>4. CASE reply'[n] = reply[n] \/ reply'[n] = Nothing
    <3>1. reply'[n] \in [ip : IPs \cup {NoIP}, left : 0 .. Lease] /\ Covered(reply[n], n)
      BY <1>7 DEF IInv, LeasesCovered
    <3>2. CASE reply'[n] = reply[n]
      BY <1>1, <1>2, <2>2, <3>1, <3>2, GrantKeeps DEF Covered
    <3>3. CASE reply'[n] = Nothing
      BY <1>6, <2>2, <3>3, Zenon DEF Covered
    <3> QED BY <2>4, <3>2, <3>3
  <2>5. CASE n = m /\ reply'[n] = [ip |-> a, left |-> Lease]
    <3>1. mac'[a] = m /\ (left'[a] = 0 \/ Lease < left'[a])
      BY <1>1, <1>2, GrantKeeps
    <3>2. reply'[n].ip = a /\ reply'[n].left = Lease
      BY <2>5
    <3>3. Covered(reply[n], n)'
      BY <1>2, <2>5, <3>1, <3>2 DEF Covered
    <3> QED BY <2>2, <3>3
  <2> QED BY <2>3, <2>4, <2>5
<1>11. LeasesCovered'
  BY <1>10 DEF LeasesCovered
<1> QED BY <1>8, <1>9, <1>11 DEF IInv

\* RELEASE and DECLINE free only items of a client that holds and awaits nothing.
LEMMA ReleaseKeeps == ASSUME IInv, NEW m \in Macs, Release(m) PROVE IInv'
<1> USE PoolAssumption DEF IInv
<1>0. Nothing \in [ip : IPs \cup {NoIP}, left : 0 .. Lease] /\ Nothing.ip = NoIP
  BY DEF Nothing
<1>1. /\ held' = [held EXCEPT ![m] = Nothing]
      /\ reply' = [reply EXCEPT ![m] = Nothing]
      /\ UNCHANGED failover
      /\ ReleaseIP(m) \/ UNCHANGED <<mac, left>>
  BY Zenon DEF Release
<1>2. \A a \in IPs : \/ mac'[a] = mac[a] /\ left'[a] = left[a]
                     \/ mac[a] = m /\ left[a] # 0 /\ mac'[a] = Nobody /\ left'[a] = 0
  BY <1>1 DEF ReleaseIP, Own
<1>3. mac' \in [IPs -> Macs \cup {Nobody}] /\ left' \in [IPs -> 0 .. Lease + 1]
  BY <1>1 DEF ReleaseIP, Own, TypeOK
<1>4. TypeOK'
  BY <1>0, <1>1, <1>3 DEF TypeOK
<1>5. StaticStays' /\ ZeroExpire'
  BY <1>2 DEF StaticStays, ZeroExpire, TypeOK
<1>6. ASSUME NEW n \in Macs PROVE Covered(held[n], n)' /\ Covered(reply[n], n)'
  <2>1. CASE n = m
    BY <1>0, <1>1, <2>1 DEF Covered, TypeOK
  <2>2. CASE n # m
    <3>1. held'[n] = held[n] /\ reply'[n] = reply[n]
      BY <1>1, <2>2 DEF TypeOK
    <3> QED BY <1>2, <2>2, <3>1, SMTT(30) DEF LeasesCovered, Covered
  <2> QED BY <2>1, <2>2
<1> QED BY <1>4, <1>5, <1>6 DEF LeasesCovered

\* A tick ages the item and the lease alike, so the item still outlasts it.
LEMMA TickKeeps == ASSUME IInv, Tick PROVE IInv'
<1> USE PoolAssumption DEF IInv
<1>1. /\ mac' = [a \in IPs |-> IF left[a] = 1 THEN Nobody ELSE mac[a]]
      /\ left' = [a \in IPs |-> IF left[a] > 0 THEN left[a] - 1 ELSE 0]
      /\ reply' = [m \in Macs |-> Aged(reply[m])]
      /\ held' = [m \in Macs |-> Aged(held[m])]
      /\ UNCHANGED failover
  BY DEF Tick
<1>2. ASSUME NEW l \in [ip : IPs \cup {NoIP}, left : 0 .. Lease]
      PROVE  /\ Aged(l) \in [ip : IPs \cup {NoIP}, left : 0 .. Lease]
             /\ \/ Aged(l).ip = NoIP
                \/ Aged(l).ip = l.ip /\ Aged(l).left = l.left - 1 /\ l.left > 1
  BY DEF Aged, Nothing
<1>3. /\ reply' \in [Macs -> [ip : IPs \cup {NoIP}, left : 0 .. Lease]]
      /\ held' \in [Macs -> [ip : IPs \cup {NoIP}, left : 0 .. Lease]]
  BY <1>1, <1>2 DEF TypeOK
<1>4. mac' \in [IPs -> Macs \cup {Nobody}] /\ left' \in [IPs -> 0 .. Lease + 1]
  BY <1>1 DEF TypeOK
<1>5. TypeOK'
  BY <1>1, <1>3, <1>4 DEF TypeOK
<1>6. StaticStays' /\ ZeroExpire'
  BY <1>1 DEF StaticStays, ZeroExpire, TypeOK
<1>7. ASSUME NEW l \in [ip : IPs \cup {NoIP}, left : 0 .. Lease], NEW m \in Macs, Covered(l, m),
             Aged(l).ip # NoIP
      PROVE  /\ Aged(l).ip \in IPs /\ mac'[Aged(l).ip] = m
             /\ left'[Aged(l).ip] = 0 \/ Aged(l).left < left'[Aged(l).ip]
  <2>1. Aged(l).ip = l.ip /\ Aged(l).left = l.left - 1 /\ l.left > 1 /\ l.left \in Nat
    BY <1>2, <1>7
  <2>2. l.ip \in IPs /\ mac[l.ip] = m /\ (left[l.ip] = 0 \/ l.left < left[l.ip])
    BY <1>7, <2>1 DEF Covered
  <2> QED BY <1>1, <2>1, <2>2 DEF TypeOK
<1>8. LeasesCovered'
  <2> SUFFICES ASSUME NEW m \in Macs PROVE Covered(held[m], m)' /\ Covered(reply[m], m)'
    BY DEF LeasesCovered
  <2>1. held'[m] = Aged(held[m]) /\ reply'[m] = Aged(reply[m])
    BY <1>1
  <2>2. /\ held[m] \in [ip : IPs \cup {NoIP}, left : 0 .. Lease] /\ Covered(held[m], m)
        /\ reply[m] \in [ip : IPs \cup {NoIP}, left : 0 .. Lease] /\ Covered(reply[m], m)
    BY DEF TypeOK, LeasesCovered
  <2>3. Covered(held[m], m)'
    BY <1>7, <2>1, <2>2 DEF Covered
  <2>4. Covered(reply[m], m)'
    BY <1>7, <2>1, <2>2 DEF Covered
  <2> QED BY <2>3, <2>4
<1> QED BY <1>5, <1>6, <1>8

\* Every step of the service and of its clients preserves the invariant.
LEMMA NextIInv == IInv /\ [Next]_vars => IInv'
<1> SUFFICES ASSUME IInv, [Next]_vars PROVE IInv'
  OBVIOUS
<1>1. ASSUME NEW m \in Macs, Receive(m) \/ Lose(m) PROVE IInv'
  <2>1. /\ UNCHANGED <<mac, left, failover>>
        /\ reply' = [reply EXCEPT ![m] = Nothing]
        /\ held' \in {held, [held EXCEPT ![m] = reply[m]]}
    BY <1>1 DEF Receive, Lose
  <2>2. Nothing \in [ip : IPs \cup {NoIP}, left : 0 .. Lease] /\ Nothing.ip = NoIP
    BY PoolAssumption DEF Nothing
  <2>3. TypeOK'
    BY <2>1, <2>2 DEF IInv, TypeOK
  <2>4. StaticStays' /\ ZeroExpire'
    BY <2>1 DEF IInv, StaticStays, ZeroExpire
  <2>5. LeasesCovered'
    BY <2>1, <2>2 DEF IInv, TypeOK, LeasesCovered, Covered
  <2> QED BY <2>3, <2>4, <2>5 DEF IInv
<1>2. CASE setFailover \/ UNCHANGED vars
  <2>1. UNCHANGED <<mac, left, reply, held>>
    BY <1>2 DEF setFailover, vars
  <2>2. failover' \in BOOLEAN
    BY <1>2, Zenon DEF setFailover, vars, IInv, TypeOK
  <2>3. TypeOK'
    BY <2>1, <2>2 DEF IInv, TypeOK
  <2>4. StaticStays' /\ ZeroExpire' /\ LeasesCovered'
    BY <2>1 DEF IInv, StaticStays, ZeroExpire, LeasesCovered, Covered
  <2> QED BY <2>3, <2>4 DEF IInv
<1> QED BY <1>1, <1>2, TickKeeps, DiscoverKeeps, RequestKeeps, ReleaseKeeps DEF Next

-----------------------------------------------------------------------------

\* Granting an item leaves the client with that one alone.
LEMMA GrantOne ==
  ASSUME TypeOK, OneAddressEach, NEW m \in Macs, NEW ip, NEW a \in LeaseIP(m, ip), Grant(m, a)
  PROVE  OneAddressEach'
<1>1. a \in IPs /\ (mac[a] = m \/ \A b \in IPs : mac[b] # m)
  BY LeaseFacts
<1>2. \A b \in IPs : mac'[b] = IF b = a THEN m ELSE mac[b]
  BY <1>1 DEF Grant, TypeOK
<1>3. CASE mac[a] = m
  BY <1>2, <1>3 DEF OneAddressEach
<1>4. CASE \A b \in IPs : mac[b] # m
  BY <1>2, <1>4 DEF OneAddressEach
<1> QED BY <1>1, <1>3, <1>4

\* The other steps take items from their clients or leave them.
LEMMA FreeOne ==
  ASSUME OneAddressEach, \A a \in IPs : mac'[a] \in {mac[a], Nobody}
  PROVE  OneAddressEach'
  BY DEF OneAddressEach

\* Every step preserves one address for each client.
LEMMA NextOne == TypeOK /\ OneAddressEach /\ [Next]_vars => OneAddressEach'
<1> SUFFICES ASSUME TypeOK, OneAddressEach, [Next]_vars PROVE OneAddressEach'
  OBVIOUS
<1>1. ASSUME NEW m \in Macs, Discover(m) PROVE OneAddressEach'
  BY <1>1, GrantOne DEF Discover
<1>2. ASSUME NEW m \in Macs, NEW ip \in IPs, Request(m, ip) PROVE OneAddressEach'
  BY <1>2, GrantOne DEF Request
<1>3. ASSUME NEW m \in Macs, Release(m) PROVE OneAddressEach'
  <2>1. \A a \in IPs : mac'[a] \in {mac[a], Nobody}
    BY <1>3 DEF Release, ReleaseIP
  <2> QED BY <2>1, FreeOne
<1>4. CASE Tick
  <2>1. \A a \in IPs : mac'[a] \in {mac[a], Nobody}
    BY <1>4 DEF Tick
  <2> QED BY <2>1, FreeOne
<1>5. ASSUME UNCHANGED mac PROVE OneAddressEach'
  BY <1>5, FreeOne
<1> QED BY <1>1, <1>2, <1>3, <1>4, <1>5 DEF Next, setFailover, Receive, Lose, vars

-----------------------------------------------------------------------------

\* The DHCP service never lets two clients use one address, for any pool, lease
\* time and reservations, whatever acks are late or lost.
THEOREM AddressesAreExclusive == Spec => []NoSharedAddress
<1>1. IInv => NoSharedAddress
  BY DEF IInv, LeasesCovered, Covered, NoSharedAddress
<1> QED BY <1>1, InitIInv, NextIInv, PTL DEF Spec

\* A reservation made by LeaseStaticIP is never released, expired or leased to
\* another client.
THEOREM ReservationsStay == Spec => []StaticStays
<1>1. IInv => StaticStays
  BY DEF IInv
<1> QED BY <1>1, InitIInv, NextIInv, PTL DEF Spec

\* However often a client asks, and whichever address it asks for, LeaseIP leaves
\* it with one address outside its reservations, and with none if it has one.
THEOREM NobodyDrainsThePool == Spec => []OneAddressEach
<1>1. Init => OneAddressEach
  BY DEF Init, OneAddressEach
<1>2. IInv => TypeOK
  BY DEF IInv
<1> QED BY <1>1, <1>2, InitIInv, NextIInv, NextOne, PTL DEF Spec

-----------------------------------------------------------------------------
\* The UDP sessions.  TableIsOpen is inductive only together with DialInStep: a
\* dial that fails must belong to a session that is still in the table, or its
\* nm.Delete could remove a later session of the same source.

\* serveSession dials exactly while its session has no copier yet.
DialInStep == \A s \in Sessions : loop[s] = "dialing" <=> copier[s] = "dialing"

NatInv == NatTypeOK /\ TableIsOpen /\ DialInStep

\* The empty table and the idle listener satisfy the invariant.
LEMMA NatInitInv == NatInit => NatInv
<1> SUFFICES ASSUME NatInit PROVE NatInv
  OBVIOUS
<1>1. AnySrc \in Srcs /\ AnySession \in Sessions
  BY NatAssumption DEF AnySrc, AnySession
<1>2. NatTypeOK
  BY <1>1, NatAssumption DEF NatInit, NatTypeOK
<1>3. TableIsOpen /\ DialInStep
  BY NatAssumption DEF NatInit, TableIsOpen, DialInStep
<1> QED BY <1>2, <1>3 DEF NatInv

\* Every step of the listener and of the sessions' goroutines preserves the
\* invariant.
LEMMA NatNextInv == NatInv /\ [NatNext]_natVars => NatInv'
<1> SUFFICES ASSUME NatInv, [NatNext]_natVars PROVE NatInv'
  OBVIOUS
<1> USE NatAssumption DEF NatInv, NatTypeOK, TableIsOpen, DialInStep
<1>1. ASSUME NEW a \in Srcs, ReceiveKnown(a) PROVE NatInv'
  BY <1>1 DEF ReceiveKnown
<1>2. ASSUME NEW a \in Srcs, NEW s \in Sessions, ReceiveNew(a, s) PROVE NatInv'
  <2>1. NatTypeOK' /\ DialInStep'
    BY <1>2 DEF ReceiveNew
  <2>2. TableIsOpen'
    <3> SUFFICES ASSUME NEW t \in Sessions, NEW b \in Srcs
                 PROVE nm'[b] = t <=> key'[t] = b /\ copier'[t] \in {"dialing", "copying"}
      OBVIOUS
    <3>1. nm[b] # s /\ nm[a] # t
      BY <1>2 DEF ReceiveNew
    <3>2. CASE t = s
      BY <1>2, <3>1, <3>2 DEF ReceiveNew
    <3>3. CASE t # s
      BY <1>2, <3>1, <3>3 DEF ReceiveNew
    <3> QED BY <3>2, <3>3
  <2> QED BY <2>1, <2>2
<1>3. CASE Send
  BY <1>3 DEF Send
<1>4. ASSUME NEW s \in Sessions, DialOK(s) PROVE NatInv'
  BY <1>4 DEF DialOK
<1>5. ASSUME NEW s \in Sessions, DialFails(s) PROVE NatInv'
  <2>1. NatTypeOK' /\ DialInStep'
    BY <1>5 DEF DialFails
  <2>2. TableIsOpen'
    \* The entry that nm.Delete removes is the session's own.
    <3>1. nm[key[s]] = s
      BY <1>5 DEF DialFails
    <3> QED BY <1>5, <3>1 DEF DialFails
  <2> QED BY <2>1, <2>2
<1>6. ASSUME NEW s \in Sessions, Forward(s) PROVE NatInv'
  BY <1>6 DEF Forward
<1>7. ASSUME NEW s \in Sessions, LoopEnds(s) \/ Written(s) PROVE NatInv'
  BY <1>7 DEF LoopEnds, Written
<1>8. ASSUME NEW s \in Sessions, CopyUDPEnds(s) PROVE NatInv'
  <2>1. NatTypeOK' /\ DialInStep'
    BY <1>8 DEF CopyUDPEnds
  <2>2. TableIsOpen'
    <3>1. nm[key[s]] = s
      BY <1>8 DEF CopyUDPEnds
    <3> QED BY <1>8, <3>1 DEF CopyUDPEnds
  <2> QED BY <2>1, <2>2
<1>9. ASSUME NEW s \in Sessions, CloseFin(s) PROVE NatInv'
  BY <1>9 DEF CloseFin
<1>10. ASSUME NEW s \in Sessions, Collect(s) PROVE NatInv'
  BY <1>10 DEF Collect
<1>11. CASE UNCHANGED natVars
  BY <1>11 DEF natVars
<1> QED
  BY <1>1, <1>2, <1>3, <1>4, <1>5, <1>6, <1>7, <1>8, <1>9, <1>10, <1>11, Zenon
  DEF NatNext, NatReceive, Dialed, LoopStep

\* The UDP servers' session table holds a session exactly while it dials or
\* copies, so a source never has two and nm.Delete never removes a newer one.
THEOREM TableCorrect == NatSpec => []TableIsOpen
<1>1. NatInv => TableIsOpen
  BY DEF NatInv
<1> QED BY <1>1, NatInitInv, NatNextInv, PTL DEF NatSpec

\* The variables of the listener and the sessions keep their types; in particular
\* a channel never holds more than its capacity.
THEOREM SessionTypes == NatSpec => []NatTypeOK
<1>1. NatInv => NatTypeOK
  BY DEF NatInv
<1> QED BY <1>1, NatInitInv, NatNextInv, PTL DEF NatSpec
=============================================================================
