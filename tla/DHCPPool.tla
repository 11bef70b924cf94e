------------------------------ MODULE DHCPPool ------------------------------
(***************************************************************************)
(* The DHCP service (service/dhcpd): the address pool, the message handler *)
(* and failover, with clients that request, renew and release addresses,   *)
(* and replies that are delayed or lost.                                   *)
(*                                                                         *)
(* Addresses are the positions in Pool.items.  Time passes in ticks of the *)
(* pool's ticker: left[a] is what remains until item.expire has passed,    *)
(* and 0 stands for the zero time.  A client counts its lease from its     *)
(* request, so replies in flight age too.  One handler runs at a time: the *)
(* pool's mutex covers all the state it changes.                           *)
(***************************************************************************)
EXTENDS Naturals

CONSTANTS
  Macs,     \* clients
  Nobody,   \* a nil item.mac
  Size,     \* len(Pool.items)
  Static,   \* per address: the client it is reserved for, or Nobody
  Lease     \* Pool.lease, in ticks

IPs == 1 .. Size

NoIP == 0   \* the zero netip.Addr

ASSUME PoolAssumption ==
  /\ Size \in Nat \ {0} /\ Lease \in Nat \ {0}
  /\ Nobody \notin Macs
  /\ Static \in [IPs -> Macs \cup {Nobody}]

VARIABLES
  mac,        \* item.mac
  left,       \* item.expire
  failover,   \* dhcpd.failover: another server was discovered
  reply,      \* per client: the ack in flight to it, as address and lease left
  held        \* per client: the address it uses and its lease left

vars == <<mac, left, failover, reply, held>>

Nothing == [ip |-> NoIP, left |-> 0]

-----------------------------------------------------------------------------
(* pool.go *)

Own(m) == {a \in IPs : mac[a] = m}

Free == {a \in IPs : mac[a] = Nobody}

First(S) == CHOOSE a \in S : \A b \in S : a <= b

\* Mutant: a requested address is given out without a look at its item.
LeaseRequested(m, ip) ==
  IF Own(m) # {} THEN {First(Own(m))}
  ELSE IF ip \in IPs THEN {ip}
  ELSE Free

\* Mutant: the client's present address is not looked for.
LeaseAnother(m, ip) == IF ip \in Free THEN {ip} ELSE Free

\* What LeaseIP may return: the client's own address, else the requested one,
\* else any free one, as the scan for it starts at random.
LeaseIP(m, ip) ==
  IF Own(m) # {} THEN {First(Own(m))}
  ELSE IF ip \in Free THEN {ip}
  ELSE Free

\* What LeaseIP does to the item it returns: a static one keeps its zero expire.
Grant(m, a) ==
  /\ mac' = [mac EXCEPT ![a] = m]
  /\ left' = [left EXCEPT ![a] = IF mac[a] = m /\ @ = 0 THEN 0 ELSE Lease + 1]

\* Static addresses, those with a zero expire, stay.
ReleaseIP(m) ==
  LET dynamic == {a \in Own(m) : left[a] # 0}
  IN  /\ mac' = [a \in IPs |-> IF a \in dynamic THEN Nobody ELSE mac[a]]
      /\ left' = [a \in IPs |-> IF a \in dynamic THEN 0 ELSE left[a]]

\* One tick nearer to the end of a lease; at the end nothing is left of it.
Aged(l) == IF l.left > 1 THEN [l EXCEPT !.left = @ - 1] ELSE Nothing

\* Mutant: the ticker resets expire, but not mac.
TickKeepsMac ==
  /\ left' = [a \in IPs |-> IF left[a] > 0 THEN left[a] - 1 ELSE 0]
  /\ reply' = [m \in Macs |-> Aged(reply[m])]
  /\ held' = [m \in Macs |-> Aged(held[m])]
  /\ UNCHANGED <<mac, failover>>

\* The ticker of NewPool frees the items whose expire has passed.
Tick ==
  /\ mac' = [a \in IPs |-> IF left[a] = 1 THEN Nobody ELSE mac[a]]
  /\ left' = [a \in IPs |-> IF left[a] > 0 THEN left[a] - 1 ELSE 0]
  /\ reply' = [m \in Macs |-> Aged(reply[m])]
  /\ held' = [m \in Macs |-> Aged(held[m])]
  /\ UNCHANGED failover

-----------------------------------------------------------------------------
(* dhcpd.go: handleDHCP, by message type *)

\* DISCOVER and INFORM lease an address; the reply does not make a client use it.
Discover(m) ==
  /\ ~failover
  /\ \E a \in LeaseIP(m, NoIP) : Grant(m, a)
  /\ UNCHANGED <<failover, reply, held>>

\* REQUEST of the address ip is acknowledged if that is the one leased, and
\* refused otherwise; a client that is refused gives up its address.
Request(m, ip) ==
  /\ ~failover
  /\ \E a \in LeaseIP(m, ip) :
       /\ Grant(m, a)
       /\ IF a = ip
          THEN reply' = [reply EXCEPT ![m] = [ip |-> a, left |-> Lease]] /\ UNCHANGED held
          ELSE /\ reply' = [reply EXCEPT ![m] = Nothing]
               /\ held' \in {held, [held EXCEPT ![m] = Nothing]}
  /\ UNCHANGED failover

\* RELEASE and DECLINE: the client has given up its address and waits for no ack.
Release(m) ==
  /\ IF failover THEN UNCHANGED <<mac, left>> ELSE ReleaseIP(m)
  /\ held' = [held EXCEPT ![m] = Nothing]
  /\ reply' = [reply EXCEPT ![m] = Nothing]
  /\ UNCHANGED failover

\* An ack arrives, and its address replaces what the client used before ...
Receive(m) ==
  /\ reply[m] # Nothing
  /\ held' = [held EXCEPT ![m] = reply[m]]
  /\ reply' = [reply EXCEPT ![m] = Nothing]
  /\ UNCHANGED <<mac, left, failover>>

\* ... or is lost.
Lose(m) ==
  /\ reply[m] # Nothing
  /\ reply' = [reply EXCEPT ![m] = Nothing]
  /\ UNCHANGED <<mac, left, failover, held>>

\* Run: discovery sees another server appear or go.
setFailover ==
  /\ failover' = ~failover
  /\ UNCHANGED <<mac, left, reply, held>>

-----------------------------------------------------------------------------

\* New: LeaseStaticIP has run for the configured hosts.
Init ==
  /\ mac = Static
  /\ left = [a \in IPs |-> 0]
  /\ failover \in BOOLEAN
  /\ reply = [m \in Macs |-> Nothing]
  /\ held = [m \in Macs |-> Nothing]

Next ==
  \/ Tick \/ setFailover
  \/ \E m \in Macs : \/ Discover(m) \/ Release(m) \/ Receive(m) \/ Lose(m)
                     \/ \E ip \in IPs : Request(m, ip)

Spec == Init /\ [][Next]_vars

\* The ticker goes on.
FairSpec == Spec /\ WF_vars(Tick)

-----------------------------------------------------------------------------

\* The types of the items and of what clients hold and await.
TypeOK ==
  /\ mac \in [IPs -> Macs \cup {Nobody}]
  /\ left \in [IPs -> 0 .. Lease + 1]
  /\ failover \in BOOLEAN
  /\ reply \in [Macs -> [ip : IPs \cup {NoIP}, left : 0 .. Lease]]
  /\ held \in [Macs -> [ip : IPs \cup {NoIP}, left : 0 .. Lease]]

\* No two clients use the same address, whatever acks are late or lost and
\* whatever leases run out: LeaseIP never hands out an address in use.
NoSharedAddress ==
  \A m, n \in Macs : held[m].ip # NoIP /\ held[m].ip = held[n].ip => m = n

\* A reserved address belongs to its client for ever.
StaticStays == \A a \in IPs : Static[a] # Nobody => mac[a] = Static[a]

\* A client that has no reservation has one address at most, so it cannot drain
\* the pool by asking again.
OneAddressEach ==
  \A a, b \in IPs :
    mac[a] = mac[b] /\ Static[a] = Nobody /\ mac[a] # Nobody => a = b

\* An address that its client stops asking for comes back to the pool.
AbandonedIsFreed ==
  \A a \in IPs :
    Static[a] = Nobody => []<>(mac[a] = Nobody) \/ []<>(left[a] = Lease + 1)
=============================================================================
