----------------------------- MODULE RuleRouting -----------------------------
(***************************************************************************)
(* Which forwarder group a destination gets (rule/proxy.go: buildState,    *)
(* findDialer, AddDomainIP) and how the DNS server teaches it addresses    *)
(* (dns/client.go: Exchange, extractAnswer, handleAnswer).                 *)
(*                                                                         *)
(* A name that is resolved upstream has its addresses stored in the        *)
(* published state's ipMap before the answer is cached and returned, so    *)
(* that a connection to the address follows the name's rule.  Resolutions  *)
(* interleave with each other and with reloads, which publish a state with *)
(* an ipMap of its own; the answer cache outlives them.                    *)
(*                                                                         *)
(* A domain is its sequence of labels, a group is <<generation, name>>.    *)
(***************************************************************************)
EXTENDS Naturals, Sequences

CONSTANTS
  Rules,        \* per generation: the rule files, in order, as records with
                \* fields group, domains, ips and cidrs (sets of addresses)
  FwdrHosts,    \* per generation: domains that host the main forwarders
  Domains,      \* names that clients ask for
  Addrs,        \* the addresses each of them may resolve to
  Resolvers,    \* goroutines that serve DNS requests
  NoAddr        \* no cached answer

MaxGen == Len(Rules)

Gens == 1..MaxGen

IPs == UNION {Addrs[d] : d \in Domains}

ASSUME RoutingAssumption ==
  /\ MaxGen \in Nat \ {0}
  /\ Domains # {} /\ Domains \subseteq Seq(STRING)
  /\ IPs # {} /\ NoAddr \notin IPs

VARIABLES
  state,     \* Proxy.state: the published generation
  ipMap,     \* per generation: addresses with a rule
  cached,    \* dns.LruCache: the address cached for a name
  expired,   \* names whose cached answer has expired
  told,      \* history: the upstream answers that clients were given, as name,
             \* address and the generation it was learned in; a cached answer
             \* repeats one of them
  pc, dom, ip,   \* per resolver: where it is, the name, the upstream's answer
  gen, pos       \* AddDomainIP: the state it loaded, its place in the name

vars == <<state, ipMap, cached, expired, told, pc, dom, ip, gen, pos>>

-----------------------------------------------------------------------------
(* rule/proxy.go *)

Nobody == <<0, "none">>

\* The group of the last of the rules that hold a key: later rules overwrite
\* earlier ones.
LastRule(g, hits) ==
  IF hits = {} THEN Nobody
  ELSE <<g, Rules[g][CHOOSE k \in hits : \A j \in hits : j <= k].group>>

\* buildState's domainMap: the rules in order, then the forwarders' own hosts,
\* which are to be reached directly.
domainMap(g, d) ==
  IF d \in FwdrHosts[g] THEN <<g, "direct">>
  ELSE LastRule(g, {k \in DOMAIN Rules[g] : d \in Rules[g][k].domains})

\* buildState's ipMap, before anything is learned.
builtIPs(g) ==
  [a \in IPs |-> LastRule(g, {k \in DOMAIN Rules[g] : a \in Rules[g][k].ips})]

\* Any prefix that contains the address: the order of sync.Map.Range is open.
cidrGroups(g, a) ==
  {<<g, Rules[g][k].group>> : k \in {j \in DOMAIN Rules[g] : a \in Rules[g][j].cidrs}}

Suffix(d, i) == SubSeq(d, i, Len(d))

\* The labels from which a suffix of d has a rule.
Matches(g, d) == {i \in 1..Len(d) : domainMap(g, Suffix(d, i)) # Nobody}

\* findDialer for a name: the scan starts at the last label, so the shortest
\* suffix with a rule wins.
findDialer(g, d) ==
  LET hits == Matches(g, d)
  IN  IF hits = {} THEN <<g, "main">>
      ELSE domainMap(g, Suffix(d, CHOOSE i \in hits : \A j \in hits : j <= i))

\* findDialer for an address: the groups it may return.
findIPDialer(g, a) ==
  IF ipMap[g][a] # Nobody THEN {ipMap[g][a]}
  ELSE IF cidrGroups(g, a) # {} THEN cidrGroups(g, a)
  ELSE {<<g, "main">>}

\* Reload publishes the next generation.
Reload ==
  /\ state < MaxGen
  /\ state' = state + 1
  /\ UNCHANGED <<ipMap, cached, expired, told, pc, dom, ip, gen, pos>>

-----------------------------------------------------------------------------
(* dns/client.go *)

Goto(r, label) == pc' = [pc EXCEPT ![r] = label]

\* Exchange: a cached answer is returned at once; one that has expired is also
\* refreshed, by a goroutine that goes on in this resolver's name.
Request(r, d) ==
  /\ pc[r] = "idle"
  /\ dom' = [dom EXCEPT ![r] = d]
  /\ IF cached[d] # NoAddr
     THEN Goto(r, IF d \in expired THEN "exchange" ELSE "idle")
     ELSE Goto(r, "exchange")
  /\ UNCHANGED <<state, ipMap, cached, expired, told, ip, gen, pos>>

\* The upstream answers with one of the name's addresses, or not at all.
Upstream(r) ==
  /\ pc[r] = "exchange"
  /\ \/ /\ \E a \in Addrs[dom[r]] : ip' = [ip EXCEPT ![r] = a]
        /\ Goto(r, "load")
     \/ UNCHANGED ip /\ Goto(r, "idle")
  /\ UNCHANGED <<state, ipMap, cached, expired, told, dom, gen, pos>>

\* AddDomainIP, called by extractAnswer: load the published state once ...
Load(r) ==
  /\ pc[r] = "load"
  /\ gen' = [gen EXCEPT ![r] = state]
  /\ pos' = [pos EXCEPT ![r] = Len(dom[r])]
  /\ Goto(r, "store")
  /\ UNCHANGED <<state, ipMap, cached, expired, told, dom, ip>>

\* Mutant: the group comes from the loaded state, the map from the current one.
StoreInCurrent(r) ==
  /\ pc[r] = "store" /\ pos[r] > 0
  /\ LET group == domainMap(gen[r], Suffix(dom[r], pos[r]))
     IN  ipMap' = IF group = Nobody THEN ipMap
                  ELSE [ipMap EXCEPT ![state][ip[r]] = group]
  /\ pos' = [pos EXCEPT ![r] = @ - 1]
  /\ UNCHANGED <<state, cached, expired, told, pc, dom, ip, gen>>

\* ... then store the address for each suffix with a rule, shortest first.
Store(r) ==
  /\ pc[r] = "store" /\ pos[r] > 0
  /\ LET group == domainMap(gen[r], Suffix(dom[r], pos[r]))
     IN  ipMap' = IF group = Nobody THEN ipMap
                  ELSE [ipMap EXCEPT ![gen[r]][ip[r]] = group]
  /\ pos' = [pos EXCEPT ![r] = @ - 1]
  /\ UNCHANGED <<state, cached, expired, told, pc, dom, ip, gen>>

\* Mutant: the answer is cached and returned before its addresses are stored.
AnswerEarly(r) ==
  /\ pc[r] = "store" /\ pos[r] = Len(dom[r])
  /\ cached' = [cached EXCEPT ![dom[r]] = ip[r]]
  /\ expired' = expired \ {dom[r]}
  /\ told' = told \cup {<<dom[r], ip[r], gen[r]>>}
  /\ Goto(r, "idle")
  /\ UNCHANGED <<state, ipMap, dom, ip, gen, pos>>

\* handleAnswer caches the answer, and Exchange returns it.
Answer(r) ==
  /\ pc[r] = "store" /\ pos[r] = 0
  /\ cached' = [cached EXCEPT ![dom[r]] = ip[r]]
  /\ expired' = expired \ {dom[r]}
  /\ told' = told \cup {<<dom[r], ip[r], gen[r]>>}
  /\ Goto(r, "idle")
  /\ UNCHANGED <<state, ipMap, dom, ip, gen, pos>>

\* Time passes beyond the answer's ttl.
Expire(d) ==
  /\ cached[d] # NoAddr /\ d \notin expired
  /\ expired' = expired \cup {d}
  /\ UNCHANGED <<state, ipMap, cached, told, pc, dom, ip, gen, pos>>

-----------------------------------------------------------------------------

Init ==
  /\ state = 1
  /\ ipMap = [g \in Gens |-> builtIPs(g)]
  /\ cached = [d \in Domains |-> NoAddr]
  /\ expired = {}
  /\ told = {}
  /\ pc = [r \in Resolvers |-> "idle"]
  /\ dom = [r \in Resolvers |-> CHOOSE d \in Domains : TRUE]
  /\ ip = [r \in Resolvers |-> CHOOSE a \in IPs : TRUE]
  /\ gen = [r \in Resolvers |-> 1]
  /\ pos = [r \in Resolvers |-> 0]

Next ==
  \/ Reload
  \/ \E d \in Domains : Expire(d)
  \/ \E r \in Resolvers :
       \/ \E d \in Domains : Request(r, d)
       \/ Upstream(r) \/ Load(r) \/ Store(r) \/ Answer(r)

Spec == Init /\ [][Next]_vars

-----------------------------------------------------------------------------

\* By the time a client, or the cache, has an answer, the address in it is routed
\* as the name is in the state it was learned in: findDialer(address) and
\* findDialer(name) agree, for as long as that state is published.
ToldIsRouted ==
  \A a \in told :
    a[3] = state /\ Matches(state, a[1]) # {}
      => findIPDialer(state, a[2]) = {findDialer(state, a[1])}

\* The groups of one generation never leak into the tables of another, whatever
\* reload overtakes an AddDomainIP: a stopped group is never dialled by address.
NoForeignGroup ==
  \A g \in Gens, a \in IPs : ipMap[g][a] = Nobody \/ ipMap[g][a][1] = g

\* The comment in buildState: the hosts of the main forwarders are accessed
\* directly.
FwdrHostsDirect ==
  \A d \in FwdrHosts[state] : findDialer(state, d) = <<state, "direct">>
=============================================================================
