----------------------------- MODULE RuleProofs -----------------------------
(***************************************************************************)
(* The rules of the proxy and their reload.                                *)
(*                                                                         *)
(* RuleRouting: NoForeignGroup and ToldIsRouted for every set of rule      *)
(* files, names, addresses, resolvers and reloads.  A resolver writes      *)
(* groups of the generation it has loaded into the table of that           *)
(* generation; and what it has stored for an address is never replaced by  *)
(* another group, if the rules do not contradict each other (Separate).    *)
(*                                                                         *)
(* ProxyReload, for any number of generations and forwarders: what Dial    *)
(* loads is warm, and superseded checkers have been told to stop.  Both    *)
(* need WarmingIsBuilding: warm checks only run in the state that the      *)
(* signal goroutine is building, and that one is not published.            *)
(***************************************************************************)
EXTENDS RuleRouting, ProxyReload, WellFoundedInduction, TLAPS

\* What Store needs: a resolver inside AddDomainIP works for one generation, with
\* an address some name resolves to, and the tables are functions on both.
Working ==
  /\ state \in Gens
  /\ dom \in [Resolvers -> Domains]
  /\ ip \in [Resolvers -> IPs]
  /\ gen \in [Resolvers -> Gens]
  /\ pos \in [Resolvers -> Nat]
  /\ pc \in [Resolvers -> {"idle", "exchange", "load", "store"}]
  /\ DOMAIN ipMap = Gens
  /\ \A g \in Gens : DOMAIN ipMap[g] = IPs

IInv == Working /\ NoForeignGroup

-----------------------------------------------------------------------------

\* buildState gives every generation at least one number: Gens starts at 1.
LEMMA GenFacts == /\ MaxGen \in Nat
                  /\ Gens \subseteq Nat
                  /\ 1 \in Gens
  BY RoutingAssumption DEF Gens

\* A group found in the rules of a generation belongs to that generation (the
\* loops of buildState over the rule files).
LEMMA OwnGroup ==
  ASSUME NEW g \in Gens, NEW hits
  PROVE  LastRule(g, hits) = Nobody \/ LastRule(g, hits)[1] = g
  BY DEF LastRule

\* So does an entry of domainMap, that of a forwarder's own host included.
LEMMA OwnDomain ==
  ASSUME NEW g \in Gens, NEW d
  PROVE  domainMap(g, d) = Nobody \/ domainMap(g, d)[1] = g
<1>1. CASE d \in FwdrHosts[g]
  BY <1>1 DEF domainMap
<1>2. CASE d \notin FwdrHosts[g]
  BY <1>2, OwnGroup DEF domainMap
<1>3. QED BY <1>1, <1>2

-----------------------------------------------------------------------------

\* NewProxy's tables satisfy the invariant.
LEMMA InitIInv == Init => IInv
<1> SUFFICES ASSUME Init PROVE IInv
  OBVIOUS
<1>1. Working
  BY GenFacts, RoutingAssumption, Zenon DEF Init, Working, builtIPs
<1>2. ASSUME NEW g \in Gens, NEW a \in IPs
      PROVE  ipMap[g][a] = Nobody \/ ipMap[g][a][1] = g
  BY OwnGroup, Zenon DEF Init, builtIPs
<1>3. QED BY <1>1, <1>2 DEF IInv, NoForeignGroup

\* AddDomainIP's store, under whatever generation is published by then.
LEMMA StoreIInv ==
  ASSUME IInv, NEW r \in Resolvers, Store(r)
  PROVE  IInv'
<1> DEFINE group == domainMap(gen[r], Suffix(dom[r], pos[r]))
<1>1. gen[r] \in Gens /\ ip[r] \in IPs
  BY DEF IInv, Working
<1>2. group = Nobody \/ group[1] = gen[r]
  BY <1>1, OwnDomain
<1>3. CASE group = Nobody
  <2>1. ipMap' = ipMap
    BY <1>3 DEF Store
  <2>2. QED BY <2>1 DEF IInv, Working, NoForeignGroup, Store
<1>4. CASE group # Nobody
  <2>1. ipMap' = [ipMap EXCEPT ![gen[r]][ip[r]] = group]
    BY <1>4 DEF Store
  <2>2. Working'
    BY <2>1 DEF IInv, Working, Store
  <2>3. ASSUME NEW g \in Gens, NEW a \in IPs
        PROVE  ipMap'[g][a] = IF g = gen[r] /\ a = ip[r] THEN group ELSE ipMap[g][a]
    BY <2>1 DEF IInv, Working
  <2>4. NoForeignGroup'
    BY <1>2, <2>3 DEF IInv, NoForeignGroup
  <2>5. QED BY <2>2, <2>4 DEF IInv
<1>5. QED BY <1>3, <1>4

\* Every step preserves it.
LEMMA StepIInv == IInv /\ [Next]_vars => IInv'
<1> SUFFICES ASSUME IInv, [Next]_vars PROVE IInv'
  OBVIOUS
<1>1. CASE UNCHANGED vars
  BY <1>1 DEF IInv, Working, NoForeignGroup, vars
<1>2. CASE Reload
  <2>1. state' \in Gens
    BY <1>2, GenFacts DEF Reload, IInv, Working, Gens
  <2>2. QED BY <1>2, <2>1 DEF Reload, IInv, Working, NoForeignGroup
<1>3. ASSUME NEW d \in Domains, Expire(d) PROVE IInv'
  BY <1>3 DEF Expire, IInv, Working, NoForeignGroup
<1>4. ASSUME NEW r \in Resolvers, NEW d \in Domains, Request(r, d) PROVE IInv'
  BY <1>4 DEF Request, Goto, IInv, Working, NoForeignGroup
<1>5. ASSUME NEW r \in Resolvers, Upstream(r) PROVE IInv'
  <2>1. dom[r] \in Domains
    BY DEF IInv, Working
  <2>2. ip' \in [Resolvers -> IPs]
    BY <1>5, <2>1 DEF Upstream, IInv, Working, IPs
  <2>3. QED BY <1>5, <2>2 DEF Upstream, Goto, IInv, Working, NoForeignGroup
<1>6. ASSUME NEW r \in Resolvers, Load(r) PROVE IInv'
  BY <1>6, RoutingAssumption DEF Load, Goto, IInv, Working, NoForeignGroup
<1>7. ASSUME NEW r \in Resolvers, Store(r) PROVE IInv'
  BY <1>7, StoreIInv
<1>8. ASSUME NEW r \in Resolvers, Answer(r) PROVE IInv'
  BY <1>8 DEF Answer, Goto, IInv, Working, NoForeignGroup
<1>9. QED BY <1>1, <1>2, <1>3, <1>4, <1>5, <1>6, <1>7, <1>8 DEF Next

\* The groups of one generation never get into the tables of another, however
\* many reloads overtake an AddDomainIP that is under way.
THEOREM TablesAreOwn == Spec => []NoForeignGroup
<1>1. IInv => NoForeignGroup
  BY DEF IInv
<1>2. QED BY <1>1, InitIInv, StepIInv, PTL DEF Spec

-----------------------------------------------------------------------------
\* Told is routed.

\* The rules that apply to names of one address name one group: a name has one
\* rule, and names that share an address share their rule.  RuleRoutingNested.cfg
\* shows that it is needed.
Separate ==
  \A g \in Gens : \A d, e \in Domains :
    (\E a \in IPs : a \in Addrs[d] /\ a \in Addrs[e]) =>
      \A i \in Matches(g, d), j \in Matches(g, e) :
        domainMap(g, Suffix(d, i)) = domainMap(g, Suffix(e, j))

\* AddDomainIP for d and a in generation g has passed the labels after p.
Learned(g, d, a, p) ==
  \A i \in Matches(g, d) : i > p => ipMap[g][a] = domainMap(g, Suffix(d, i))

\* What a resolver has stored so far, and what has been told, is in the tables.
RoutedInv ==
  /\ \A r \in Resolvers : pc[r] \in {"load", "store"} => ip[r] \in Addrs[dom[r]]
  /\ \A r \in Resolvers : pc[r] = "store" =>
       pos[r] \in 0 .. Len(dom[r]) /\ Learned(gen[r], dom[r], ip[r], pos[r])
  /\ \A t \in told :
       /\ t[1] \in Domains /\ t[2] \in IPs /\ t[3] \in Gens
       /\ t[2] \in Addrs[t[1]]
       /\ Learned(t[3], t[1], t[2], 0)

\* A set of labels of a name that is not empty has a last one: the CHOOSE of
\* findDialer is defined.
LEMMA LastLabel ==
  ASSUME NEW n \in Nat, NEW H \in SUBSET (1 .. n), H # {}
  PROVE  \E i \in H : \A j \in H : j <= i
<1> DEFINE T == {k \in Nat : n - k \in H}
           R == OpToRel(<, Nat)
<1>1. T \subseteq Nat /\ T # {}
  <2>1. PICK i \in H : TRUE
    BY Zenon
  <2>2. n - i \in Nat /\ n - (n - i) = i
    OBVIOUS
  <2>3. QED BY <2>1, <2>2, Zenon
<1>2. \A x, y \in Nat : x < y => <<x, y>> \in R
  BY Zenon DEF OpToRel
<1>3. IsWellFoundedOn(R, Nat)
  BY NatLessThanWellFounded, Zenon
<1>4. PICK x \in T : \A y \in T : <<y, x>> \notin R
  <2> HIDE DEF R, T
  <2>1. QED BY <1>1, <1>3, WFMin, Zenon
<1>5. \A y \in T : x <= y
  <2> HIDE DEF R
  <2> SUFFICES ASSUME NEW y \in T PROVE ~(y < x)
    BY <1>1
  <2>1. QED BY <1>1, <1>2, <1>4, Zenon
<1>6. ASSUME NEW j \in H PROVE j <= n - x
  <2>1. n - j \in T
    <3>1. n - j \in Nat /\ n - (n - j) = j
      OBVIOUS
    <3>2. QED BY <3>1
  <2>2. x <= n - j
    BY <1>5, <2>1
  <2>3. QED BY <2>2
<1>7. QED BY <1>6

\* Names are finite sequences of labels.
LEMMA LabelFacts ==
  ASSUME NEW g, NEW d \in Domains
  PROVE  Len(d) \in Nat /\ Matches(g, d) \subseteq 1 .. Len(d)
  BY RoutingAssumption DEF Matches

\* The group findDialer returns for a name with a rule is that of one of them.
LEMMA DialerOfRule ==
  ASSUME NEW g, NEW d \in Domains, Matches(g, d) # {}
  PROVE  \E i \in Matches(g, d) : findDialer(g, d) = domainMap(g, Suffix(d, i))
<1>1. \E i \in Matches(g, d) : \A j \in Matches(g, d) : j <= i
  BY LabelFacts, LastLabel, Zenon
<1>2. QED BY <1>1, Zenon DEF findDialer

\* AddDomainIP's store leaves what was learned, by whomever, in its place.
LEMMA StoreKeeps ==
  ASSUME Separate, IInv, NEW r \in Resolvers, Store(r), ip[r] \in Addrs[dom[r]],
         pos[r] \in 0 .. Len(dom[r]),
         NEW g \in Gens, NEW d \in Domains, NEW a \in IPs, a \in Addrs[d],
         NEW p \in Nat, Learned(g, d, a, p)
  PROVE  \A i \in Matches(g, d) : i > p => ipMap'[g][a] = domainMap(g, Suffix(d, i))
<1> DEFINE group == domainMap(gen[r], Suffix(dom[r], pos[r]))
<1>1. /\ gen[r] \in Gens /\ ip[r] \in IPs /\ dom[r] \in Domains
      /\ DOMAIN ipMap = Gens /\ DOMAIN ipMap[gen[r]] = IPs
  BY DEF IInv, Working
<1> SUFFICES ASSUME NEW i \in Matches(g, d), i > p
             PROVE  ipMap'[g][a] = domainMap(g, Suffix(d, i))
  OBVIOUS
<1>2. ipMap[g][a] = domainMap(g, Suffix(d, i))
  BY DEF Learned
<1>3. CASE group = Nobody \/ g # gen[r] \/ a # ip[r]
  <2>1. ipMap'[g][a] = ipMap[g][a]
    BY <1>1, <1>3 DEF Store, IInv, Working
  <2>2. QED BY <1>2, <2>1
<1>4. CASE group # Nobody /\ g = gen[r] /\ a = ip[r]
  <2>1. ipMap'[g][a] = group
    BY <1>1, <1>4 DEF Store
  <2>2. pos[r] \in Matches(gen[r], dom[r])
    BY <1>1, <1>4, LabelFacts DEF Matches, Store
  <2>3. QED BY <1>1, <1>4, <2>1, <2>2 DEF Separate
<1>5. QED BY <1>3, <1>4

\* The resolver that stores has learned what it passes.
LEMMA StoreLearns ==
  ASSUME Separate, IInv, RoutedInv, NEW r \in Resolvers, Store(r)
  PROVE  /\ pos'[r] \in 0 .. Len(dom[r])
         /\ Learned(gen[r], dom[r], ip[r], pos[r])'
<1>1. /\ gen[r] \in Gens /\ ip[r] \in IPs /\ dom[r] \in Domains
      /\ DOMAIN ipMap = Gens /\ DOMAIN ipMap[gen[r]] = IPs
      /\ pos[r] \in Nat /\ pos'[r] = pos[r] - 1
      /\ gen' = gen /\ ip' = ip /\ dom' = dom
  BY DEF IInv, Working, Store
<1>2. /\ pos[r] \in 0 .. Len(dom[r]) /\ pos[r] > 0 /\ ip[r] \in Addrs[dom[r]]
      /\ Learned(gen[r], dom[r], ip[r], pos[r])
  BY DEF RoutedInv, Store
<1>3. pos'[r] \in 0 .. Len(dom[r])
  BY <1>1, <1>2, LabelFacts
<1>4. ASSUME NEW i \in Matches(gen[r], dom[r]), i > pos[r]
      PROVE  ipMap'[gen[r]][ip[r]] = domainMap(gen[r], Suffix(dom[r], i))
  <2> DEFINE G == gen[r]
             D == dom[r]
             A == ip[r]
             P == pos[r]
  <2>1. G \in Gens /\ D \in Domains /\ A \in IPs /\ P \in Nat /\ A \in Addrs[D]
        /\ Learned(G, D, A, P)
    BY <1>1, <1>2
  <2>2. \A j \in Matches(G, D) : j > P => ipMap'[G][A] = domainMap(G, Suffix(D, j))
    <3> HIDE DEF G, D, A, P
    <3>1. ip[r] \in Addrs[dom[r]] /\ pos[r] \in 0 .. Len(dom[r])
      BY <1>2
    <3>2. QED BY <2>1, <3>1, StoreKeeps
  <2>3. QED BY <1>4, <2>1, <2>2
<1>5. ASSUME pos[r] \in Matches(gen[r], dom[r])
      PROVE  ipMap'[gen[r]][ip[r]] = domainMap(gen[r], Suffix(dom[r], pos[r]))
  BY <1>1, <1>5 DEF Store, Matches
<1>6. ASSUME NEW i \in Matches(gen[r], dom[r]), i > pos[r] - 1
      PROVE  ipMap'[gen[r]][ip[r]] = domainMap(gen[r], Suffix(dom[r], i))
  <2>1. i \in Nat
    BY <1>1, LabelFacts
  <2>2. i = pos[r] \/ i > pos[r]
    BY <1>1, <1>6, <2>1
  <2>3. QED BY <1>4, <1>5, <1>6, <2>2
<1>7. QED BY <1>1, <1>3, <1>6 DEF Learned

\* The steps that leave the tables alone.
LEMMA RoutedInvKept ==
  ASSUME RoutedInv, UNCHANGED <<ipMap, told>>,
         \A r \in Resolvers : pc'[r] \in {"load", "store"} =>
           pc'[r] = pc[r] /\ ip'[r] = ip[r] /\ dom'[r] = dom[r] /\ gen'[r] = gen[r]
           /\ pos'[r] = pos[r]
  PROVE  RoutedInv'
  BY SMTT(30) DEF RoutedInv, Learned

\* Every step preserves RoutedInv: Load begins with nothing learned, Store goes on,
\* and Answer tells what has been learned to the first label.
LEMMA StepRouted ==
  ASSUME Separate, IInv, RoutedInv, [Next]_vars
  PROVE  RoutedInv'
<1>1. CASE UNCHANGED vars
  BY <1>1, RoutedInvKept DEF vars
<1>2. CASE Reload
  BY <1>2, RoutedInvKept DEF Reload
<1>3. ASSUME NEW d \in Domains, Expire(d) PROVE RoutedInv'
  BY <1>3, RoutedInvKept DEF Expire
<1>4. ASSUME NEW r \in Resolvers, NEW d \in Domains, Request(r, d) PROVE RoutedInv'
  BY <1>4, RoutedInvKept DEF Request, Goto, IInv, Working
<1>5. ASSUME NEW r \in Resolvers, Upstream(r) PROVE RoutedInv'
  <2>1. UNCHANGED <<ipMap, told, dom, gen, pos>>
    BY <1>5 DEF Upstream
  <2>2. \A q \in Resolvers : q # r => pc'[q] = pc[q] /\ ip'[q] = ip[q]
    BY <1>5 DEF Upstream, Goto, IInv, Working
  <2>3. pc'[r] # "store" /\ (pc'[r] = "load" => ip'[r] \in Addrs[dom[r]])
    BY <1>5 DEF Upstream, Goto, IInv, Working
  <2>4. QED BY <2>1, <2>2, <2>3 DEF RoutedInv, Learned
<1>6. ASSUME NEW r \in Resolvers, Load(r) PROVE RoutedInv'
  <2>1. UNCHANGED <<ipMap, told, dom, ip>> /\ ip[r] \in Addrs[dom[r]]
    BY <1>6 DEF Load, RoutedInv
  <2>2. \A q \in Resolvers : q # r => pc'[q] = pc[q] /\ gen'[q] = gen[q] /\ pos'[q] = pos[q]
    BY <1>6 DEF Load, Goto, IInv, Working
  <2>3. pos'[r] = Len(dom[r]) /\ dom[r] \in Domains
    BY <1>6 DEF Load, IInv, Working
  <2>4. pos'[r] \in 0 .. Len(dom[r])
        /\ \A g : \A i \in Matches(g, dom[r]) : ~(i > pos'[r])
    BY <2>3, LabelFacts
  <2>5. QED BY <2>1, <2>2, <2>4 DEF RoutedInv, Learned
<1>7. ASSUME NEW r \in Resolvers, Store(r) PROVE RoutedInv'
  <2>1. UNCHANGED <<told, pc, dom, ip, gen>> /\ pc[r] = "store"
    BY <1>7 DEF Store
  <2>2. /\ pos[r] \in 0 .. Len(dom[r]) /\ ip[r] \in Addrs[dom[r]]
    BY <2>1 DEF RoutedInv
  <2>3. ASSUME NEW g \in Gens, NEW d \in Domains, NEW a \in IPs, NEW p \in Nat,
               a \in Addrs[d], Learned(g, d, a, p)
        PROVE  \A j \in Matches(g, d) : j > p => ipMap'[g][a] = domainMap(g, Suffix(d, j))
    BY <1>7, <2>2, <2>3, StoreKeeps
  <2>4. \A t \in told : Learned(t[3], t[1], t[2], 0)'
    BY <2>1, <2>3 DEF RoutedInv, Learned
  <2>5. ASSUME NEW q \in Resolvers, q # r, pc[q] = "store"
        PROVE  pos'[q] \in 0 .. Len(dom[q]) /\ Learned(gen[q], dom[q], ip[q], pos[q])'
    <3>1. pos'[q] = pos[q] /\ pos[q] \in Nat /\ gen[q] \in Gens /\ dom[q] \in Domains
          /\ ip[q] \in IPs
      BY <1>7, <2>5 DEF Store, IInv, Working
    <3>2. /\ pos[q] \in 0 .. Len(dom[q]) /\ ip[q] \in Addrs[dom[q]]
          /\ Learned(gen[q], dom[q], ip[q], pos[q])
      BY <2>5, Zenon DEF RoutedInv
    <3>3. \A j \in Matches(gen[q], dom[q]) :
            j > pos[q] => ipMap'[gen[q]][ip[q]] = domainMap(gen[q], Suffix(dom[q], j))
      BY <2>3, <3>1, <3>2, Zenon
    <3>4. QED BY <2>1, <3>1, <3>2, <3>3 DEF Learned
  <2>6. \A q \in Resolvers : pc[q] = "store" =>
          pos'[q] \in 0 .. Len(dom[q]) /\ Learned(gen[q], dom[q], ip[q], pos[q])'
    BY <1>7, <2>5, StoreLearns, Zenon
  <2>7. QED BY <2>1, <2>4, <2>6 DEF RoutedInv
<1>8. ASSUME NEW r \in Resolvers, Answer(r) PROVE RoutedInv'
  <2>1. /\ UNCHANGED <<ipMap, dom, ip, gen, pos>> /\ pc[r] = "store" /\ pos[r] = 0
        /\ told' = told \cup {<<dom[r], ip[r], gen[r]>>}
    BY <1>8, Zenon DEF Answer
  <2>2. /\ dom[r] \in Domains /\ ip[r] \in IPs /\ gen[r] \in Gens
        /\ ip[r] \in Addrs[dom[r]] /\ Learned(gen[r], dom[r], ip[r], 0)
    BY <2>1 DEF RoutedInv, IInv, Working
  <2>3. \A q \in Resolvers : pc'[q] \in {"load", "store"} => pc'[q] = pc[q]
    BY <1>8 DEF Answer, Goto, IInv, Working
  <2>4. \A q \in Resolvers : pc'[q] \in {"load", "store"} => ip'[q] \in Addrs[dom'[q]]
    BY <2>1, <2>3 DEF RoutedInv
  <2>5. \A q \in Resolvers : pc'[q] = "store" =>
          pos'[q] \in 0 .. Len(dom'[q]) /\ Learned(gen[q], dom[q], ip[q], pos[q])'
    <3> SUFFICES ASSUME NEW q \in Resolvers, pc'[q] = "store"
                 PROVE  pos'[q] \in 0 .. Len(dom'[q]) /\ Learned(gen[q], dom[q], ip[q], pos[q])'
      OBVIOUS
    <3>1. pos[q] \in 0 .. Len(dom[q]) /\ Learned(gen[q], dom[q], ip[q], pos[q])
      BY <2>3, Zenon DEF RoutedInv
    <3> QED BY <2>1, <3>1, Zenon DEF Learned
  <2>6. \A t \in told' : /\ t[1] \in Domains /\ t[2] \in IPs /\ t[3] \in Gens
                         /\ t[2] \in Addrs[t[1]] /\ Learned(t[3], t[1], t[2], 0)'
    <3> SUFFICES ASSUME NEW t \in told'
                 PROVE  /\ t[1] \in Domains /\ t[2] \in IPs /\ t[3] \in Gens
                        /\ t[2] \in Addrs[t[1]] /\ Learned(t[3], t[1], t[2], 0)'
      OBVIOUS
    <3>1. /\ t[1] \in Domains /\ t[2] \in IPs /\ t[3] \in Gens
          /\ t[2] \in Addrs[t[1]] /\ Learned(t[3], t[1], t[2], 0)
      <4>1. CASE t \in told
        BY <4>1, Zenon DEF RoutedInv
      <4>2. CASE t = <<dom[r], ip[r], gen[r]>>
        <5>1. t[1] = dom[r] /\ t[2] = ip[r] /\ t[3] = gen[r]
          BY <4>2
        <5> QED BY <2>2, <5>1, Zenon
      <4> QED BY <2>1, <4>1, <4>2
    <3> QED BY <2>1, <3>1, Zenon DEF Learned
  <2>7. QED BY <2>4, <2>5, <2>6, Zenon DEF RoutedInv
<1>9. QED BY <1>1, <1>2, <1>3, <1>4, <1>5, <1>6, <1>7, <1>8 DEF Next

\* From the invariant: an address that was told is found in the table, under the
\* group findDialer returns for the name.
LEMMA RoutedIsTold ==
  ASSUME Separate, IInv, RoutedInv
  PROVE  ToldIsRouted
<1> SUFFICES ASSUME NEW t \in told, t[3] = state, Matches(state, t[1]) # {}
             PROVE  findIPDialer(state, t[2]) = {findDialer(state, t[1])}
  BY DEF ToldIsRouted
<1>1. t[1] \in Domains /\ Learned(state, t[1], t[2], 0)
  BY DEF RoutedInv
<1>2. PICK i \in Matches(state, t[1]) : findDialer(state, t[1]) = domainMap(state, Suffix(t[1], i))
  BY <1>1, DialerOfRule
<1>3. i > 0
  BY <1>1, <1>2, LabelFacts
<1>4. ipMap[state][t[2]] = domainMap(state, Suffix(t[1], i))
  BY <1>1, <1>3 DEF Learned
<1>5. ipMap[state][t[2]] # Nobody
  BY <1>4 DEF Matches
<1>6. QED BY <1>2, <1>4, <1>5 DEF findIPDialer

\* If the rules for the names of an address agree, then whatever resolutions and
\* reloads overlap, an address is routed like its name before the answer that
\* holds it is returned or cached.
THEOREM RoutedBeforeTold == Separate => (Spec => []ToldIsRouted)
<1> SUFFICES ASSUME Separate PROVE Spec => []ToldIsRouted
  OBVIOUS
<1>1. Init => RoutedInv
  BY DEF Init, RoutedInv
<1>2. IInv /\ RoutedInv /\ [Next]_vars => RoutedInv'
  BY StepRouted
<1>3. IInv /\ RoutedInv => ToldIsRouted
  BY RoutedIsTold
<1>4. QED BY <1>1, <1>2, <1>3, InitIInv, StepIInv, PTL DEF Spec

-----------------------------------------------------------------------------
\* The reload.

WarmingIsBuilding ==
  /\ main = "warm" => building \in Generations /\ published # building
  /\ \A g \in Generations, f \in Fwdr :
       checker[g][f] \in Warming => main = "warm" /\ g = building

ReloadInv == ReloadTypeOK /\ WarmingIsBuilding /\ AtMostOneUnstopped

\* Nothing is built, published or checked when NewProxy begins.
LEMMA ReloadInitInv == ReloadInit => ReloadInv
<1> SUFFICES ASSUME ReloadInit PROVE ReloadInv
  OBVIOUS
<1>1. ReloadTypeOK
  <2>1. sigCh \in BOOLEAN
    BY Zenon DEF ReloadInit
  <2> QED BY <2>1, ReloadAssumption DEF ReloadInit, ReloadTypeOK, None
<1>2. WarmingIsBuilding
  BY DEF ReloadInit, WarmingIsBuilding, Warming
<1>3. AtMostOneUnstopped
  BY DEF ReloadInit, AtMostOneUnstopped, Live, Checking
<1> QED BY <1>1, <1>2, <1>3 DEF ReloadInv

\* Every step of the signal goroutine preserves the invariant.
LEMMA ReloadStepInv == ReloadInv /\ (Hangup \/ ReloadStep) => ReloadInv'
<1> SUFFICES ASSUME ReloadInv, Hangup \/ ReloadStep PROVE ReloadInv'
  OBVIOUS
<1> USE ReloadAssumption DEF ReloadInv, ReloadTypeOK, WarmingIsBuilding, AtMostOneUnstopped,
        Generations, None, Live, Warming, Checking
<1>1. CASE Hangup
  BY <1>1 DEF Hangup
<1>2. CASE Receive
  BY <1>2, Zenon DEF Receive
<1>3. CASE Build
  <2>1. ReloadTypeOK'
    BY <1>3 DEF Build
  <2>2. WarmingIsBuilding'
    BY <1>3 DEF Build
  <2>3. AtMostOneUnstopped'
    BY <1>3 DEF Build
  <2> QED BY <2>1, <2>2, <2>3
<1>4. CASE BuildFails
  BY <1>4 DEF BuildFails
<1>5. CASE Swap
  <2>1. ReloadTypeOK'
    BY <1>5 DEF Swap
  <2>2. WarmingIsBuilding'
    BY <1>5 DEF Swap
  <2>3. AtMostOneUnstopped'
    BY <1>5 DEF Swap
  <2> QED BY <2>1, <2>2, <2>3
<1>6. CASE Start
  <2>1. ReloadTypeOK'
    BY <1>6, Zenon DEF Start
  <2>2. WarmingIsBuilding'
    BY <1>6 DEF Start
  <2>3. AtMostOneUnstopped'
    BY <1>6 DEF Start
  <2> QED BY <2>1, <2>2, <2>3
<1>7. CASE StopOld
  <2>1. ReloadTypeOK'
    BY <1>7 DEF StopOld
  <2>2. WarmingIsBuilding'
    BY <1>7 DEF StopOld
  <2>3. AtMostOneUnstopped'
    BY <1>7 DEF StopOld
  <2> QED BY <2>1, <2>2, <2>3
<1> QED BY <1>1, <1>2, <1>3, <1>4, <1>5, <1>6, <1>7, Zenon DEF ReloadStep

\* Every step of a check preserves the invariant: a warm check never becomes a
\* later one, and only startCheckers starts those.
LEMMA CheckStepInv ==
  ASSUME NEW g \in Generations, NEW f \in Fwdr, ReloadInv, Check(g, f)
  PROVE  ReloadInv'
<1> USE ReloadAssumption DEF ReloadInv, ReloadTypeOK, WarmingIsBuilding, AtMostOneUnstopped,
        Live, Warming, Checking, Move
<1>1. CASE Advance(g, f)
  <2>1. ReloadTypeOK'
    BY <1>1 DEF Advance
  <2>2. WarmingIsBuilding'
    BY <1>1 DEF Advance
  <2>3. AtMostOneUnstopped'
    BY <1>1 DEF Advance
  <2> QED BY <2>1, <2>2, <2>3
<1>2. CASE CheckEnds(g, f)
  <2>1. ReloadTypeOK'
    BY <1>2 DEF CheckEnds
  <2>2. WarmingIsBuilding'
    BY <1>2 DEF CheckEnds
  <2>3. AtMostOneUnstopped'
    BY <1>2 DEF CheckEnds
  <2> QED BY <2>1, <2>2, <2>3
<1>3. CASE NextCheck(g, f)
  BY <1>3 DEF NextCheck
<1> QED BY <1>1, <1>2, <1>3, Zenon DEF Check

\* Every step of the program preserves the invariant.
LEMMA ReloadNextInv == ReloadInv /\ [ReloadNext]_reloadVars => ReloadInv'
<1> SUFFICES ASSUME ReloadInv, [ReloadNext]_reloadVars PROVE ReloadInv'
  OBVIOUS
<1>1. CASE UNCHANGED reloadVars
  <2>1. ReloadTypeOK'
    BY <1>1, Zenon DEF reloadVars, ReloadInv, ReloadTypeOK
  <2>2. WarmingIsBuilding' /\ AtMostOneUnstopped'
    BY <1>1 DEF reloadVars, ReloadInv, WarmingIsBuilding, AtMostOneUnstopped
  <2> QED BY <2>1, <2>2 DEF ReloadInv
<1> QED BY <1>1, ReloadStepInv, CheckStepInv DEF ReloadNext

\* Whatever reloads follow each other, a Dial never loads a state whose warm
\* check is still under way.
THEOREM PublishedStatesAreWarm == ReloadSpec => []PublishedIsWarm
<1>1. ReloadInv => PublishedIsWarm
  <2> SUFFICES ASSUME ReloadInv, published # None
               PROVE  \A f \in Fwdr : checker[published][f] \notin Warming
    BY DEF PublishedIsWarm
  <2>1. published \in Generations
    BY ReloadAssumption DEF ReloadInv, ReloadTypeOK, Generations, None
  <2> QED BY <2>1 DEF ReloadInv, WarmingIsBuilding
<1> QED BY <1>1, ReloadInitInv, ReloadNextInv, PTL DEF ReloadSpec

\* Reload stops what it replaces: only the published state and the one that was
\* swapped out a moment ago have checkers that were not told to stop.
THEOREM ReplacedStatesAreStopped == ReloadSpec => []AtMostOneUnstopped
<1>1. ReloadInv => AtMostOneUnstopped
  BY DEF ReloadInv
<1> QED BY <1>1, ReloadInitInv, ReloadNextInv, PTL DEF ReloadSpec

\* The reload's variables keep their types; stopCheckers never closes a channel
\* of a state that was not built.
THEOREM ReloadTypes == ReloadSpec => []ReloadTypeOK
<1>1. ReloadInv => ReloadTypeOK
  BY DEF ReloadInv
<1> QED BY <1>1, ReloadInitInv, ReloadNextInv, PTL DEF ReloadSpec
=============================================================================
