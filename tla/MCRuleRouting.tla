--------------------------- MODULE MCRuleRouting ---------------------------
(* Instances of RuleRouting: rules on separate domains, on a domain and one  *)
(* of its subdomains, and on the parent domain of a forwarder's host.        *)
EXTENDS RuleRouting, TLC

CONSTANTS r1, r2, ip1, ip2, ip3

Com == <<"com">>

Example == <<"example", "com">>

Office == <<"office", "example", "com">>

Other == <<"other", "org">>

Rule(group, domains, ips, cidrs) ==
  [group |-> group, domains |-> domains, ips |-> ips, cidrs |-> cidrs]

\* The second address lies in a prefix of another rule.
FlatRules == << Rule("A", {Example}, {}, {}), Rule("B", {Other}, {}, {ip1, ip2}) >>

NestedRules == << Rule("A", {Example}, {}, {}), Rule("B", {Office}, {}, {}) >>

ChangedRules == << Rule("A", {Example, Other}, {ip3}, {ip2}) >>

FlatChanged == <<FlatRules, ChangedRules>>

Nested == <<NestedRules>>

NoHosts == <<{}, {}>>

ProxyHost == <<{<<"proxy", "example", "com">>}, {}>>

Names == {Office, Other}

Answers == (Office :> {ip1, ip2}) @@ (Other :> {ip3})

ResolverSymmetry == Permutations(Resolvers)
=============================================================================
