SPECIFICATION Spec
CONSTANTS
  r1 = r1
  r2 = r2
  ip1 = ip1
  ip2 = ip2
  ip3 = ip3
  NoAddr = NoAddr
  Resolvers = {r1, r2}
  Rules <- FlatChanged
  FwdrHosts <- NoHosts
  Domains <- Names
  Addrs <- Answers
SYMMETRY ResolverSymmetry
INVARIANTS ToldIsRouted NoForeignGroup
