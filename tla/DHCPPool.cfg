SPECIFICATION FairSpec
CONSTANTS
  m1 = m1
  m2 = m2
  m3 = m3
  Nobody = Nobody
  Macs <- Clients
  Static <- FirstReserved
  Size = 3
  Lease = 2
INVARIANTS NoSharedAddress OneAddressEach
PROPERTIES AbandonedIsFreed
