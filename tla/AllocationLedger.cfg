SPECIFICATION LedgerSpec
CONSTANTS
  None = None
  A = A
  B = B
  C = C
  east = east
  west = west
  Sessions = {s1, s2}
  Reservations = {r1, r2}
  Keys = {k1, k2}
  Backends = {"sqlite", "postgresql"}
  Domains = {east, west}
  NetworkPools = {"net"}
  ScalarPools = {"vlan", "l2"}
  Designs = {A, B, C}
  DomainOf <- TheDomains
  ItemsOf <- TheItems
  Excluded <- ThePolicy
SYMMETRY Symmetry
CHECK_DEADLOCK FALSE
INVARIANTS
  LedgerTypeOK
  NoOverlap
  OneActivePerKey
PROPERTY ImplementsReservations
