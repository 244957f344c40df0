SPECIFICATION RSpec
CONSTANTS
  b1 = b1
  b2 = b2
  e1 = e1
  f1 = f1
  red = red
  blue = blue
  pr = pr
  pb = pb
  ra = ra
  g1 = g1
  g2 = g2
  al = al
  am = am
  gr = gr
  gs = gs
  c1 = c1
  c2 = c2
  x1 = x1
  x2 = x2
  x3 = x3
  x4 = x4
  x5 = x5
  x6 = x6
  v1 = v1
  v2 = v2
  v3 = v3
  None = None
  Devices = {b1, b2, e1}
  FusionNodes = {f1}
  NodeOrder <- Order
  Roles <- RoleSets
  NetworkOf <- PoolNets
  Candidates <- Intents
  Accepted <- AcceptedCodes
  MaxPlans = 1
CHECK_DEADLOCK FALSE
INVARIANT CleanupNotOmitted
