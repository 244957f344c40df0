SPECIFICATION WSpec
CONSTANTS
  i1 = i1
  f1 = f1
  d1 = d1
  d2 = d2
  a1 = a1
  None = None
  IntentOf <- OneIntent
  FabricOf <- OneFabric
  DeviceOrder <- TwoDevices
  Phases <- TwoPhases
  BlockCount <- Blocks
  Gates <- PolicyGate
  Intents = {i1}
  Plans = {p1}
  Fabrics = {f1}
  Runs = {r1, r2}
  Keys = {k1, k2}
  Actors = {u1, u2}
  Artifacts = {a1, a2}
  Reservations = {v1}
  Adoptions = {}
  MaxTime = 0
  Horizon = 1
  LockTTL = 0
  Workers = {w1, w2}
  IseArtifacts = {a1}
  Blocked <- SecondBlocked
  MayCrash = TRUE
  Recovery = "dead"
SYMMETRY Symmetry
CHECK_DEADLOCK FALSE
INVARIANTS
  SoleWriter
  LedgerMatchesOutcome
  CommittedIsDeployed
PROPERTIES
  UnwindRestores
  SuccessIsWhole
