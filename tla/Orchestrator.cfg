SPECIFICATION OFairSpec
CONSTANTS
  None = None
  i1 = i1
  f1 = f1
  d1 = d1
  d2 = d2
  k1 = k1
  p1 = p1
  a1 = a1
  a2 = a2
  c1 = c1
  IntentOf <- OneIntent
  FabricOf <- OneFabric
  DesignOf <- OneDesign
  PlanOf <- PlanOnce
  Rendering <- TwoReleases
  ConfirmKey <- Confirmation
  DeviceOrder <- TwoDevices
  Phases <- PolicyOnly
  BlockCount <- FirstOnly
  Gates <- NoGate
  Blocked <- NoneBlocked
  Intents = {i1}
  Planners = {u1}
  Demands = {k1}
  Plans = {p1}
  Fabrics = {f1}
  Runs = {r1}
  Keys = {c1}
  Actors = {u1, u2}
  Artifacts = {a1, a2}
  Reservations = {v1}
  Adoptions = {}
  MaxTime = 0
  Horizon = 1
  LockTTL = 1
  Window = 1
  Workers = {w1}
  IseArtifacts = {}
  MayCrash = FALSE
  Recovery = "none"
  Handlers = {h1, h2}
  PocWorkers = {w1}
  PocArtifacts = {a1}
  PinnedPlan = None
CHECK_DEADLOCK FALSE
INVARIANTS
  SoleSimulator
  SimulationWhole
  LeakOnlyByFailure
PROPERTIES
  RunEnds
  QuarantineFollows
  DryRunEnds
