SPECIFICATION Spec
CONSTANTS
  i1 = i1
  i2 = i2
  f1 = f1
  f2 = f2
  None = None
  IntentOf <- PlanIntents
  FabricOf <- IntentFabrics
  Intents = {i1, i2}
  Plans = {p1}
  Fabrics = {f1, f2}
  Runs = {r1, r2}
  Keys = {k1, k2}
  Actors = {u1, u2}
  Artifacts = {a1, a2}
  Reservations = {v1, v2}
  Adoptions = {x1}
  MaxTime = 1
  Horizon = 2
  LockTTL = 1
SYMMETRY Symmetry
CHECK_DEADLOCK FALSE
INVARIANTS
  TypeOK
  LockHeldIffActive
  OneActiveApplyPerFabric
  LedgerOnlyFromSuccess
  RunBoundToPlan
  ApprovalIndependent
  PlanReservationMatches
PROPERTIES
  ActiveBindingKept
