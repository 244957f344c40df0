SPECIFICATION SessSpec
CONSTANTS
  None = None
  Sessions = {s1, s2}
  Runs = {r1, r2}
  Keys = {k1, k2}
  Fabrics = {f1}
  Modes = {"apply", "dry_run"}
  Targets = {"apply_running", "apply_failed", "rollback_running", "rolled_back", "dry_run_failed"}
  Backends = {"sqlite", "postgresql"}
SYMMETRY Symmetry
CHECK_DEADLOCK FALSE
INVARIANTS
  ChainVerifies
  NoDeadlock
  OnlyLocksBlock
PROPERTY ImplementsStore
