SPECIFICATION SessSpec
CONSTANTS
  None = None
  Sessions = {s1, s2}
  Runs = {r1}
  Keys = {k1}
  Fabrics = {f1}
  Modes = {"apply"}
  Targets = {"apply_running", "apply_failed", "rollback_running", "rolled_back", "dry_run_failed"}
  Backends = {"postgresql"}
CHECK_DEADLOCK FALSE
INVARIANT LedgerOnlyFromSuccess
