SPECIFICATION IseSpec
CONSTANTS
  sgt = sgt
  acl = acl
  cell = cell
  old = old
  new = new
  other = other
  foreign = foreign
  t1 = t1
  None = None
  Admin = Admin
  Txns = {t1}
  Objects = {sgt}
  Manifest <- TagOnly
  RefsOf <- CellRefs
  Want <- AllNew
  Values = {old, new, other}
  Foreign = {foreign}
  InitialServers <- EmptyOrOld
  MaxFaults = 0
  MaxEdits = 1
CHECK_DEADLOCK FALSE
PROPERTY ChangesSurviveRollback
