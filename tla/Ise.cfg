SPECIFICATION IseFairSpec
CONSTANTS
  sgt = sgt
  acl = acl
  cell = cell
  old = old
  new = new
  other = other
  foreign = foreign
  t1 = t1
  None = None
  Admin = Admin
  Txns = {t1, t2}
  Objects = {sgt, acl, cell}
  Manifest <- SortedAndTag
  RefsOf <- CellRefs
  Want <- AllNew
  Values = {old, new, foreign}
  Foreign = {foreign}
  InitialServers <- EmptyForeignOrOld
  MaxFaults = 2
  MaxEdits = 1
CHECK_DEADLOCK FALSE
INVARIANTS
  NothingLeft
  AllOrNothing
  ForeignKept
  RollbackWorks
PROPERTY TxnEnds
