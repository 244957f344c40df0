SPECIFICATION DocSpec
\* A document is opened once.
CHECK_DEADLOCK FALSE
CONSTANTS
  MaxHierarchyDepth <- MCMaxHierarchyDepth
  MaxDepth <- MCMaxDepth
  Profiles <- MCProfiles
  None = None
  VlanFree <- MCVlanFree
  SharedVlanFree <- MCSharedVlanFree
  HandoffVlanFree <- MCHandoffVlanFree
  SgtFree <- MCSgtFree
  GroupFree <- MCGroupFree
  Words <- MCWords
  Upper <- MCUpper
  Minimum <- MCMinimum
  MeshRequired = TRUE
  Campuses <- MCCampuses
  Requirements <- MCRequirements
  Registries <- MCRegistries
  Revisions <- MCRevisions
  Names <- MCNames
  Roles <- MCRoles
INVARIANTS
  HierarchyMatchesTree
  LateRejection
  CyclesFound
  ReadyMeansProven
