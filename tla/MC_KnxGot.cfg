CONSTANTS
  GOT_MAX_ENTRIES = 2
  Ids = {1, 2}
  u1 = u1
  u2 = u2
  gaA = gaA
  gaB = gaB
  gaC = gaC
  MAX_EXT_MCAST = 2
  Uris <- MCUris
  GAs <- MCGAs
  ArgCounts <- MCArgCounts
  Bufs <- MCBufs
  NoHref = NoHref
  TableTakesOwnership = FALSE
SPECIFICATION Spec
SYMMETRY MCSymmetry
INVARIANTS
  TypeOK
  GotIdsUnique
  GroupsJoinedUnlessPoolFull
