CONSTANTS
  Files <- MCFiles
  Names <- MCNames
  Worlds <- AllWorlds
  CrateSeq <- MCCrateSeq
  CrateOf <- MCCrateOf
  HashOrders <- MCHashOrders
  Rank <- MCRank
  Wildcard = "*"
SPECIFICATION Spec
INVARIANTS
  TypeOK
  ReferencesResolve
  ImportsReal
  ImportsExact
  DeterministicOrder
