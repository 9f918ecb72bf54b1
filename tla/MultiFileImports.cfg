CONSTANTS
  Files <- MCFiles
  Names <- MCNames
  Worlds <- AllWorlds
  CrateSeq <- MCCrateSeq
  CrateOf <- MCCrateOf
  HashOrders <- MCHashOrders
  Rank <- MCRank
  Wildcard = "*"
SPECIFICATION Spec
INVARIANT UsedTypesImported
