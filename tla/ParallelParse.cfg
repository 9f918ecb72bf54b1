CONSTANTS
  src = src
  sub = sub
  f1 = f1
  f2 = f2
  f3 = f3
  core = core
  cli = cli
  Root = Root
  NoEntry = NoEntry
  Walkers = {w1, w2, w3}
  Entries = {src, sub, f1, f2, f3}
  Parent <- MCParent
  Crates = {core, cli}
  CrateOf <- MCCrateOf
  Capacity = 1

SPECIFICATION FairSpec

INVARIANT TypeOK
INVARIANT OkMeansAllMerged
INVARIANT PanicOnlyMasksAnError
PROPERTY CallEnds
PROPERTY ImplementsParseDirs
