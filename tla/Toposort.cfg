CONSTANTS
  N = 4
  Graphs <- MCGraphs

SPECIFICATION FairSpec

INVARIANT TypeOK
INVARIANT ListsAllOnce
INVARIANT DependenciesFirst
PROPERTY Ends
