CONSTANTS
  N = 6
  Items = {1, 2, 3, 4, 5, 6}
  Slices <- MCSlices

SPECIFICATION FairSpec

INVARIANT TypeOK
INVARIANT InOrder
PROPERTY SettledStays
PROPERTY Ends
