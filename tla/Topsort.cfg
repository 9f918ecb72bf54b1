CONSTANTS
  N = 3
  Ids = {0, 1, 2, 3, 4}
  Lists = "all"
  ItemLists <- MCItemLists

SPECIFICATION FairSpec

INVARIANT TypeOK
INVARIANT SortPrecondition
INVARIANT PlainItemsAfterUses
PROPERTY Ends
