CONSTANTS
  N = 2
  Ids = {0, 1, 2, 3}
  Lists = "enums"
  ItemLists <- MCItemLists

SPECIFICATION Spec

INVARIANT DependentsAfterIndependents
