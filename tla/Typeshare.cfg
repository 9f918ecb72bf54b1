CONSTANTS
  Worlds <- MCWorlds
  Items <- MCItems
  Metas <- MCMetas
  Trees <- MCTrees
  SynTypes <- MCSynTypes
  Types <- MCTypes
SPECIFICATION Spec
INVARIANTS
  TypeOK
  ErrorsStopTheRun
  EveryItemWritten
  EveryItemDeclared
  SkippingIsErasing
  CratesByDirectory
  UseImports
  HelpersProvided
  ReferencesDeclared
  ConfigPrecedence
  StoredConfigReproduces
PROPERTIES
  ConfigsStay
  EachStepLeadsOn
