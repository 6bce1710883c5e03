CONSTANTS
  Modules <- MCModules
  Trees <- MCTrees
  SourceLists <- MCSources
  NoModule = NoModule
SPECIFICATION Spec
INVARIANTS TypeOK WorklistInv LoadDetermined
PROPERTY LoadEnds
