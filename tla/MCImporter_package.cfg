CONSTANTS
  Modules <- MCModules
  Trees <- MCTrees
  SourceLists <- MCSources
  NoModule = NoModule
SPECIFICATION Spec
INVARIANT LoadsTransitiveImports
