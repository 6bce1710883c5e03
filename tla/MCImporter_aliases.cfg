CONSTANTS
  Modules <- MCModules
  Trees <- OrderTrees
  SourceLists <- MCSources
  NoModule = NoModule
SPECIFICATION Spec
INVARIANT AliasesResolve
