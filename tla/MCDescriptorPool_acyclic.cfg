CONSTANTS
  Files <- MCFiles
  Types <- MCTypes
  Open <- MCOpen
  Schemas <- AcyclicSchemas
  OutputLists <- MCOutputs
  NoType = NoType
SPECIFICATION Spec
INVARIANTS ImportsBuiltFirst ClassificationInv SplitsAllMoving SharedViewsAgree PlansKept AliasesAgree
PROPERTY KeepsContract
