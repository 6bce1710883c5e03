CONSTANTS
  Files <- MCFiles
  Types <- MCTypes
  Open <- MCOpen
  Schemas <- AstraySchemas
  OutputLists <- AstrayOutputs
  NoType = NoType
SPECIFICATION Spec
INVARIANT DefinitionsFollow
