CONSTANTS
  Files <- MCFiles
  Types <- MCTypes
  Open <- MCOpen
  Schemas <- AnyGraphSchemas
  OutputLists <- MCOutputs
  NoType = NoType
SPECIFICATION Spec
INVARIANTS TypeOK RecursionInv NeverReentered ImportsResolved NothingSplitInVain
PROPERTIES BuiltOnce EveryOutputBuilt
