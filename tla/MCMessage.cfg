SPECIFICATION Spec
CONSTANTS
  Base = 4
  MaxLen = 2
  MaxFrame = 5
  Messages <- MCMessages
  Values <- MCValues
  Octets <- MCOctets
  Behind <- MCBehind
  Foreign <- MCForeign
  Stored <- MCStored
  Initial <- MCInitial
  Lets <- MCLets
  Carries <- MCCarries
  Canonical <- MCCanonical
  Put <- MCPut
  Take <- MCTake
INVARIANTS
  TypeOK
  MessageInv
  FieldsKeepTheirWord
  RoundTrip
  CutRefused
  AcceptedIsStable
  AcceptedIsWritten
  UnnamedIsRefused
