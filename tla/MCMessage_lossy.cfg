SPECIFICATION Spec
CONSTANTS
  Base = 4
  MaxLen = 2
  MaxFrame = 0
  Messages <- LossyMessages
  Values <- LossyValues
  Octets <- MCOctets
  Behind <- MCBehind
  Foreign <- MCForeign
  Stored <- MCStored
  Initial <- MCInitial
  Lets <- MCLets
  Carries <- MCCarries
  Canonical <- MCCanonical
  Put <- MCPut
  Take <- MCTake
INVARIANT RoundTrip
