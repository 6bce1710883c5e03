SPECIFICATION Spec
CONSTANTS
  Open = 9999
  Sources <- MCSources
  Versions <- MCVersions
INVARIANTS
  TypeOK
  OneBodyInForce
  ViewsMeant
  NamesInForce
  PacketIdsRegistered
