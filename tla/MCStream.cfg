CONSTANTS
  Bits <- MCBits
  Size <- MCSize
  Words <- MCWords
  Flags <- MCFlags
  Frames <- MCFrames
  Foreign <- MCForeign
SPECIFICATION Spec
INVARIANTS TypeOK StreamInv ReadContract RoundTrip CutRefused Shortest
