SPECIFICATION Spec
CONSTANTS
  Base = 6
  MaxCalls = 4
  MaxSize = 2
  MaxDepth = 8
  MaxFrame = 5
  Names <- MCNames
  Arguments <- MCArguments
  Frames <- MCFrames
INVARIANTS
  ListsAreUniform
  ReadBack
  AcceptedIsStable
