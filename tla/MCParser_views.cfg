SPECIFICATION Spec
CONSTANTS
  Open = 9999
  Sources <- ViewsSources
  Versions <- MCVersions
INVARIANT
  ViewsExact
