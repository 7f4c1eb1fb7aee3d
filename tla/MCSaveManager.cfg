SPECIFICATION Spec
CONSTANTS
  Files = {a, b}
  Marker = Marker
  None = None
  MaxClock = 1
  MaxSuffix = 1
  MaxSnaps = 3
  ListMax = 2
SYMMETRY Symmetry
INVARIANTS CompleteIsWhole LiveNeverLost RestoredIsTarget FailedRestoreUndone
PROPERTIES ReadsNewest
