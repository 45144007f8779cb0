\* The code breaks each of these: take one away to see the next.
SPECIFICATION Spec
CONSTANTS
  Devices <- WithFixed
  Kind <- KindOf
  Virtual = "virtual"
  Volumes = {40, 100}
  Scalar <- ScaleOf
  Nothing = Nothing
  Slow = {"speaker"}
  Full = 100
  MaxTouches = 2
INVARIANTS ReadBack FailedKeepsMutes FailedIsOver BoundPlays
PROPERTIES SetsCurrentOutput UseVirtualKeepsLevels
