SPECIFICATION Spec
CONSTANTS
  Devices <- Listed
  Kind <- KindOf
  Virtual = "virtual"
  Volumes = {40, 100}
  Scalar <- ScaleOf
  Nothing = Nothing
  Slow = {"mic"}
  Full = 100
  MaxTouches = 1
INVARIANTS TypeOK ReadBack FailedKeepsLevels
