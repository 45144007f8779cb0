SPECIFICATION Spec
CONSTANTS
  MaxSpawns = 2
  Listed <- TwoDevices
  Virtual = "virtual"
  NoDevice = "none"
  PromptStart = TRUE
  PromptSwitch = TRUE
  MaxMeddles = 1
INVARIANTS
  TypeOK ServedAfterUseVirtual RoutedToWanted DeviceRestored StoppedAfterUsePhysical
PROPERTY CommandEnds
