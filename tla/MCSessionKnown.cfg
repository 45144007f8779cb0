\* The code breaks each of these: take one away to see the next.
SPECIFICATION Spec
CONSTANTS
  MaxSpawns = 2
  Listed <- TwoDevices
  Virtual = "virtual"
  NoDevice = "none"
  PromptStart = FALSE
  PromptSwitch = TRUE
  MaxMeddles = 1
INVARIANTS
  ServedAfterUseVirtual ReachedAfterUseVirtual StoppedAfterUsePhysical OneService BoundToPhysical SavedIsBound
  BindingIsPlayed OneRouter
PROPERTIES OutputKept SavedStays
