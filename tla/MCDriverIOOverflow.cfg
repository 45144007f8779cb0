SPECIFICATION Spec
CONSTANTS
  player = player
  router = router
  another = another
  Clients = {player, router}
  Readers <- OneRouter
  Size = 4
  Blocks <- SmallBlocks
  Serialized = TRUE
  Lead = 99
  MaxSamples = 6
  MaxSeed = 5
  MaxNow = 0
INVARIANT UnreadKept
CHECK_DEADLOCK FALSE
