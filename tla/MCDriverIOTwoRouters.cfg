SPECIFICATION Spec
CONSTANTS
  player = player
  router = router
  another = another
  Clients = {router, another}
  Readers <- TwoRouters
  Size = 4
  Blocks <- SmallBlocks
  Serialized = TRUE
  Lead = 3
  MaxSamples = 5
  MaxSeed = 3
  MaxNow = 0
INVARIANT NoSampleTwice
CHECK_DEADLOCK FALSE
