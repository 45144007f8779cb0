SPECIFICATION Spec
CONSTANTS
  player = player
  router = router
  another = another
  Clients = {player, router}
  Readers <- OneRouter
  Size = 4
  Blocks <- SmallBlocks
  Serialized = TRUE
  Lead = 3
  MaxSamples = 5
  MaxSeed = 5
  MaxNow = 2
INVARIANTS TypeOK ReaderGetsStream ClearedInQuiet
PROPERTY StampsMatch
CHECK_DEADLOCK FALSE
