\* The code breaks both: take the first away to see the second.
SPECIFICATION Spec
CONSTANTS
  player = player
  router = router
  another = another
  Clients = {player, router}
  Readers <- NoReader
  Size = 4
  Blocks <- OneSample
  Serialized = FALSE
  Lead = 3
  MaxSamples = 3
  MaxSeed = 5
  MaxNow = 2
INVARIANT ClearedInQuiet
PROPERTY StampsMatch
CHECK_DEADLOCK FALSE
