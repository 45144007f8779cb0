SPECIFICATION Spec
CONSTANTS
  c1 = c1
  c2 = c2
  c3 = c3
  NoClient = NoClient
  Threads = {1, 2}
  ClientIDs = {c1, c2, c3}
  PidOf <- OwnPids
  MAX_CLIENTS = 2
INVARIANTS EveryClientKnown RegistryAlwaysFollows
