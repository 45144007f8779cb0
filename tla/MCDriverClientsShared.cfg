SPECIFICATION Spec
CONSTANTS
  c1 = c1
  c2 = c2
  c3 = c3
  NoClient = NoClient
  Threads = {1, 2}
  ClientIDs = {c1, c2, c3}
  PidOf <- SharedPids
  MAX_CLIENTS = 3
INVARIANT RegistryFollowsTable
