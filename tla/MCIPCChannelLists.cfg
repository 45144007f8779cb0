\* The code breaks both: take one away to see the other.
SPECIFICATION Spec
CONSTANTS
  pid = pid
  another = another
  main = main
  other = other
  Callers = {main}
  Requests <- ListRequests
  Floats <- WildFloats
  MaxPayload = 400
  MaxCalls = 3
  MaxConns = 2
INVARIANTS ListedAreRegistered ServedCallSucceeds
CHECK_DEADLOCK FALSE
