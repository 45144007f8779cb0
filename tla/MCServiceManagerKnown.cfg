\* The code breaks each of these: take one away to see the next.
SPECIFICATION Spec
CONSTANTS
  Callers = {"shell", "another"}
  Pids = {1, 2, 3}
  Absent = 0
  Prompt = TRUE
INVARIANTS OneDaemon StrangersUnharmed RestartStarts RunningIsTrue
