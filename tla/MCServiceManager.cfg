SPECIFICATION Spec
CONSTANTS
  Callers = {"shell"}
  Pids = {1, 2, 3, 4}
  Absent = 0
  Prompt = TRUE
INVARIANTS TypeOK FileNamesDaemon OneDaemon ReportIsTrue
