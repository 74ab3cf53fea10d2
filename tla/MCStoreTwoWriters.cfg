SPECIFICATION Spec
CONSTANTS
  a = a
  b = b
  c = c
  Absent = Absent
  Blank = Blank
  Writers = {a, b, c}
  Pid <- ThreeProcesses
  MaxTokens = 4
  MaxEvents = 1
  MaxFaults = 0
  DieAside = FALSE
INVARIANTS
  LogIsContiguous
