SPECIFICATION Spec
CONSTANTS
  a = a
  b = b
  c = c
  Absent = Absent
  Blank = Blank
  Writers = {a, b, c}
  Pid <- TwoProcesses
  MaxTokens = 4
  MaxEvents = 2
  MaxFaults = 1
  DieAside = FALSE
INVARIANTS
  OneWriter
  LogIsContiguous
  MemoryIsOnDisk
PROPERTIES
  CommittedStays
