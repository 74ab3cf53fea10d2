CONSTANTS
  MaxLines = 3
  MaxEntries = 2
  MaxNotices = 1
  MaxFaults = 1
SPECIFICATION LiveSpec
INVARIANT InOnePlace
INVARIANT AnsweredWhereAimed
INVARIANT AnsweredInOrder
PROPERTY ComesToRest
CHECK_DEADLOCK FALSE
