CONSTANTS
  shell = shell
  agent = agent
  other = other
  Shells = {shell}
  Agents = {agent}
  MaxWakes = 1
  MaxPersons = 1
  MaxFaults = 1
  MayDropWake = FALSE
SPECIFICATION LiveSpec
INVARIANT ToldOnce
INVARIANT NothingForgotten
PROPERTY EndsComeToRest
CHECK_DEADLOCK FALSE
