SPECIFICATION Spec
CONSTANTS
  Junk = Junk
  MaxFd = 3
  MaxChosen = 2
CONSTANT Names <- MCNames
CONSTANT Missing <- MCMissing
INVARIANTS ConsoleReadsRight
CHECK_DEADLOCK FALSE
