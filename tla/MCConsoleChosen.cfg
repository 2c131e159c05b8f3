SPECIFICATION Spec
CONSTANTS
  Junk = Junk
  MaxFd = 2
  MaxChosen = 2
CONSTANT Names <- MCNames
CONSTANT Missing <- MCMissing
INVARIANTS ChosenAreOpened
CHECK_DEADLOCK FALSE
