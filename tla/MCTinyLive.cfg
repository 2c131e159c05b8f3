SPECIFICATION FairSpec
CONSTANTS
  c1 = c1
  c2 = c2
  c3 = c3
  None = None
  Junk = Junk
  MaxFd = 2
  MaxListen = 5
  SelectErrors = FALSE
CONSTANT Clients <- Two
CONSTANT Talkers <- Nobody
CONSTANT MaxTyped <- OneNone
CONSTANT Garbage <- NoIndex
PROPERTIES RequestsAnswered ExitedAreRemoved ExitEndsAll
CHECK_DEADLOCK FALSE
