SPECIFICATION UsersSpec
CONSTANTS
  c1 = c1
  c2 = c2
  c3 = c3
  None = None
  Junk = Junk
  MaxFd = 3
  MaxListen = 5
  SelectErrors = TRUE
CONSTANT Clients <- Three
CONSTANT Talkers <- First
CONSTANT MaxTyped <- TwoNone
CONSTANT Garbage <- NoIndex
SYMMETRY Alike
INVARIANTS RegistryInJoinOrder NoLiveClientForgotten JoinsToldOnce TalkIsInOrder
PROPERTIES FullStaysFull ErrorsNeverDieOut
CHECK_DEADLOCK FALSE
