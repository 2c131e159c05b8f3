SPECIFICATION Spec
CONSTANTS
  c1 = c1
  c2 = c2
  c3 = c3
  None = None
  Junk = Junk
  MaxFd = 3
  MaxListen = 5
  SelectErrors = FALSE
CONSTANT Clients <- Three
CONSTANT Talkers <- Nobody
CONSTANT MaxTyped <- Silent
CONSTANT Garbage <- AnyIndex
SYMMETRY Symm
INVARIANTS NoLiveClientForgotten
CHECK_DEADLOCK FALSE
