SPECIFICATION AllFairSpec
CONSTANTS
  c1 = c1
  c2 = c2
  w1 = w1
  w2 = w2
  All = All
  MaxItems = 4
  MaxBatch = 2
  RwThreads = {t1, t2, t3}
  RwRounds = 2
  Fds = {f1, f2}
  Pushers = {p1, p2}
  NioMaxPushes = 3
  Ol = {o1, o2}
  IoSockets = {s1, s2}
  NoSocket = NoSocket
  FbThreads = {t1, t2}
  Fibers = {b1, b2}
  NoFiber = NoFiber
  Acceptors = {a1, a2}
  Backlog = 2
  SockLens = {1, 3}
  SockMax = 6
  PairFds = {q1, q2, q3}
  NoSockfd = NoSockfd
CONSTANT Consumers <- TwoConsumers
CONSTANT Wakers <- TwoWakers
CONSTANT Timed <- OneTimed
CONSTANT Askings <- MCAskings
INVARIANTS NothingLeftBehind WritersExclude NothingIsMissed OverlappedsOwned
           FibersAreThemselves CallsKeepTheirWord
PROPERTIES IsFifo AllDelivered WakeEndsWait LockLetsEverybodyIn
CHECK_DEADLOCK FALSE
