SPECIFICATION AllSpec
CONSTANTS
  v1 = v1
  v2 = v2
  Junk = Junk
  MaxLen = 3
  ListId = {a, b}
  Node <- MCNode
  Null = Null
  Wild = Wild
  Rank <- MCRank
  HtId = {t1, t2}
  HtNode <- MCNode
  HtNull = HtNull
  HtKey <- MCKey
  HtHash <- MCHash
  HtSizes = {1, 2}
  HtWord = 5
  HtMaxRehashes = 1
  Bytes = {0, 1, 195}
  MemLen = 4
  Delim = {1}
  Cuts <- MCCuts
  NoPlace = NoPlace
  RandBits = 4
  RandX0 = 14
  RandA <- MCRandA
  RandC = 11
  RandSeeds = {1, 205}
CONSTANT Val <- MCVal
INVARIANTS NoJunkInUse Linked HtAgrees FunctionsAgree
PROPERTIES IsListStore OthersUntouched
