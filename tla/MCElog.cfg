SPECIFICATION FairSpec
CONSTANTS
  t1 = t1
  t2 = t2
  Size = 4
  PollSize = 3
  NL = "NL"
  Owner = t1
  MaxBytes = 8
  MaxInits = 2
CONSTANT Byte <- MCByte
CONSTANT Callers <- Two
CONSTANT Logs <- Lines
CONSTANT Banner <- MCBanner
INVARIANTS RingAgrees
PROPERTIES PutAppends IsFifo AcceptedIsShown DeinitReturns
CHECK_DEADLOCK FALSE
