SPECIFICATION Spec
CONSTANTS
  t1 = t1
  t2 = t2
  Size = 4
  PollSize = 3
  NL = "NL"
  Owner = t1
  MaxBytes = 8
  MaxInits = 1
CONSTANT Byte <- MCByte
CONSTANT Callers <- One
CONSTANT Logs <- AndNone
CONSTANT Banner <- MCBanner
INVARIANTS UsedIsStored
CHECK_DEADLOCK FALSE
