SPECIFICATION Spec
CONSTANTS
  t1 = t1
  t2 = t2
  Size = 4
  PollSize = 3
  NL = "NL"
  Owner = t1
  MaxBytes = 12
  MaxInits = 1
CONSTANT Byte <- MCByte
CONSTANT Callers <- One
CONSTANT Logs <- Lines
CONSTANT Banner <- MCBanner
INVARIANTS OneLineAtATime
CHECK_DEADLOCK FALSE
