SPECIFICATION ArraysSpec
CONSTANTS
  Values = {v1, v2}
  Arrays = {x, y}
  MaxLen = 3
  MaxCap = 8
  Places = 3
  Digits = 4
PROPERTY EmptyEraseIsNoOp
CHECK_DEADLOCK FALSE
