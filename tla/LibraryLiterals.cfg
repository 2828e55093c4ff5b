SPECIFICATION LibrarySpec
CONSTANTS
  ElementBytes = 3
  IntBytes = 4
  Padding = 4
  ByteBase = 2
  MaxByteElements = 3
  Inputs = {2, 5}
  Digits = 8
  Units = {0, 1}
  MaxElements = 1
  MaxFile = 3
  Owners = {o1, o2, o3}
  Names = {"a", "b"}
  MaxAttempts = 2
  Digits2 = 8
  Most8 = 127
  MaxAxis = 3
  IndexWord = 8
  MaxList = 4
  EmptyAt = 3
  EnumValues = {"u", "v", "w"}
  MaxCpu = 3
INVARIANT InvalidGivesNullopt
CHECK_DEADLOCK FALSE
