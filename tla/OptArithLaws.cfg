SPECIFICATION ArithSpec
CONSTANTS
  IntBits = 4
  CharBits = 3
  Floats = {0, 1, 2, 3}
  Dts = {"int", "char", "bool", "float"}
  Ops = {"+", "-", "*", "&", "|", "<", "=="}
INVARIANT RewriteSound
CHECK_DEADLOCK FALSE
