SPECIFICATION Spec
CONSTANTS
  VarsLimit = 3
  Regs = 2
  Programs <- MCPrograms
INVARIANTS ProperColoring SpillIsForced RangesCoverStores OperandsApart
CHECK_DEADLOCK FALSE
