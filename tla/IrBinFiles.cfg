SPECIFICATION Spec
CONSTANTS
  MaxFns = 2
  MaxArgs = 1
  MaxBody = 2
  MaxFields = 36
INVARIANTS  TruncatedRejected
CHECK_DEADLOCK FALSE
