SPECIFICATION CfgSpec
CONSTANTS
  Stmts <- MCStmts
  Exprs <- MCExprs
  ForInits <- MCForInits
  ForIncrs <- MCForIncrs
  Kinds = {"if", "while", "break"}
  ReturnTypes = {"void"}
  MaxLen = 6
  MaxNest = 2
INVARIANTS BreakLeavesLoop
CHECK_DEADLOCK FALSE
