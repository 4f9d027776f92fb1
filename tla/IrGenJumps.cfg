SPECIFICATION PassSpec
CONSTANTS
  Stmts <- MCStmts
  Exprs <- MCExprs
  ForInits <- MCForInits
  ForIncrs <- MCForIncrs
  Kinds = {"if", "while", "do", "for", "break", "continue", "ret"}
  ReturnTypes = {"void", "int"}
  MaxLen = 4
  MaxNest = 2
INVARIANTS JumpsStructured  FlowLeavesLoop 
INVARIANTS ControlKept AllocasGrouped FailsOnlyAtEnd DominatorsRight FrontiersRight
PROPERTY ReorderEnds
CHECK_DEADLOCK FALSE
