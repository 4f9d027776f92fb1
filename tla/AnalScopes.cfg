SPECIFICATION Spec
CONSTANTS
  Names = {"a", "b"}
  FnNames = {"main", "f"}
  Builtins = {}
  DataTypes = {"int", "char"}
  RetTypes = {"void", "int"}
  ParamLists <- MCParams
  ArgLists <- MCArgs
  Stmts = {"decl", "use", "assign", "return", "return_void", "call", "decl_call", "if", "for", "while", "do"}
  MaxStmts = 7
  MaxNest = 2
INVARIANTS LookupSeesScopes TypeErrorsExact WarnsIffUnread 
CHECK_DEADLOCK FALSE
