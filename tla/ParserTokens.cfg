SPECIFICATION Spec
CONSTANTS
  Tokens <- MCTokens
  Prefixes <- MCPrefixes
  MaxMore = 3
  MaxDepth = 1
INVARIANTS  PrecedenceKept AcceptedBalanced RewindsToType OverrunMeansTruncated
PROPERTY ParseEnds
CHECK_DEADLOCK FALSE
