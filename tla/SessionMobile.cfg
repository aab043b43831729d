SPECIFICATION Spec
CONSTANTS
  Callers = {c1, c2}
  MaxTokens = 3
  Client = "mobile"
SYMMETRY Symmetry
PROPERTY ClearedOnlyWhenDead
CHECK_DEADLOCK FALSE
