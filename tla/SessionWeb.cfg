SPECIFICATION FairSpec
CONSTANTS
  Callers = {c1, c2}
  MaxTokens = 4
  Client = "web"
INVARIANTS
  TypeOK
  TokensAreSound
PROPERTY CallsEnd
CHECK_DEADLOCK FALSE
