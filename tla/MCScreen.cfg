SPECIFICATION FairSpec

CONSTANTS
  tokens = tokens
  models = models
  None = None
  Selections = {tokens, models}
  FirstView = tokens
  MaxInput = 1
  MaxDisturbances = 2

INVARIANT RefreshedIsHonest
PROPERTY ComesToRest
