SPECIFICATION Spec

CONSTANTS
  tokens = tokens
  models = models
  None = None
  Selections = {tokens, models}
  FirstView = tokens
  MaxInput = 0
  MaxDisturbances = 3

INVARIANT RowsFitSelection
