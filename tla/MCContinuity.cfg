SPECIFICATION MCSpec

CONSTANTS
  usage = usage
  header = header
  huge = huge
  Lines = {usage, header}
  KindOf <- MCKindOf
  MayHold <- MCMayHold
  MaxLines <- MCMaxLines
  MaxRewrites <- MCMaxRewrites
  Jobs = 1
  Workers = 1
  MaxFailures = 1
  lengths = 2
  rewritings = 1
  MaxDepth = 2
  MaxNumber = 4
  Turns = {t1, t2}
  Models = {m1}
  Missing = Missing
  MaxRollouts = 2
  MaxWritten = 5

SYMMETRY Alike

INVARIANT NothingSkipped
INVARIANT SkipsOnlyTheIrrelevant
INVARIANT AttributedAsRead
PROPERTY CommitsWhatIsThere
PROPERTY LineageExtends
