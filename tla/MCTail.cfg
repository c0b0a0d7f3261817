SPECIFICATION Spec

CONSTANTS
  usage = usage
  header = header
  huge = huge
  Lines = {usage, header}
  KindOf <- MCKindOf
  MayHold <- MCMayHold
  MaxLines <- MCMaxLines
  MaxRewrites <- MCMaxRewrites
  Jobs = 1
  Workers = 1
  MaxFailures = 0
  lengths = 1
  rewritings = 1

INVARIANT RewriteRotatesLineage
