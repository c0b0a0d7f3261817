SPECIFICATION FairSpec

CONSTANTS
  usage = usage
  header = header
  huge = huge
  Lines = {usage, huge}
  KindOf <- MCKindOf
  MayHold <- MCMayHold
  MaxLines <- MCMaxLines
  MaxRewrites <- MCMaxRewrites
  Jobs = 2
  Workers = 1
  MaxFailures = 1
  lengths = 2
  rewritings = 1

INVARIANT QuarantineDeserved
PROPERTY EverythingCaptured
