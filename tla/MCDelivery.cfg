SPECIFICATION MCSpec

CONSTANTS
  session = session
  Scopes = {session}
  Records = {r1, r2}
  ScopeOf <- MCScopeOf
  ParentsOf <- MCParentsOf
  Batches = {}
  MaxInput = 9
  MaxRevision = 9
  MaxGeneration = 1
  MaxProcessor = 1
  MaxBackoff = 0
  Databases = {1, 2}
  MaxEntries = 2
  Runs = {1, 2}
  MaxStreams = 2
  MaxStops = 2
  MaxFailures = 1
  Callers = {plain, refresh, other}
  Full = {refresh}
  None = None
  plain = plain
  refresh = refresh
  other = other
  Dir <- MCDir

\* A backend that closed is gone.
CHECK_DEADLOCK FALSE

INVARIANT AcknowledgedIsHeld
INVARIANT SendsWhatIsDue
PROPERTY DeliversJournal
PROPERTY FullMeansFull
PROPERTY AllAnswered
