SPECIFICATION FairSpec

CONSTANTS
  parent = parent
  child = child
  other = other
  rChild = rChild
  rParent = rParent
  rOther = rOther
  rSibling = rSibling
  rLink = rLink
  Scopes = {parent, child, other}
  Records = {rChild, rParent, rOther, rSibling, rLink}
  ScopeOf <- MCScopeOf
  ParentsOf <- MCParentsOf
  Batches <- Disputed
  MaxInput = 3
  MaxRevision = 50
  MaxGeneration = 1
  MaxProcessor = 1
  MaxBackoff = 1
  WorkerCount = 2
  MaxInFlight = 8
  MaxDelayed = 1
  MaxDelayedScopes = 1
  MaxFaults = 0
  MaxCrashes = 0
  MaxReprocess = 0
  Poison = {rParent}

INVARIANT TypeOK
PROPERTY HealthyScopesSettle
