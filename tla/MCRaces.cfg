SPECIFICATION Spec

CONSTANTS
  parent = parent
  child = child
  other = other
  rChild = rChild
  rParent = rParent
  rOther = rOther
  rSibling = rSibling
  rLink = rLink
  Scopes = {parent, child, other}
  Records = {rChild, rParent, rOther, rSibling, rLink}
  ScopeOf <- MCScopeOf
  ParentsOf <- MCParentsOf
  Batches <- LateSibling
  MaxInput = 4
  MaxRevision = 4
  MaxGeneration = 1
  MaxProcessor = 1
  MaxBackoff = 1
  WorkerCount = 2
  MaxInFlight = 8
  MaxDelayed = 2
  MaxDelayedScopes = 3
  MaxFaults = 1
  MaxCrashes = 0
  MaxReprocess = 0
  Poison = {}

INVARIANT SettledSeesAncestors
INVARIANT SettledComponentExact
INVARIANT ClaimsDisjoint
PROPERTY PublishesCurrent
PROPERTY BackoffOnlyForReadInput
