SPECIFICATION FairSpec

CONSTANTS
  parent = parent
  child = child
  other = other
  rChild = rChild
  rParent = rParent
  rOther = rOther
  rSibling = rSibling
  rLink = rLink
  Scopes = {parent, child, other}
  Records = {rChild, rParent, rOther, rSibling, rLink}
  ScopeOf <- MCScopeOf
  ParentsOf <- MCParentsOf
  Batches <- Families
  MaxInput = 4
  MaxRevision = 9
  MaxGeneration = 4
  MaxProcessor = 2
  MaxBackoff = 1
  WorkerCount = 2
  MaxInFlight = 1
  MaxDelayed = 2
  MaxDelayedScopes = 3
  MaxFaults = 1
  MaxCrashes = 2
  MaxReprocess = 1
  Poison = {}

INVARIANT StoreStaysReadable
INVARIANT ReceiptTellsTruth
PROPERTY RulesMatchLabel
PROPERTY DeliversHistory
