SPECIFICATION FairSpec

CONSTANTS
  Clients = {c1, c2, c3}
  Instances = {b1, b2, b3}
  Nobody = Nobody
  Stale = Stale
  c1 = c1
  c2 = c2
  c3 = c3
  Build <- MCBuild
  MaxUnnoticed = 2
  MaxDeaths = 1
  MaxFailures = 1

INVARIANT StoresOpenOnce
PROPERTY IdleEnds
PROPERTY SomeoneServed
