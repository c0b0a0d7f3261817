SPECIFICATION MCSpec

CONSTANTS
  c1 = c1
  c2 = c2
  c3 = c3
  s1 = s1
  s2 = s2
  Collector = Collector
  NoOne = NoOne
  Commands = {c1, c2, c3}
  Servers = {s1, s2}
  ServerOf <- TwoOfOne
  MaxCrashes = 1
  Requests = {c1, c2}
  MaxQuits = 1
  NumKeys = 2
  Options <- TwoOrThree
  MaxOpened = 2
  MaxObserved = 2
  first = first
  second = second
  Absent = Absent
  Attempts = {first, second}
  Harnesses = {1}
  MaxAttempts = 1
  LeaseDuration = 1
  TerminalRetention = 1
  MaxTime = 1
  MaxSources <- MCSources
  Workers = 2
  MaxBatches <- MCBatches
  Together = 2
  Sessions = {1, 2, 3}
  MaxEvents = 2
  MaxUses = 2
  RepeatsAcross = FALSE
  NoParent = NoParent
  Counts <- MCCounts
  MaxCount = 3
  Missing = Missing
  Stamps = {1, 2}
  Uses = {1, 2}
  Unreadable = Unreadable
  MaxWrites = 3
  w1 = w1
  w2 = w2
  Windows = {w1, w2}
  Transport <- SshAndTcp
  Host = Host
  MaxInstances = 2
  MaxGateways = 2
  MaxBreaks = 1
  Views = {"models", "context"}
  BareLines = 1
  RoomyHeight = 7
  RoomyLines = 2
  MetricHeight = 5
  MetricLines = 1
  RowNames = {1, 2}
  RowLines = {1, 3}
  MaxRows = 3
  Heights = {2, 7}

\* Every protocol comes to an end.
CHECK_DEADLOCK FALSE

INVARIANT NothingLost
INVARIANT HandoffAgrees
PROPERTY ReadsKeepDraft
INVARIANT EndedShowsOutcome
PROPERTY OutcomesStay
INVARIANT CopiesCountOnce
INVARIANT NothingForgotten
INVARIANT CountersSound
INVARIANT ConfirmsWhatIsAgreed
INVARIANT AnsweredByItsOwn
INVARIANT LossIsTold
INVARIANT FocusShown
