SPECIFICATION ReplaySpec

CONSTANTS
  Sessions = {1, 2, 3}
  MaxEvents = 3
  MaxUses = 2
  RepeatsAcross = TRUE
  NoParent = NoParent

\* Nothing is written beyond the bounds.
CHECK_DEADLOCK FALSE

INVARIANT RepeatsNeverInflate
