SPECIFICATION FairSpec
CONSTANTS
  View = {v1, v2}
  Task = {child, parent}
  child = child
  parent = parent
  None = None
  Gone = Gone
  Parent <- MCParent
  MaxTroubles = 2
INVARIANTS OneAtATime TrackingEndsWithSwitch
PROPERTIES KeptIsSpared DeletedAfterRecovery CleanupGoesOn
CHECK_DEADLOCK FALSE
