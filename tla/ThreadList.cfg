SPECIFICATION FairSpec
CONSTANTS
  Client = {c1, c2}
  Activity = {a1}
  Hydration = {h1, h2}
  Cleanup = {m1}
  None = None
  Pages = 2
  MaxFaults = 2
INVARIANTS OneListingPerClient
PROPERTIES IdleIsEarned KnownWhenRecovered GateMovesOn
CHECK_DEADLOCK FALSE
