SPECIFICATION FairSpec
CONSTANTS
  r1 = r1
  r2 = r2
  c1 = c1
  c2 = c2
  Replicas = {r1, r2}
  OnDemand = {r2}
  Callers = {c1}
  Home <- MCHome
  BATCH = 1
  MaxEvents = 2
  MaxStops = 1
  MaxFails = 1
INVARIANT
  IInv
PROPERTIES
  SettledIsFolded
  StoppedIsFolded
  EventuallyFolded
