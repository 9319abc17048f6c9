SPECIFICATION Spec
CONSTANTS
  r1 = r1
  r2 = r2
  c1 = c1
  c2 = c2
  Replicas = {r1, r2}
  OnDemand = {r1, r2}
  Callers = {c1, c2}
  Home <- MCHome
  BATCH = 1
  MaxEvents = 2
  MaxStops = 0
  MaxFails = 0
INVARIANT CaughtUpIsFolded
CHECK_DEADLOCK FALSE
