SPECIFICATION FairSpec
CONSTANTS
  w1 = w1
  w2 = w2
  b1 = b1
  s1 = s1
  s2 = s2
  Writers = {w1, w2}
  Bystanders = {b1}
  Sessions = {s1, s2}
  Background = {s1}
  BATCH = 2
  Silent = {1}
  MaxLegacy = 1
  MaxXid = 2
  MaxSeq = 2
  MaxRebuilds = 1
  MaxFails = 1
INVARIANTS
  NothingSkipped
  FoldedOnceInOrder
  NothingAppearsBehindCursor
  IInv
PROPERTIES
  CursorAdvances
  CaughtUpOnReturn
  ImplementsFoldedLog
  EventuallyFolded
  CallsReturn
