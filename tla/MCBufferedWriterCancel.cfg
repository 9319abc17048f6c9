SPECIFICATION Spec
CONSTANTS
  q1 = q1
  q2 = q2
  Requests = {q1, q2}
  BatchLen <- MCBatchLen
  CAPACITY = 1
  BUFFER_SIZE = 2
  MAX_RETRIES = 1
  InsertLimit = 4
  MaxFails = 0
  MaxLostAcks = 0
INVARIANTS
  PendingIsUnwritten
CHECK_DEADLOCK FALSE
