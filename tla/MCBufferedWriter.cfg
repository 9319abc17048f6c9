SPECIFICATION FairSpec
CONSTANTS
  q1 = q1
  q2 = q2
  Requests = {q1, q2}
  BatchLen <- MCBatchLen
  CAPACITY = 1
  BUFFER_SIZE = 2
  MAX_RETRIES = 1
  InsertLimit = 2
  MaxFails = 2
  MaxLostAcks = 1
INVARIANTS
  IInv
  FlushedMeansWritten
  NothingDropped
  WrittenInOrder
  DuplicatesOnlyFromLostAnswers
PROPERTIES
  ImplementsIngestLog
  AcceptedIsWritten
  RequestsAnswered
CHECK_DEADLOCK FALSE
