SPECIFICATION FairSpec
CONSTANTS
  busy = busy
  idle = idle
  m1 = m1
  m2 = m2
  r1 = r1
  r2 = r2
  r3 = r3
  w1 = w1
  w2 = w2
  w3 = w3
  Msg = {m1, m2}
  Queues = {busy, idle}
  Readers = {r1, r2, r3}
  Writers = {w1, w2, w3}
  Of <- OfQueue
  Buffer = 1
  MaxNumberOfMessages = 2
  QueueList <- InOrder
  CacheTTL = 2
  NoQueue = NoQueue
  MaxFaults = 1
INVARIANTS
  TypeOK
PROPERTIES
  AtLeastOnceSpec
  AllForwarded
  FailureReported
  AnswersFollow
