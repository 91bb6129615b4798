SPECIFICATION FairSpec
CONSTANTS
  m1 = m1
  m2 = m2
  root = root
  s1 = s1
  s2 = s2
  Msg = {m1, m2}
  Size <- SizeOf
  PerMessagePadding = 1
  MaxSnsPublishPayload = 5
  MaxBatchItems = 2
  BufferSizePublish = 1
  BufferSizeDelete = 1
  MaxReceives = 2
  Readers = {root, s1, s2}
  RootReader = root
  LimitReaders = 2
  MaxNumberOfMessages = 2
  FullReceive = 2
CHECK_DEADLOCK FALSE
INVARIANTS
  TypeOK
  CancellationNotCounted
  ReceivedForwarded
  ReaderLimit
PROPERTY
  StopEndsReaders
