SPECIFICATION FairSpec
CONSTANTS
  m1 = m1
  m2 = m2
  m3 = m3
  root = root
  s1 = s1
  s2 = s2
  PublishFlusher = flusher
  Msg = {m1, m2, m3}
  Size <- SizeOf
  PerMessagePadding = 1
  MaxSnsPublishPayload = 4
  MaxBatchItems = 2
  BufferSizePublish = 2
  BufferSizeDelete = 1
  Publishers = {root, s1, s2}
  RootPublisher = root
  LimitPublishers = 2
  WatermarkLowPublish = 34
  WatermarkHighPublish = 40
  Arrivals <- Arriving
INVARIANTS
  TypeOK
  PoolBound
  NoStrandedBatch
  BatchLegal
  ForwardedAccepted
  SingleCustody
  PublisherLimit
PROPERTIES
  NothingLost
  NoStarvation
