SPECIFICATION FairSpec
CONSTANTS
  m1 = m1
  m2 = m2
  m3 = m3
  root = root
  sibling = sibling
  PublishFlusher = flusher
  DeleteFlusher = flusher
  Msg = {m1, m3}
  Size <- SizeOf
  PerMessagePadding = 1
  MaxSnsPublishPayload = 5
  MaxBatchItems = 2
  BufferSizePublish = 1
  BufferSizeDelete = 1
  MaxReceives = 2
  Readers = {root}
  RootReader = root
  LimitReaders = 1
  MaxNumberOfMessages = 2
  FullReceive = 2
  Publishers = {root}
  RootPublisher = root
  LimitPublishers = 1
  WatermarkLowPublish = 0
  WatermarkHighPublish = 1
  Janitors = {root}
  RootJanitor = root
  LimitDeleters = 1
  WatermarkLowDelete = 33
  WatermarkHighDelete = 66
  MaxFaults = 1
PROPERTY
  AllForwarded
