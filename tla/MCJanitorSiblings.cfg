SPECIFICATION FairSpec
CONSTANTS
  m1 = m1
  m2 = m2
  m3 = m3
  root = root
  s1 = s1
  s2 = s2
  DeleteFlusher = flusher
  Msg = {m1, m2, m3}
  Size <- SizeOf
  PerMessagePadding = 1
  MaxSnsPublishPayload = 5
  MaxBatchItems = 2
  BufferSizePublish = 1
  BufferSizeDelete = 3
  MaxReceives = 1
  Janitors = {root, s1}
  RootJanitor = root
  LimitDeleters = 2
  WatermarkLowDelete = 33
  WatermarkHighDelete = 66
  Arrivals <- Arriving
PROPERTY
  SiblingsEnd
