SPECIFICATION Spec
CONSTANTS
  q1 = q1
  q2 = q2
  Queues = {q1, q2}
  Limit = 3
  WaitTime = 2
  AwsApiTimeout = 3
  EmptyReceiveCooldown = 1
  ReceiveErrorCooldown = 1
  MaxBlocked = 0
INVARIANT
  BrokenReported
