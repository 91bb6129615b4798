SPECIFICATION Spec
CONSTANTS
  q1 = q1
  q2 = q2
  Queues = {q1}
  Limit = 6
  WaitTime = 4
  AwsApiTimeout = 6
  EmptyReceiveCooldown = 1
  ReceiveErrorCooldown = 1
  MaxBlocked = 1
INVARIANTS
  NoFalseAlarm
  BrokenReported
