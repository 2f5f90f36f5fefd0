SPECIFICATION Spec
CONSTANTS
  w1 = w1  w2 = w2  m1 = m1  m2 = m2  m3 = m3
  Messages = {m1}
  Workers = {w1, w2}
  NoWorker = NoWorker
  Mortal = {}
  Consumed <- BothQueues
  Prefetch = 1
  ClaimBatchMax = 1
  Threads = 1
  MaxRetries = 2
  RetryDelays <- DelayedOnly
  MaxClaims = 4
  Env = {"slow_ack"}
INVARIANT NoLoss
