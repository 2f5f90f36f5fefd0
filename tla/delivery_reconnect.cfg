SPECIFICATION Spec
CONSTANTS
  w1 = w1  w2 = w2  m1 = m1  m2 = m2  m3 = m3
  Messages = {m1}
  Workers = {w1}
  NoWorker = NoWorker
  Mortal = {w1}
  Consumed <- BothQueues
  Prefetch = 1
  ClaimBatchMax = 1
  Threads = 1
  MaxRetries = 1
  RetryDelays <- AnyDelay
  MaxClaims = 3
  Env = {"crash", "conn_error", "recover", "stop", "flush", "purge"}
INVARIANT CapacityComesBack
