SPECIFICATION AdminSpec
CONSTANTS
  w1 = w1  w2 = w2  m1 = m1  m2 = m2  r1 = r1  r2 = r2
  Messages = {m1}
  Workers = {w1, w2}
  NoWorker = NoWorker
  Mortal = {}
  Consumed <- DefaultQueue
  Prefetch = 1
  ClaimBatchMax = 1
  Threads = 1
  MaxRetries = 1
  RetryDelays <- DelayedOnly
  MaxClaims = 3
  Env = {}
  Requests = {r1}
  AdminEnv = {"requeue"}
  RequeuePage = {"queued", "consumed", "rejected"}
  DiscardPage = {}
INVARIANT NoDoubleExecution
