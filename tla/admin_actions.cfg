SPECIFICATION CarefulSpec
CONSTANTS
  w1 = w1  w2 = w2  m1 = m1  m2 = m2  r1 = r1  r2 = r2
  Messages = {m1, m2}
  Workers = {w1, w2}
  NoWorker = NoWorker
  Mortal = {w1, w2}
  Consumed <- DefaultQueue
  Prefetch = 2
  ClaimBatchMax = 2
  Threads = 2
  MaxRetries = 0
  RetryDelays <- DelayedOnly
  MaxClaims = 3
  Env = {"crash", "purge"}
  Requests = {r1, r2}
  AdminEnv = {"requeue", "discard", "abort"}
  RequeuePage = {"consumed", "rejected"}
  DiscardPage = {"queued", "consumed", "rejected"}
SYMMETRY Alike
INVARIANTS AdminInv LeaseValid NoDoubleExecution LostInBetween 
PROPERTY ActionsTouchIdle
