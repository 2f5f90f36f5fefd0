SPECIFICATION FairSpec
CONSTANTS
  w1 = w1  w2 = w2  m1 = m1  m2 = m2  m3 = m3
  Messages = {m1}
  Workers = {w1, w2}
  NoWorker = NoWorker
  Mortal = {w2}
  Consumed <- BothQueues
  Prefetch = 1
  ClaimBatchMax = 2
  Threads = 1
  MaxRetries = 1
  RetryDelays <- DelayedOnly
  MaxClaims = 8
  Env = {"crash", "stop"}
INVARIANTS TypeOK HeldWhileConsumed OwnerKnownSoon LeaseValid NoDoubleExecution NoLoss LeaseInv
PROPERTIES RetriesNeverReset ImplementsAtLeastOnce EventuallySettled CrashRecovery
