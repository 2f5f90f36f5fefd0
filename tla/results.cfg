SPECIFICATION FairSpec
CONSTANTS
  k1 = k1  k2 = k2  g1 = g1  g2 = g2  c1 = c1  c2 = c2
  Keys = {k1, k2}
  Getters = {g1, g2}
  Conns = {c1}
  NoConn = NoConn
  MaxStores = 2
  Large = {2}
  MaxAttempts = 2
  Env = {"conn_error"}
INVARIANTS TypeOK WaiterInformed PoolClean OwnChannel AnswersCall

PROPERTY CallReturns
