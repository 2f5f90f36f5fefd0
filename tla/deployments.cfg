SPECIFICATION Spec
CONSTANTS
  p1 = p1  p2 = p2  p3 = p3  p4 = p4
  dramatiq = dramatiq  jobs = jobs
  none = none  app = app
  k1 = k1  k2 = k2
  Processes = {p1, p2, p3, p4}
  Nobody = Nobody
  Schemas = {dramatiq, jobs}
  DefaultSchema = dramatiq
  Prefixes = {none, app}
  NoPrefix = none
  NotSet = NotSet
  LockKeys = {k1, k2}
  LockKey <- LockKeyOfName
  Offered <- OptionsGiven
  MaxBuilt = 1
  Apps = {p1}
SYMMETRY Initialisers
INVARIANTS InitInv WaitsEnd OnlyOthersClash OwnTables MigratedTablesFound
