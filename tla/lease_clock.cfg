SPECIFICATION Spec
CONSTANTS
  w1 = w1  w2 = w2  w3 = w3
  Workers = {w1, w2, w3}
  NoWorker = NoWorker
  Mortal = {w2, w3}
  Interval = 1
  Ttl = 5
  Maintenance = 1
  Turn = 1
  Failures = 1
  Flaky = {w1}
  MaxAge = 27
SYMMETRY Processes
INVARIANTS ClockInv LeaseKept ListedInTime RecoveredInTime
PROPERTY LosesOnlyUnlisted
