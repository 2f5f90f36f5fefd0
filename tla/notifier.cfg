SPECIFICATION FairSpec
CONSTANTS
  q1 = q1  q2 = q2
  Queues = {q1, q2}
  MaxSubscribes = 2
  MaxBreaks = 2
INVARIANTS TypeOK CleanMeansListening
PROPERTIES SubscriptionHeard MissedNotifyHarmless StopEnds
