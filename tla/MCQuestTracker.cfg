SPECIFICATION Spec
CONSTANTS
  Quests <- MCQuests
  Maps <- MCMaps
  Eligible <- MCEligible
  QueueLimit = 2
  MaxRequests = 2
  MaxUpdates = 2
  MaxEvents = 2
  None = None
  q1 = q1
  q2 = q2
  m1 = m1
  m2 = m2
CHECK_DEADLOCK FALSE
INVARIANT MarkerMirrorsCache
INVARIANT CacheSettles
PROPERTY MarkerAppears
