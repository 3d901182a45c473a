SPECIFICATION FairSpec
CONSTANTS
  Keys = {k1, k2, k3}
  Tasks = {t1, t2, t3}
  Mutexes = {m1, m2, m3, m4}
  None = None
  MaxPoolSize = 2
INVARIANTS Inv MutualExclusion CleanupTakesHalf
PROPERTIES PoolBounded ImplementsKeyedLock EveryCallerServed
