CONSTANTS
  Posts = {t1, t2, d1}
  ForTuning = {t1, t2}
  Silent = {d1}
  Faulty = {t2, d1}
  Hung = 1
  PoolSize = 3
  QueueCap = 1
SPECIFICATION FairServersSpec
INVARIANTS RepliesAreTrue PostsAreKept
PROPERTIES EveryPostEnds AcknowledgedIsTuned
CHECK_DEADLOCK FALSE
