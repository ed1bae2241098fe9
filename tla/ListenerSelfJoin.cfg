SPECIFICATION Spec
CONSTANTS
  l1 = l1
  l2 = l2
  t1 = t1
  t2 = t2
  Shared = Shared
  None = None
  Listeners = {l1, l2}
  SharedThreads = {t1}
  Dedicated = {l1}
  queue_capacity <- DedicatedCapacity
  overflow_policy <- DedicatedPolicy
  enable_metrics <- DedicatedMetrics
  MaxSamples = 2
  MaxBatch = 2
INVARIANTS
  NoSelfJoin
CHECK_DEADLOCK FALSE
