SPECIFICATION Spec
CONSTANTS
  l1 = l1
  l2 = l2
  t1 = t1
  t2 = t2
  Shared = Shared
  None = None
  Listeners = {l1, l2}
  SharedThreads = {t1, t2}
  Dedicated = {}
  queue_capacity <- SharedCapacity
  overflow_policy <- SharedPolicy
  enable_metrics <- SharedMetrics
  MaxSamples = 3
  MaxBatch = 2
INVARIANTS
  TypeOK
  HandlerNotReentrant
  NoLostWakeup
  CapacityBound
  MetricsBalance
  NewestKept
  NoUseAfterFree
PROPERTIES
  HandedInOrder
  ImplementsDelivery
CHECK_DEADLOCK FALSE
