SPECIFICATION Spec
CONSTANTS
  l1 = l1
  l2 = l2
  t1 = t1
  t2 = t2
  Shared = Shared
  None = None
  Listeners = {l1, l2}
  SharedThreads = {t1, t2}
  Dedicated = {}
  queue_capacity <- SharedCapacity
  overflow_policy <- SharedPolicy
  enable_metrics <- SharedMetrics
  MaxSamples = 2
  MaxBatch = 2
PROPERTIES
  NoCallbackAfterClose
CHECK_DEADLOCK FALSE
