SPECIFICATION Spec
CONSTANTS
  HISTOGRAM_SIZE = 2
  Values <- MCEdge
  NSEC = 3
  CLK_FREQ = 2
  bucket_value = 2
  buckets = 2
  value_max = 20
  value_increment = 20
  InvalidMin = 9
  MaxSamples = 2
  MayBeKilled = FALSE
  MaxRequests = 2
INVARIANT EverySampleCounted
CHECK_DEADLOCK FALSE
