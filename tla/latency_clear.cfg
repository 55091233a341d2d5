SPECIFICATION Spec
CONSTANTS
  HISTOGRAM_SIZE = 2
  Values <- MCInside
  NSEC = 3
  CLK_FREQ = 2
  bucket_value = 2
  buckets = 2
  value_max = 20
  value_increment = 20
  InvalidMin = 9
  MaxSamples = 2
  MayBeKilled = TRUE
  MaxRequests = 2
INVARIANT SnapshotConsistent
CHECK_DEADLOCK FALSE
