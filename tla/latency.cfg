SPECIFICATION Spec
CONSTANTS
  HISTOGRAM_SIZE = 4
  Values <- MCSpread
  NSEC = 3
  CLK_FREQ = 2
  bucket_value = 2
  buckets = 2
  value_max = 20
  value_increment = 20
  InvalidMin = 9
  MaxSamples = 3
  MayBeKilled = FALSE
  MaxRequests = 2
INVARIANTS CopyUndisturbed SnapshotConsistent ReportComplete GraphShowsReport
PROPERTIES NoGiveLost SessionEnds StopSettles
CHECK_DEADLOCK FALSE
