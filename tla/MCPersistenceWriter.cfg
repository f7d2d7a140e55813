SPECIFICATION FairSpec
CONSTANTS
  b1 = b1
  Events = {e1, e2, e3}
  Rollups = {r1}
  Buckets = {b1}
  BucketOf <- MCBucketOf
  Capacity = 1
  BatchMax = 2
INVARIANT
  WritesSound
PROPERTY
  WriterProgress
CHECK_DEADLOCK FALSE
