\* A connection is opened again after it was closed.
SPECIFICATION Spec
CONSTANTS
  w1 = w1
  w2 = w2
  BigEndian = FALSE
  Workers <- OneWorker
  MaxCalls = 1
  MaxFds = 2
  Daemon = FALSE
  Slow = FALSE
INVARIANTS
  ClosedMeansEnded
