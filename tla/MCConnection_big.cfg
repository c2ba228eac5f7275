\* A big-endian client, which notices a lost server and reconnects.
SPECIFICATION Spec
CONSTANTS
  w1 = w1
  w2 = w2
  BigEndian = TRUE
  Workers <- OneWorker
  MaxCalls = 2
  MaxFds = 3
  Daemon = FALSE
  Slow = FALSE
PROPERTIES
  NeverReplaced
  LostServerNoticed
  Reconnects
