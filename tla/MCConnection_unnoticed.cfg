\* A little-endian client does not notice that the server is gone.
SPECIFICATION Spec
CONSTANTS
  w1 = w1
  w2 = w2
  BigEndian = FALSE
  Workers <- OneWorker
  MaxCalls = 1
  MaxFds = 2
  Daemon = FALSE
  Slow = FALSE
PROPERTIES
  LostServerNoticed
