\* A little-endian client: the heartbeat cannot miss.
SPECIFICATION Spec
CONSTANTS
  w1 = w1
  w2 = w2
  BigEndian = FALSE
  Workers <- TwoWorkers
  MaxCalls = 3
  MaxFds = 3
  Daemon = FALSE
  Slow = TRUE
INVARIANTS
  TypeOK
  
  
  
PROPERTIES
  DestroyTerminates
