\* Every fault, every call.
SPECIFICATION Spec
CONSTANTS
  BigEndian = FALSE
  Calls <- AllCalls
  MaxCalls = 2
  Faults <- AllFaults
INVARIANTS
  TypeOK
  OnlyWriteMisreads
PROPERTIES
  ServerEnds
