\* A late answer is taken by the next call.
SPECIFICATION Spec
CONSTANTS
  BigEndian = FALSE
  Calls = {"ACCESS"}
  MaxCalls = 2
  Faults = {"timeout"}
INVARIANTS
  NoStaleAnswer
