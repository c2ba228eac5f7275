\* One read() returns a part of the data.
SPECIFICATION Spec
CONSTANTS
  BigEndian = FALSE
  Calls = {"READ"}
  MaxCalls = 1
  Faults = {"shortRead"}
INVARIANTS
  SuccessIsWhole
