\* Three calls on a file of one byte, with buffers of up to three and offsets up to
\* two bytes behind its end.
SPECIFICATION Spec
CONSTANTS
  Length = 1
  MaxSize = 3
  MaxOffset = 3
  MaxCalls = 3
  MaxFds = 2
  Faults <- AllFaults
INVARIANTS
  TypeOK
  ReadIsFile
  WrittenIsThere
  OnlyItsRange
PROPERTIES
  TransfersEnd
