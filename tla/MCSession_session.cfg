\* Every call; the server gives up a client that stays silent.
SPECIFICATION Spec
CONSTANTS
  BigEndian = FALSE
  Calls <- AllCalls
  MaxCalls = 3
  Faults = {"silence"}
INVARIANTS
  ReturnsOwnOutcome
  QuietWhenIdle
  StreamsFramed
  ParamsOnlyIfOpened
  NoStaleAnswer
PROPERTIES
  ImplementsRemoteCall
  CallsReturn
