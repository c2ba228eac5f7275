\* Two keys are made while two clients come.
SPECIFICATION Spec
CONSTANTS
  BigEndian = FALSE
  Conns = {"c1", "c2"}
  Keys = {"k1", "k2"}
  Users = {"ann"}
  Mounts <- OneWordMounts
INVARIANTS
  TypeOK
  KeyOpensItsMount
  ListedKeyIsKnown
  ConnectionsEnd
PROPERTIES
  EveryClientAnswered
