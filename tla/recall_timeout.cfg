SPECIFICATION ImpatientSpec
CONSTANTS
  Note = {"a", "b", "c"}
  K = 2
  RerankMax = 2
  EntityK = 2
  Worlds <- SomeWorlds
  MaxStoreChanges = 1
PROPERTY TimeoutCapsTheCall
CHECK_DEADLOCK FALSE
