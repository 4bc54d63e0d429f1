SPECIFICATION Spec
CONSTANTS
  Topics = {t1, t2}
  AskedTypes = {"IMAGE", "FLOAT"}
  Ids = {0, 1, 2}
  NotFound = NotFound
  MaxNodes = 3
  MaxInits = 1
INVARIANTS TypeOK ListsAreChains IdsArePlaces
PROPERTY ImplementsRegistry
