SPECIFICATION Spec
CONSTANTS
  Dangling = Dangling
  NULL = NULL
  NUM_ROWS = 1
  NUM_COLS = 1
  Addresses = {a1, a2, a3, a4, a5, a6}
  MaxObjects = 6
SYMMETRY AnyAddress
INVARIANTS
  ObjectsDeleted
