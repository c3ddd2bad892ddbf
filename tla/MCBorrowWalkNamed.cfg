CONSTANTS
  N = 3
  Statics = {s}
  MaxCalls = 3
  None = None
  Nothing = Nothing
  Parts = {"borrows"}
  Names = {n1}
  Fields = {f}
  Effects <- NoInputs
  MaxStack = 2
  MaxHeld = 4
  MaxDepth = 0
  ArmTerms = 2
  MaxIds = 6
  Terms = {"make", "shuffle", "project"}
  Shapes = {"projection", "projectionNamed"}
SPECIFICATION MCSpec
SYMMETRY Sym
INVARIANTS NoDangling
CHECK_DEADLOCK FALSE
