CONSTANTS
  N = 3
  Statics = {s}
  MaxCalls = 3
  None = None
  Nothing = Nothing
  Parts = {"globals", "borrows"}
  Names = {n1, n2}
  Fields = {f, g}
  Effects <- OneOrPair
  MaxStack = 3
  MaxHeld = 4
  MaxDepth = 1
  ArmTerms = 2
  MaxIds = 3
  Terms = {"make", "shuffle", "project"}
  Shapes = {"projection"}
SPECIFICATION MCSpec
SYMMETRY Sym
INVARIANTS
  PassesSuffice InferredClosed NothingInvented DeclaredCoversExecution
  NoDangling Exclusive NoSharedMutation
CHECK_DEADLOCK FALSE
