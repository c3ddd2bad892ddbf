SPECIFICATION MCSpec
CONSTANTS
  None = None
  Names = {a, b}
  PolyNames = {a, b}
  Effects <- MCEffects
  MaxStack = 3
  MaxDepth = 1
  MaxArms = 2
  MaxMade = 2
  Parts = {"linear", "poly", "closures"}
  MaxNames = 3
  MaxSlots = 1
  MaxTerms = 4
  MaxParameters = 2
  MaxIds = 4
  Literals <- MCLiterals
  Nothing = Nothing
  ClosureShapes = {}
  Inputs <- MCInputs
  Callees <- MCCallees
  PolyStack = 2
  PolyNested = 1
  PolyTerms = 6
  Shapes = {}
SYMMETRY NameSymmetry
INVARIANTS NoUseAfterMove NoLeak UniqueHolder JoinTotal LinearOnce ReferencesSound CapturesIntact NothingEscapes
PROPERTY KeepsContract
CHECK_DEADLOCK FALSE
