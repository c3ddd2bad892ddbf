SPECIFICATION MCSpec
CONSTANTS
  None = None
  SkipSelf = TRUE
  Words = {1, 2, 3}
  Names = {1, 2, 3, drop}
  BuiltinNames = {drop}
  Drop = drop
  Parts = {"tail", "graph", "splice", "drops", "loops", "counters", "integers"}
  AllWords = {1, 2, 3}
  Types = {1, 2, 3}
  Labels = {"f", "g"}
  Overrides <- MCOverrides
  Mentionable <- MCMentions
  Layouts <- MCLayouts
  Shapes = {}
  Bodies <- MCBodiesNoLoopingArm
  MaxTurns = 2
  Decls <- MCDecls
  MaxNode = 5
INVARIANTS NoFabricatedCycle NoMutualTailCalls NoDestructorReenters RefusedForACircle
  DisposedOnce DisposedExactlyOnce ConstantStack CarriedAtOnce
  RightInstance RegisterHoldsValue
CHECK_DEADLOCK FALSE
