SPECIFICATION MCSpec
CONSTANTS
  None = None
  SkipSelf = TRUE
  Words = {1, 2, 3}
  Names = {1, 2, 3, drop}
  BuiltinNames = {drop}
  Drop = drop
  Parts = {"integers"}
  AllWords = {1, 2, 3}
  Types = {1, 2, 3}
  Labels = {"f", "g"}
  Overrides <- MCOverrides
  Mentionable <- MCMentions
  Layouts <- MCLayouts
  Shapes = {"notOfSize"}
  Bodies <- MCBodiesNoLoopingArm
  MaxTurns = 2
  Decls <- MCDecls
  MaxNode = 5
INVARIANT RegisterHoldsValue
CHECK_DEADLOCK FALSE
