CONSTANTS
  None = None
  Unread = Unread
  Nowhere = Nowhere
  SkipSelf = FALSE
  Files <- MCFiles
  Pkgs <- MCPkgs
  Trees <- MCTrees
  Parts = {"instances"}
  M = 3
  Kinds = {"no", "qualified", "selective", "wildcard"}
  Decls = {"nothing", "word", "type"}
  Shapes = {}
  Plain <- GenericWords
  Bases = {"a"}
  MaxDepth = 2
  Calls <- GenericCalls
  MaxCalls = 2
  Inlines = {"v"}
  Impls <- Registries
  Asks <- Mains
  MaxAsks = 2
  Slots = {"built"}
SPECIFICATION MCSpec
INVARIANT TypesFromPool
CHECK_DEADLOCK FALSE
