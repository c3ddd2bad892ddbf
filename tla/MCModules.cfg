CONSTANTS
  None = None
  Unread = Unread
  Nowhere = Nowhere
  SkipSelf = FALSE
  Files <- MCFiles
  Pkgs <- MCPkgs
  Trees <- MCTrees
  Parts = {"closure", "names", "instances"}
  M = 3
  Kinds = {"no", "qualified", "selective", "wildcard"}
  Decls = {"nothing", "word", "type"}
  Shapes = {}
  Plain <- GenericWords
  Bases = {"a"}
  MaxDepth = 2
  Calls <- GenericCalls
  MaxCalls = 2
  Inlines = {"v"}
  Impls <- Registries
  Asks <- Mains
  MaxAsks = 2
  Slots = {}
SPECIFICATION MCSpec
INVARIANTS
  FilesOnce AcceptedAcyclic AuditIsComplete PrivateStaysInside LawfulImports
  OriginDeclares ReExportGated TypeAndTermAgree OneMeaning
  Exact Lowerable BoundsHold TypesFromPool
PROPERTY AllSettles
CHECK_DEADLOCK FALSE
