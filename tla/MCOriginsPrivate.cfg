CONSTANTS
  Nowhere = Nowhere
  M = 3
  Kinds = {"no", "qualified", "selective", "wildcard"}
  Decls = {"nothing", "word", "type"}
  Shapes = {"privateScan"}
SPECIFICATION NamesSpec
INVARIANTS ReExportGated
CHECK_DEADLOCK FALSE
