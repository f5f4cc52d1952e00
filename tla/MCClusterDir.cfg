SPECIFICATION Spec
CONSTANTS
  Order <- OrderDef
  FactoryOf <- FactoryDef
  SchematicOf <- SchematicDef
  MaxSeconds = 2
  MaxCommands = 2
  Procs = {p1, p2}
  n1 = n1
  n2 = n2
  Dir = Dir
  ConfigFile = ConfigFile
  SopsFile = SopsFile
  Bundle = Bundle
  Legacy = Legacy
  Ignore = Ignore
  Talosconfig = Talosconfig
SYMMETRY ProcsAlike
INVARIANTS
  TypeOK
  BundleKept
  Registered
PROPERTY
  NothingHalfDone
CHECK_DEADLOCK FALSE
