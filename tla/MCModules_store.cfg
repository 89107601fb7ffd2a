CONSTANTS
  kMaxModules = 3
  Names = {"A", "B", "C", "H"}
  Aliases = {"A"}
  HostModules = {"H"}
  Addresses = {1, 2, 3, 4, 5, 6}
  Null = Null
  NoModule = NoModule
  kMaxLinearMemory = 4
  kMaxTable = 2
  kMaxCalls = 2
  kMaxImportChain = 4
  kMaxJumpTables = 3
  CarefulHost = TRUE
  Binaries <- StoreBinaries
SPECIFICATION Spec
INVARIANTS OneOwner UnloadFrees  LinkedAsDeclared
PROPERTIES StoreRefined
