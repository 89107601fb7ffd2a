CONSTANTS
  kMaxModules = 2
  Names = {"A", "B", "C"}
  Aliases = {}
  HostModules = {"H"}
  Addresses = {1, 2, 3}
  Null = Null
  NoModule = NoModule
  kMaxLinearMemory = 4
  kMaxTable = 2
  kMaxCalls = 2
  kMaxImportChain = 4
  kMaxJumpTables = 2
  CarefulHost = FALSE
  Binaries <- CoreBinaries
SPECIFICATION Spec
INVARIANTS PointersFresh OkMeansInstantiated
