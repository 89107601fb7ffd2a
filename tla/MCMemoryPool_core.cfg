SPECIFICATION Spec
CONSTANTS
  Word = 128
  Align = 2
  Header = 4
  Capacities = {2, 24, 32}
  Requests = {0, 1, 4, 5, 10, 126}
  Callers = {c1, c2}
  Exclusive = TRUE
SYMMETRY CallerSymmetry
INVARIANTS
  BlocksTile
  FreeListExact
  PayloadFits
  NoFalseExhaustion
  Accounting
PROPERTIES
  PoolIsAllocator
