SPECIFICATION MCSpec
CONSTANTS
  kWasmValidationMaxLabelDepth = 5
  kWasmValidationMaxStack = 8
  call_stack_size = 3
  stack_size = 9
  labels_pool_size = 3
  Values = {0, 1, 2, 3}
  Instructions <- MCInstructions
  table <- MCTable
  MaxLength = 5
  MaxControlLength = 10
  Features = {}
INVARIANTS
  IndicesChecked
  JumpTablesAscend
  LabelSlices
  
  FetchInBody
  AcceptsValid
PROPERTY RunsWebAssembly
