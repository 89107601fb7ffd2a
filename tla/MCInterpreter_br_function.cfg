SPECIFICATION MCSpec
CONSTANTS
  kWasmValidationMaxLabelDepth = 5
  kWasmValidationMaxStack = 8
  call_stack_size = 3
  stack_size = 9
  labels_pool_size = 3
  Values = {0, 1, 2, 3}
  Instructions <- MCInstructions
  table <- MCTable
  MaxLength = 3
  MaxControlLength = 3
  Features = {"br_function"}
INVARIANT FetchInBody
