\* Texts beyond the dense range on a server that has just booted; chunks avoid the
\* batched body, which keeps no pools.
CONSTANTS
  Rows = 2
  Token = {1, 2}
  Eos = {2}
  Prompts <- PromptSet
  Injections <- InjectionSet
  ChunkSizes = {1, 5}
  AmdChunk = 2
  SpecMaxT = 2
  IdxC = 2
  TopK = 1
  Context = 12
  Budgets = {1, 3}
  MaxRefill = 2
  Siblings = {2}
  RenderSteps = 1
  RenderCalls = 2
  Loops = 2
  MaxPos = 15
  MaxProc = 1
SPECIFICATION Spec
INVARIANTS SampledFromOwnText AmdPoolsHold SparkPoolsHold
CHECK_DEADLOCK FALSE
