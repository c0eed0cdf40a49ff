\* Every text stays in the dense range of the indexer; two processes, every chunk body.
CONSTANTS
  Rows = 2
  Token = {1, 2}
  Eos = {2}
  Prompts <- PromptSet
  Injections <- InjectionSet
  ChunkSizes = {1, 3}
  AmdChunk = 2
  SpecMaxT = 2
  IdxC = 2
  TopK = 9
  Context = 10
  Budgets = {3}
  MaxRefill = 2
  Siblings = {2}
  RenderSteps = 1
  RenderCalls = 2
  Loops = 2
  MaxPos = 13
  MaxProc = 2
SPECIFICATION Spec
INVARIANTS TypeOK SampledFromOwnText ParentResident
CHECK_DEADLOCK FALSE
