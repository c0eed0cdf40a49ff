\* Texts beyond the dense range, two processes on one server.
CONSTANTS
  Rows = 2
  Token = {1, 2}
  Eos = {2}
  Prompts <- PromptSet
  Injections <- InjectionSet
  ChunkSizes = {1}
  AmdChunk = 2
  SpecMaxT = 2
  IdxC = 2
  TopK = 1
  Context = 10
  Budgets = {3}
  MaxRefill = 2
  Siblings = {2}
  RenderSteps = 1
  RenderCalls = 2
  Loops = 2
  MaxPos = 13
  MaxProc = 2
SPECIFICATION Spec
INVARIANTS SampledFromOwnText
CHECK_DEADLOCK FALSE
