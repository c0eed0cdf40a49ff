SPECIFICATION FairSpec
CONSTANTS
  NL = 2
  NEXP = 4
  TOPK = 2
  SlotChoices <- MCSlots
  MaxTok = 2
  MayFail = TRUE
CHECK_DEADLOCK FALSE
INVARIANTS ReadsOwnExpert MappedIsThere
PROPERTIES TokenEnds
