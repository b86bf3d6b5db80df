\* A cache of four positions, one global layer and one that sees two.
SPECIFICATION Spec
CONSTANTS
  MaxSeq = 4
  Layers <- MCLayers
  Window <- MCWindow
  Tokens <- MCTokens
  Ends = {"end"}
  Prompts <- MCPrompts
  Faults = {"pass"}
  None = None
INVARIANTS TypeOK SamplesWholeContext CutOnlyWhenFull
PROPERTIES KeepsContract
