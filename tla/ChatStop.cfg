\* Chat.cfg's instance without faults, for STOP.
SPECIFICATION Spec
CONSTANTS
  MaxSeq = 7
  Prompts <- MCPrompts
  PromptTokens <- MCPromptTokens
  Need <- MCNeed
  Words = {"w"}
  Ends = {"eot"}
  Bos = "bos"
  Nl = "nl"
  Faults = {}
  MaxMessages = 5
  MaxQueue = 2
INVARIANT StopInterrupts
