\* A context of seven positions, at most five messages on screen.
SPECIFICATION FairSpec
CONSTANTS
  MaxSeq = 7
  Prompts <- MCPrompts
  PromptTokens <- MCPromptTokens
  Need <- MCNeed
  Words = {"w"}
  Ends = {"eot"}
  Bos = "bos"
  Nl = "nl"
  Faults = {"pass"}
  MaxMessages = 5
  MaxQueue = 2
INVARIANTS TypeOK CallsOpenSession BusyIsOneTurn ReadsAlone NoStaleStop StopSoon CounterTrue OneBos InSyncUnlessRaced
PROPERTIES KeepsContract TurnsEnd Released
