\* The inputs of Algorithms.cfg, among them files with 64-bit integer keys.
SPECIFICATION Spec
CONSTANTS
  Modules <- MCModules
  Launches <- MCLaunches
  Names = {"a", "b", "zz"}
  PushLimit = 8
  MaxGroups = 4
  MaxArgs = 2
  MaxAttempts = 3
  Null = Null
  Vocabs <- MCVocabs
  Texts <- MCTexts
  Configs <- MCConfigs
  Questions <- MCQuestions
  Exp <- MCExp
INVARIANT AnyWidthOpens
CHECK_DEADLOCK FALSE
