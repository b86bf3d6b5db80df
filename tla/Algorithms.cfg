\* Each algorithm on its own small inputs; a computation that has ended stops.
SPECIFICATION Spec
CONSTANTS
  Modules <- MCModules
  Launches <- MCLaunches
  Names = {"a", "b", "zz"}
  PushLimit = 8
  MaxGroups = 4
  MaxArgs = 2
  MaxAttempts = 3
  Null = Null
  Vocabs <- MCVocabs
  Texts <- MCTexts
  Configs <- MCConfigs
  Questions <- MCQuestions
  Exp <- MCExp
INVARIANTS OnlyFailedBuildsLeak LaunchesFit RoundTrips ChainFits AsPlanned FileReadsBack WeightsAgree SamplesExactly
PROPERTIES MergesBest
CHECK_DEADLOCK FALSE
