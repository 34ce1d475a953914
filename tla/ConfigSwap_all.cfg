SPECIFICATION FairSpec
CONSTANTS
    MaxVersion = 2
    MaxCrashes = 2
INVARIANT SurvivingCopy
INVARIANT OneSuffixPerCrash
INVARIANT ReadyBetweenRuns
PROPERTY TakesOver
PROPERTY EventuallyInstalled
