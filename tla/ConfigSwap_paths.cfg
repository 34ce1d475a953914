SPECIFICATION Spec
CONSTANTS
    MaxVersion = 2
    MaxCrashes = 2
INVARIANT CommittedPathsAreReal
