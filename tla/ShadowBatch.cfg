\* A batch of shadow comparisons, one command of which may get lost.
SPECIFICATION BatchSpec
CONSTANTS
    Batches <- MCBatches
    MaxLostCommands = 1
INVARIANTS TargetsStartAlike FixturesComeBack ArtifactsAreOwn
PROPERTY BatchEnds
\* A batch ends.
CHECK_DEADLOCK FALSE
