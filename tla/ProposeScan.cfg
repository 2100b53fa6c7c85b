SPECIFICATION FairSpec
CONSTANTS
    Symbols = {1, 2, 3}
    Paths = {4}
    Aliases = {1, 2, 3}
    Banned = {3}
    Spelling <- MCSpelling
    Batches <- MCBatches
    Chunks <- MCChunks
    Jobs = 2
    Attempts = 2
    Answers <- MCAnswers
    MaxRuns = 2
    MaxReviews = 1
    MaxFaults = 1
INVARIANTS
    OnePendingPerTarget
    DecisionsAreKept
    AliasesStayDistinct
    NoAnswerIsLost
PROPERTY ScanEnds
