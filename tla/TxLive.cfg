CONSTANTS
    f1 = f1  f2 = f2  x = x  y = y
    Files <- MCFiles
    Contents <- TwoTexts
    Absent = Absent
    MaxTx = 1
    MaxRevision = 4
    MaxEdits = 0
    MaxMishaps = 2
    MishapKinds <- DeathOrLoss
SPECIFICATION FairSpec
PROPERTIES CrashedCommitIsReconciled
