CONSTANTS
    f1 = f1  f2 = f2  x = x  y = y
    Files <- MCFiles
    Contents <- TwoTexts
    Absent = Absent
    MaxTx = 2
    MaxRevision = 3
    MaxEdits = 1
    MaxMishaps = 1
    MishapKinds <- AllMishaps
SPECIFICATION Spec
SYMMETRY Symmetry
PROPERTIES EditHitsWhatWasRead CommittedMeansApplied CommittedRevisionShowsEdit
