CONSTANTS
    f1 = f1  f2 = f2  own = own  pub = pub
    Files <- MCFiles
    Contents <- MCContents
    Public <- MCPublic
    Absent = Absent
    MaxTicks = 1
    MaxMishaps = 2
    MishapKinds <- StoreMishaps
SPECIFICATION Spec
SYMMETRY Symmetry
INVARIANTS AcceptedMirrorIsCurrent FastPathIsSound NoEditIsLost ForcedSyncConverges
PROPERTIES SweepSparesFiles
