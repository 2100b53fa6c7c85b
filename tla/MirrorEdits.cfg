CONSTANTS
    f1 = f1  f2 = f2  own = own  pub = pub
    Files <- MCFiles
    Contents <- MCContents
    Public <- MCPublic
    Absent = Absent
    MaxTicks = 2
    MaxMishaps = 1
    MishapKinds <- EditMishaps
SPECIFICATION Spec
SYMMETRY Symmetry
PROPERTIES EditLandsOnItsBase
