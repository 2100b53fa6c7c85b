CONSTANTS
    f1 = f1  f2 = f2  x = x  y = y
    Files <- MCFiles
    Contents <- MCContents
    Absent = Absent
    MaxEntries = 1
    Keep = 1
    MaxMishaps = 1
    MishapKinds <- AllMishaps
SPECIFICATION Spec
PROPERTIES RollbackRestores
