CONSTANTS
    f1 = f1  f2 = f2  x = x  y = y
    Files <- MCFiles
    Contents <- MCContents
    Absent = Absent
    MaxEntries = 2
    Keep = 1
    MaxMishaps = 2
    MishapKinds <- InsideMishaps
SPECIFICATION Spec
PROPERTIES ImplementsAtomicApply
