SPECIFICATION Spec
CONSTANTS
    t1 = t1
    t2 = t2
    l1 = l1
    l2 = l2
    Labels <- MCLabels
    Threads <- MCThreads
    Builds = {TRUE, FALSE}
    MayCrash = TRUE
    MaxData = 4
    PrimeLimit = 0
SYMMETRY MCSymmetry
INVARIANTS
    TypeOK
    IndexesAreExclusive
    StoredIsOnDiskAsserted
    NoStrayFiles
PROPERTIES
    CatalogSurvives
