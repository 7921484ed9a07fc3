SPECIFICATION Spec
CONSTANTS
    t1 = t1
    t2 = t2
    l1 = l1
    l2 = l2
    Labels <- MCLabels
    Threads <- MCOneThread
    Builds = {FALSE}
    MayCrash = FALSE
    MaxData = 3
    PrimeLimit = 0
INVARIANT
    StoredIsOnDisk
