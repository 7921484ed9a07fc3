SPECIFICATION FairSpec
CONSTANTS
    p1 = p1
    p2 = p2
    Ids <- MCIds
    Main = Main
    Free = Free
    Inputs <- MCOne
    Broken <- MCOne
    Limit = 9
    Losable <- MCBoth
INVARIANTS
    OwnersAgree
    NoLeak
    FailureHasCause
PROPERTIES
    StartedWired
    AllEnd
