SPECIFICATION Spec
CONSTANTS
    p1 = p1
    p2 = p2
    Ids <- MCIds
    Main = Main
    Free = Free
    Inputs <- MCOne
    Broken <- MCNone
    Limit = 13
    Losable <- MCNone
INVARIANT
    EndFeedReachesChild
