SPECIFICATION Spec
CONSTANTS
    p1 = p1
    p2 = p2
    Ids <- MCIds
    Main = Main
    Free = Free
    Commands <- MCRunFeed
    ChildCommands <- MCNoCommands
    Notify = FALSE
    Fails <- MCNoFailures
    MaxUses = 1
    MaxObjects = 2
INVARIANT
    FeedUsesLiveOutput
