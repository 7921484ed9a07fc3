SPECIFICATION Spec
CONSTANTS
    p1 = p1
    p2 = p2
    Ids <- MCIds
    Main = Main
    Free = Free
    Commands <- MCAll
    ChildCommands <- MCRun
    Notify = TRUE
    Fails <- MCAnyFailure
    MaxUses = 2
    MaxObjects = 3
SYMMETRY MCSymmetry
INVARIANTS
    TypeOK
    ExitLeavesNothing
    DoneOnce
    NoOrphans
    ChildMissesNoProcess
