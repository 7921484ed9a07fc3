SPECIFICATION Spec
CONSTANTS
    t1 = t1
    t2 = t2
    main = main
    child = child
    NoThread = NoThread
    Labels <- MCLabels
    Threads <- MCThreads
    Outputs <- MCOutputs
    Early <- MCEarly
    MaxSerial = 3
INVARIANTS
    TypeOK
    ControllerAgrees
    ChildMissesNothing
    SerialIdentifiesLabel
PROPERTIES
    SerialsRise
    GroupsAreAtomic
