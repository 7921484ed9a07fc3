SPECIFICATION FairSpec
CONSTANTS
    d1 = d1
    d2 = d2
    data = data
    feeder = feeder
    closer = closer
    destroyer = destroyer
    Nobody = Nobody
    Direct <- MCOne
    Notifiers <- MCData
    DataNotifier = data
    Feeder = feeder
    Closer = closer
    Destroyer = destroyer
    Failures <- MCAnyFailure
    MaxItems = 2
CHECK_DEADLOCK FALSE
INVARIANTS
    TypeOK
    AcceptedMessagesSurvive
    WrittenInOrder
    NothingIssuedIsLost
    NoUseAfterDelete
    MutualExclusion
PROPERTIES
    MessagesGetOut
    DestructorReturns
