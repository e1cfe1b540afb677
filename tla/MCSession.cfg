\* Six requests at most: an authentication and three more.
SPECIFICATION HFairSpec
CONSTANTS
    Header = 2
    Limit = 2
    UploadSizes <- MCUploadSizes
    JunkSizes <- MCJunkSizes
    MaxRequests = 6
    MaxRetries = 2
INVARIANTS TypeOK HandledInOrder OneLink
PROPERTIES AnswerIsCurrent StoredFilesFit WaitEnds HandlerEnds ConnectEnds
CHECK_DEADLOCK FALSE
