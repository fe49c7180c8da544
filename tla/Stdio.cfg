SPECIFICATION FairSpec
CONSTANTS
    Requests <- AllRequests
    Messages <- AllMessages
    MaxMessages = 3
INVARIANTS AnsweredInOrder CutIsNoticed
PROPERTIES EveryFrameAnswered
