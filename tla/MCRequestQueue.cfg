SPECIFICATION FairSpec
CONSTANTS
    Requests = {1, 2}
    Tasks = {1}
    Keys = {1, 2, 3, 4}
    Payloads <- MCPayloads
    NoPayload = NoPayload
    MaxGenerations = 2
    MaxDowns = 2
INVARIANTS
    QueueTypeOK
    NoRequestLost
    ExecutedOnce
    OrderKept
PROPERTIES
    RequestsAnswered
    ImplementsRequestContract
CHECK_DEADLOCK FALSE
