SPECIFICATION Spec
CONSTANTS
    Requests = {1, 2}
    Tasks = {1}
    Keys = {1, 2, 3, 4}
    Payloads <- MCPayloads
    NoPayload = NoPayload
    MaxGenerations = 2
    MaxDowns = 2
INVARIANTS
    RejectedIsNotDone
CHECK_DEADLOCK FALSE
