SPECIFICATION Spec
CONSTANTS
    Workers = {w1, w2, w3}
    Capacity = 2
    MaxRequests = 7
    Hanging = {3, 5}
INVARIANTS
    TypeOK
    NoWaitingRequestOverwritten
    TakeFindsRequest
    ServedByOneWorker
PROPERTIES
    ImplementsQueue
    AcceptedIsServed
