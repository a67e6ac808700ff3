CONSTANTS
    Workers = {w1, w2, w3}
    Keys = {k1, k2}
    Nodes = {n1, n2}
    head = head
    tail = tail
    Sizes = {1, 2}
    ValidTimes = {1}
    MAX_OBJECT_SIZE = 1
    MAX_CACHE_SIZE = 4
    MaxTime = 1
    MaxCalls = 3
SPECIFICATION Spec
INVARIANTS TypeOK WriterIsAlone NoFreedNodeReached ListIntact
PROPERTIES ImplementsResponseCache CallsReturn
