CONSTANTS
    Workers = {w1, w2}
    Main = main
    Capacity = 1
    MaxFds = 4
    MaxAddresses = 2
    MaxRequests = 3
    Hanging = {0}
SPECIFICATION Spec
INVARIANTS TypeOK NoForeignDescriptor OnlyOneOriginLeaks
PROPERTY EveryClientClosed
