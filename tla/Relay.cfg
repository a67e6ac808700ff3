CONSTANTS
    MAXLINE = 4
    SIZE_MAX = 7
    StackAbove = 1
    Headers <- MCHeaders
    Lengths = {0, 4, 5}
    StackRoom = 4
    RequestRoom = 10
SPECIFICATION Spec
INVARIANTS TypeOK NothingLostInRio PassedOnWhole StoredIsRelayed OnlyWholeHeaderForwarded
PROPERTIES SenderGoneEnds EndsWithMessage
