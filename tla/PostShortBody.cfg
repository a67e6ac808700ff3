CONSTANTS
    MAXLINE = 4
    SIZE_MAX = 7
    StackAbove = 1
    Headers <- MCHeaders
    Lengths = {0, 2, 3}
    StackRoom = 2
    RequestRoom = 10
SPECIFICATION Spec
INVARIANT ShortBodyRefused
