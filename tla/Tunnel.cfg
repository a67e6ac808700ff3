CONSTANTS
    MAXLINE = 2
    Window = 2
    MaxEarly = 1
    MaxBytes = 3
SPECIFICATION Spec
INVARIANTS TypeOK NothingLostInside
PROPERTIES TunnelEnds ServerServed
