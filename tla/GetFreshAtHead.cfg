CONSTANTS
    Workers = {w1, w2}
    Keys = {k1}
    Tagged = {k1}
    Lifetimes = {1}
    BodyEnds = {TRUE}
    MaxVersion = 2
    MaxTime = 2
    MaxSetBack = 1
SPECIFICATION Spec
INVARIANT FreshAtHead
