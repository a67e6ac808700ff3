CONSTANTS
    Workers = {w1, w2, w3}
    Main = main
    MaxTime = 2
    MaxLines = 4
SPECIFICATION Spec
INVARIANTS TypeOK OnlyMainSpoils
PROPERTIES LogInOrder WritesReturn
