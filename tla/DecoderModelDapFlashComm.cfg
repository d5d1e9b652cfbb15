CONSTANTS
    Rounds = 1
    MaxLayers = 1
    MaxComms = 1
    Graphs <- FlashCommGraphs
SPECIFICATION Spec
INVARIANT EventsArePaired
CHECK_DEADLOCK FALSE
