CONSTANTS
    Rounds = 2
    MaxLayers = 3
    MaxComms = 2
    Graphs <- PairedGraphs
SPECIFICATION Spec
INVARIANTS GraphIsTied SignalsAreKept BatchesTakeTurns DataFlowKept
PROPERTY ExecutionsEnd
CHECK_DEADLOCK FALSE
