SPECIFICATION Spec
CONSTANTS
    Ranks = {0, 1, 2}
    RankRoot = 0
    Segments = {s1, s2, s3}
    None = None
    Calls = 2
    MaxRestarts = 1
    MaxKinds = 2
    Faults = {"lookup", "attach", "rootInfo", "barrier", "init"}
INVARIANTS InfoIsOfThisRun SegmentIsRemoved
PROPERTIES BarrierMeansExchanged CallsReturn
CHECK_DEADLOCK FALSE
