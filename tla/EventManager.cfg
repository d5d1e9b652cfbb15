CONSTANTS
    Keys = {compute, comm}
    MaxOps = 6
SPECIFICATION ManagerSpec
INVARIANTS PairedInOrder BoundWhenPushed
CHECK_DEADLOCK FALSE
