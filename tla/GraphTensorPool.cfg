SPECIFICATION Spec
CONSTANTS
  MCTensors = {t1, t2, t3}
  MCNodeCount = 4
  Tensors = {t1, t2, t3}
  Descs = {"d1", "d2"}
  Addresses = {a1, a2, a3, a4}
  NodeCount = 4
  Graphs <- WrittenFirstGraphs
  MaxCalls = 2
  Null = Null
SYMMETRY Symmetric
INVARIANTS InputsIntact
PROPERTIES ImplementsBufferAssignment
CHECK_DEADLOCK FALSE
