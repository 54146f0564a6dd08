SPECIFICATION Spec
CONSTANT Unbound = Unbound
CONSTANT Digraphs <- LoopFirst
CONSTANT VertexLabels <- MCVertexLabels
CONSTANT EdgeLabels <- MCEdgeLabels
CONSTANT EdgeLabellings <- MCEdgeLabellings
CONSTANT MaxVertices = 4
CONSTANT MaxCalls = 1
CONSTANT Careful = FALSE
PROPERTY LoopsTakeTheirLabels
CHECK_DEADLOCK FALSE
