SPECIFICATION CrowdedSpec
CONSTANT Unbound = Unbound
CONSTANT Digraphs <- TriangleDown
CONSTANT VertexLabels <- MCVertexLabels
CONSTANT EdgeLabels <- MCEdgeLabels
CONSTANT EdgeLabellings <- MCEdgeLabellings
CONSTANT MaxVertices = 4
CONSTANT MaxCalls = 3
CONSTANT Careful = FALSE
INVARIANT EveryEdgeHasALabel
CHECK_DEADLOCK FALSE
