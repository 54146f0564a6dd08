SPECIFICATION Spec
CONSTANT Unbound = Unbound
CONSTANT Digraphs <- MCDigraphs
CONSTANT VertexLabels <- MCVertexLabels
CONSTANT EdgeLabels <- MCEdgeLabels
CONSTANT EdgeLabellings <- MCEdgeLabellings
CONSTANT MaxVertices = 4
CONSTANT MaxCalls = 3
CONSTANT Careful = TRUE
INVARIANT LabelsFit
PROPERTY LabelsKept
CHECK_DEADLOCK FALSE
