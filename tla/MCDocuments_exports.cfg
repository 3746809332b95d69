\* A field of a tool with a declared output feeds another tool.
SPECIFICATION Spec
CONSTANTS
    PointerOrder <- Pointers5
    IndexTokens = {"0"}
    Gone = "gone"
    MaxEdges = 4
    MaxFields = 3
    MaxTools = 3
    ToolNames = {"runGraph", "x", "x2", "xArgs", "xInputSchema"}
INVARIANT PythonReadsItsModels
CHECK_DEADLOCK FALSE
