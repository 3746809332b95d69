\* Schemas grown by two constructs (one, once they are odd); documents of four
\* nodes, four edges (three when one feeds a field or is a loop) or three tools.
SPECIFICATION DesignSpec
CONSTANTS
    MaxRefHops = 3
    MaxAllOfDepth = 2
    MaxUnionDepth = 2
    MaxFieldDepth = 2
    MaxFields = 8
    MaxDepth = 3
    MaxRefBudget = 6
    MaxZodDepth = 2
    MaxModelDepth = 6
    MaxGrowth = 2
    MaxOddGrowth = 1
    MaxToken = 3
    PointerOrder <- FivePointers
    IndexTokens = {"0"}
    Gone = "gone"
    MaxEdges = 4
    MaxFieldEdges = 3
    MaxTools = 3
    ToolNames = {"runGraph", "x", "x2", "xArgs", "xInputSchema"}
INVARIANTS
    CleanIsAssignable
    ErrorIsReal
    FieldsAddressWhatTheyName
    GeneratedTypesKeepTheCall
    OrdersExactlyTheAcyclic
    ExportAgreesWithTheRun
    NoValueLostSilently
CHECK_DEADLOCK FALSE
