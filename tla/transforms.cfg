CONSTANTS
    Plain <- Opaque
    Values <- AnyValues
    Nesting <- Depth
    MaxNesting = 2
    Inputs <- AnyInputs
    Lists <- UpToTwo
SPECIFICATION Spec
INVARIANTS
    TypeOK
    EntriesIndependent
PROPERTIES
    ExpansionTakesLast
CHECK_DEADLOCK FALSE
