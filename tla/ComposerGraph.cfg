SPECIFICATION Spec
CONSTANTS
    Ops = {"make", "turn"}
    Inputs <- MCInputs
    Outputs <- MCOutputs
    Names = {"make", "renamed"}
    Documents <- MCDocuments
    NoGraph = NoGraph
    HistoryLimit = 2
    MaxSuffix = 2
    MaxEdits = 3
INVARIANTS
    GraphOK
    

    
\* The edits are bounded, so the system may come to rest.
CHECK_DEADLOCK FALSE
