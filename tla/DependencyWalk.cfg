SPECIFICATION Spec
CONSTANTS
    a = a
    b = b
    c = c
    NoNode = NoNode
    Graphs <- MCGraphs
    MaxConcurrency = 2
INVARIANTS TypeOK CompleteWhenSuccessful ConcurrencyBound
PROPERTIES CancelStopsSuccessors OrderSpec Terminates
