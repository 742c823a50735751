SPECIFICATION HelmSpec
CONSTANTS
    api = api
    db = db
    job = job
    ngrok = ngrok
    NgrokRelease = ngrok
    NoNode = NoNode
    Projects <- MCProjects
    Graphs <- MCGraphs
    MaxConcurrency = 5
    MaxRuns = 3
    MaxFaults = 2
INVARIANTS HelmTypeOK DependenciesInPlace DeployDelivers DestroyDelivers FailureHasCause
PROPERTIES DryRunChangesNothing NamespaceLast RunEnds
