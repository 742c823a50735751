SPECIFICATION HelmSpec
CONSTANTS
    api = api
    db = db
    job = job
    ngrok = ngrok
    NgrokRelease = ngrok
    NoNode = NoNode
    Projects <- MCProjects
    Graphs <- MCGraphs
    MaxConcurrency = 5
    MaxRuns = 2
    MaxFaults = 1
PROPERTY NothingDependsOnUninstalled
