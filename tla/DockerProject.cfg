SPECIFICATION Spec
CONSTANTS
    Editions <- MCEditions
    Environments <- MCEnvironments
    Shas = {"a1", "b2"}
    Dirs = {"here", "lib"}
    MaxChanges = 2
    Nothing = Nothing
    Accounts <- MCAccounts
    FirstPage = "p1"
    NoPage = NoPage
    Malformed = Malformed
    MaxPages = 3
INVARIANTS PipelineTypeOK RenderedProject DeployedAsResolved TableComplete
