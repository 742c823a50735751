SPECIFICATION Spec
CONSTANTS
    api = api
    db = db
    Absent = Absent
    Partial = Partial
    Editions <- MCEditions
    MaxRuns = 3
    MaxFaults = 2
INVARIANTS TypeOK DeployDelivers CredentialsRemoved DestroyDelivers
PROPERTIES MountsWholeCopies  InterruptEndsRun
