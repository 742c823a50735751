SPECIFICATION Spec
CONSTANTS
    api = api
    db = db
    Absent = Absent
    Partial = Partial
    Editions <- MCEditions
    MaxRuns = 2
    MaxFaults = 0
INVARIANT CopiesMounted
