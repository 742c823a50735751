SPECIFICATION Spec
CONSTANTS
    web = web
    api = api
    db = db
    NoDir = NoDir
    Service = {web, api, db}
    Trees <- MCTrees
INVARIANTS IncludeTypeOK OwnerIsFirstDeclarer ReportsFirstProblem
