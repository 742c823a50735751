--------------------------- MODULE MCHelmDeployer ---------------------------
(* One small project and the edits a developer makes to it between runs. *)
EXTENDS HelmDeployer, TLC

CONSTANTS api, db, job, ngrok

Chain == (api :> {db}) @@ (db :> {})
Fan == (api :> {db, job}) @@ (db :> {}) @@ (job :> {})
Cycle == (api :> {db}) @@ (db :> {api})

Project(deps, skip, publishes, remove) ==
    [deps |-> deps, skip |-> skip, publishes |-> publishes, removeNamespace |-> remove]

MCProjects == {
    Project(Fan, {job}, TRUE, TRUE),
    Project(Chain, {db}, FALSE, FALSE),
    Project(Cycle, {}, FALSE, FALSE) }

MCGraphs == {p.deps : p \in MCProjects}
=============================================================================
