-------------------------- MODULE MCDockerDeployer --------------------------
(* Two services and four states of the project: api copies paths and publishes; *)
(* a second service publishes too; the token rotates; and nothing publishes,    *)
(* db being marked skip with its copy entry and its ngrok block still there.    *)
EXTENDS DockerDeployer, TLC

CONSTANTS api, db

Edition(apiDef, skip, copy, ngrok, token) ==
    [def |-> (api :> apiDef) @@ (db :> 1), skip |-> skip, copy |-> copy, ngrok |-> ngrok,
     token |-> token]

MCEditions == {
    Edition(1, {}, {api}, {api}, 1),
    Edition(1, {}, {api}, {api, db}, 1),
    Edition(1, {}, {api}, {api}, 2),
    Edition(2, {db}, {db}, {db}, 1) }
=============================================================================
