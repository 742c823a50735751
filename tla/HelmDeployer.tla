---------------------------- MODULE HelmDeployer ----------------------------
(***************************************************************************)
(* The Kubernetes deployer: successive runs of minienv deploy and minienv   *)
(* destroy against one namespace. Every compose service is a Helm release   *)
(* of its own, brought up or torn down by DependencyWalk's visitors, and    *)
(* one more release carries the ngrok agent. The cluster (namespace and     *)
(* release records) outlives a run, so what a failed, interrupted or killed *)
(* run leaves behind is what the next one finds.                            *)
(*                                                                          *)
(* Helm's own behaviour is external, modelled from the options helm.go      *)
(* sets: an atomic install that fails uninstalls itself, an atomic upgrade  *)
(* that fails rolls back, and either refuses a release whose last operation *)
(* never ended.                                                             *)
(***************************************************************************)
EXTENDS DependencyWalk

CONSTANTS
    Projects,      \* [deps, skip, publishes, removeNamespace] of one compose file each
    NgrokRelease,  \* ngrokReleaseName
    MaxRuns,       \* bound: runs of the CLI
    MaxFaults      \* bound: API failures, kills, interrupts and racing creates

ASSUME ProjectsAssumption ==
    \A p \in Projects : p.deps \in Graphs /\ p.skip \subseteq DOMAIN p.deps

ASSUME HelmBoundsAssumption == MaxRuns \in Nat /\ MaxFaults \in Nat

VARIABLES
    pc,         \* the run's step; "ok", "err" and "killed" end it
    run,        \* number of runs started; stands for the configuration a run applies
    cmd,        \* "deploy" or "destroy"
    project,    \* what Init resolved for this run
    dryRun,
    stage,      \* stage[n]: how far the Helm operation on release n has come
    namespace,  \* "absent", "active" or "terminating"
    release,    \* release[n]: the last revision's status, and the run whose values it has
    faults,     \* faults so far
    faulted,    \* a fault happened in this run
    clean       \* the run began with no operation left unfinished on its releases

clusterVars == <<namespace, release>>
runVars == <<run, cmd, project, dryRun, clean>>
vars == <<walkVars, pc, runVars, stage, clusterVars, faults, faulted>>

Service == UNION {DOMAIN p.deps : p \in Projects}
Release == Service \union {NgrokRelease}
NoRelease == [status |-> "none", run |-> 0]

Ended == pc \in {"idle", "ok", "err", "killed"}
Stuck(n) == release[n].status \in {"pending", "uninstalling"}
Exists(n) == release[n] # NoRelease

\* A fault of the world, charged to the bound and to this run.
Fault == faults < MaxFaults /\ faults' = faults + 1 /\ faulted' = TRUE
NoFault == UNCHANGED <<faults, faulted>>

-----------------------------------------------------------------------------
Init ==
    /\ WalkInit
    /\ pc = "idle" /\ run = 0 /\ cmd = "deploy" /\ dryRun = FALSE /\ clean = TRUE
    /\ project \in Projects
    /\ stage = [n \in Release |-> "none"]
    /\ namespace \in {"absent", "active"}
    /\ release = [n \in Release |-> NoRelease]
    /\ faults = 0 /\ faulted = FALSE

\* The walk's variables between two walks.
LeaveWalk ==
    /\ phase' = "idle"
    /\ graph' = [s \in {} |-> {}]
    /\ direction' = "forward"
    /\ status' = [s \in {} |-> "unvisited"]
    /\ failed' = {} /\ finished' = {} /\ reported' = {}
    /\ todo' = [d \in Dispatcher |-> {}]
    /\ held' = [d \in Dispatcher |-> NoNode]
    /\ reading' = FALSE

\* A run of the CLI: core.Deploy or core.Destroy, with Init resolving the project.
StartRun(c, p, dry) ==
    /\ Ended
    /\ run < MaxRuns
    /\ run' = run + 1
    /\ cmd' = c /\ project' = p /\ dryRun' = dry
    /\ pc' = IF c = "deploy" THEN "build" ELSE "graph"
    /\ clean' = /\ namespace # "terminating"
                /\ \A n \in DOMAIN p.deps \union {NgrokRelease} : ~Stuck(n)
    /\ faulted' = FALSE
    /\ LeaveWalk
    /\ interrupted' = FALSE /\ cancelled' = FALSE
    /\ UNCHANGED <<stage, clusterVars, faults>>

Goto(next) == pc' = next /\ UNCHANGED <<walkVars, runVars, stage>>

\* buildAndPushServiceImages: nothing on the cluster changes, in a dry run or not. With
\* nothing to build it succeeds under an interrupt too.
BuildImages ==
    /\ pc = "build"
    /\ UNCHANGED clusterVars
    /\ \/ Goto("lookupNamespace") /\ NoFault
       \/ Goto("err") /\ (Fault \/ (interrupted /\ NoFault))

\* Mutant of LookupNamespace: it does not know of dry runs.
LookupNamespaceInDryRun ==
    /\ pc = "lookupNamespace"
    /\ UNCHANGED clusterVars
    /\ \/ ~interrupted /\ NoFault
          /\ Goto(IF namespace = "absent" THEN "createNamespace" ELSE "graph")
       \/ Goto("err") /\ (Fault \/ (interrupted /\ NoFault))

LookupNamespace ==
    /\ pc = "lookupNamespace"
    /\ UNCHANGED clusterVars
    /\ \/ dryRun /\ Goto("graph") /\ NoFault
       \/ /\ ~dryRun /\ ~interrupted
          /\ Goto(IF namespace = "absent" THEN "createNamespace" ELSE "graph") /\ NoFault
       \/ ~dryRun /\ Goto("err") /\ (Fault \/ (interrupted /\ NoFault))

\* The create the lookup decided on: by now another run may have done it. A call that
\* returns an error may have created the namespace all the same; under a context that is
\* done nothing is sent.
CreateNamespace ==
    /\ pc = "createNamespace"
    /\ UNCHANGED release
    /\ \/ /\ ~interrupted /\ namespace = "absent"
          /\ namespace' = "active" /\ Goto("graph") /\ NoFault
       \/ /\ namespace # "absent" /\ UNCHANGED namespace /\ Goto("err") /\ NoFault
       \/ /\ Goto("err")
          /\ \/ UNCHANGED namespace /\ (Fault \/ (interrupted /\ NoFault))
             \/ ~interrupted /\ namespace = "absent" /\ namespace' = "active" /\ Fault

Walk ==
    /\ pc = "graph"
    /\ BeginWalk(project.deps, IF cmd = "deploy" THEN "forward" ELSE "reverse")
    /\ pc' = "walk"
    /\ UNCHANGED <<runVars, stage, clusterVars>> /\ NoFault

StepWalk ==
    /\ pc = "walk"
    /\ WalkStep
    /\ UNCHANGED <<pc, runVars, stage, clusterVars>> /\ NoFault

\* Any visitor's error, or a cycle, ends the run; otherwise ngrok's release is next.
WalkReturned ==
    /\ pc = "walk"
    /\ phase \in {"rejected", "returned"}
    /\ Goto(IF WalkSucceeded THEN "ngrok" ELSE "err")
    /\ UNCHANGED clusterVars /\ NoFault
-----------------------------------------------------------------------------
(* The Helm operations, on a service's release inside its visit or on      *)
(* ngrok's after the walk.                                                 *)

Visiting(n) == pc = "walk" /\ phase = "walking" /\ n \in Node /\ status[n] = "running"

At(n, st) ==
    /\ stage[n] = st
    /\ Visiting(n) \/ (pc = "ngrok" /\ n = NgrokRelease)

\* Mutants: ngrok's release is installed though nothing is published; a failure to
\* uninstall it is ignored.
DeploysAlways(n) == cmd = "deploy"
AfterNgrokAnyway(ok) ==
    IF cmd = "destroy" THEN "removeNamespace" ELSE IF ok THEN "ok" ELSE "err"

\* Whether the run's work on release n is an upgrade or install, or an uninstall.
Deploys(n) == cmd = "deploy" /\ (pc = "walk" \/ project.publishes)

AfterNgrok(ok) == IF ~ok THEN "err" ELSE IF cmd = "deploy" THEN "ok" ELSE "removeNamespace"

\* The operation on n returns to its caller.
Complete(n, ok) ==
    /\ stage' = [stage EXCEPT ![n] = "none"]
    /\ IF pc = "walk" THEN Finish(n, ok) /\ UNCHANGED pc
                      ELSE pc' = AfterNgrok(ok) /\ UNCHANGED walkVars
    /\ UNCHANGED runVars

\* The operation on n goes on.
Proceed(n, st) ==
    /\ stage' = [stage EXCEPT ![n] = st]
    /\ UNCHANGED <<pc, walkVars, runVars>>

SetRelease(n, st, r) ==
    /\ release' = [release EXCEPT ![n] = [status |-> st, run |-> r]]
    /\ UNCHANGED namespace

Remove(n) == release' = [release EXCEPT ![n] = NoRelease] /\ UNCHANGED namespace

\* Mutant of Skipped: a destroy passes skipped services over too.
SkippedAlways(n) == pc = "walk" /\ n \in project.skip

Skipped(n) == pc = "walk" /\ cmd = "deploy" /\ n \in project.skip

\* deployService returns at once for a skipped service, and every Helm operation
\* for a dry run.
PassOver(n) ==
    /\ At(n, "none")
    /\ Skipped(n) \/ dryRun
    /\ Complete(n, TRUE)
    /\ UNCHANGED clusterVars /\ NoFault

\* ChartValues, the timeout or the chart's files are refused before Helm is asked.
RefuseChart(n) ==
    /\ At(n, "none") /\ Deploys(n) /\ ~Skipped(n)
    /\ Complete(n, FALSE)
    /\ UNCHANGED clusterVars /\ Fault

\* serviceReleaseExists: a lookup that fails says the release does not exist.
LookupRelease(n) ==
    /\ At(n, "none") /\ Deploys(n) /\ ~Skipped(n) /\ ~dryRun
    /\ \/ Proceed(n, IF Exists(n) THEN "upgrade" ELSE "install") /\ NoFault
       \/ Exists(n) /\ Proceed(n, "install") /\ Fault
    /\ UNCHANGED clusterVars

\* Helm records a pending release before it creates anything, or refuses: the
\* name is taken, or the namespace takes nothing new.
BeginInstall(n) ==
    /\ At(n, "install")
    /\ IF ~Exists(n) /\ namespace = "active"
       THEN Proceed(n, "installing") /\ SetRelease(n, "pending", run)
       ELSE Complete(n, FALSE) /\ UNCHANGED clusterVars
    /\ NoFault

\* An upgrade needs a last revision no operation is working on.
BeginUpgrade(n) ==
    /\ At(n, "upgrade")
    /\ IF Exists(n) /\ ~Stuck(n) /\ namespace = "active"
       THEN Proceed(n, "upgrading") /\ SetRelease(n, "pending", release[n].run)
       ELSE Complete(n, FALSE) /\ UNCHANGED clusterVars
    /\ NoFault

Applied(n) ==
    /\ At(n, "installing") \/ At(n, "upgrading")
    /\ Complete(n, TRUE)
    /\ SetRelease(n, "deployed", run) /\ NoFault

\* The rollout failed, timed out or saw the context done; Atomic undoes it, which
\* may fail in turn.
Undone(n) ==
    /\ At(n, "installing") \/ At(n, "upgrading")
    /\ Complete(n, FALSE)
    /\ \/ /\ Fault \/ (cancelled /\ NoFault)
          /\ IF stage[n] = "installing" THEN Remove(n)
                                        ELSE SetRelease(n, "deployed", release[n].run)
       \/ Fault /\ SetRelease(n, "failed", release[n].run)

\* Mutant of BeginUninstall: a release that is not there is an error.
BeginUninstallStrict(n) ==
    /\ At(n, "none") /\ ~Deploys(n) /\ ~dryRun
    /\ IF Exists(n)
       THEN Proceed(n, "uninstalling") /\ SetRelease(n, "uninstalling", release[n].run)
       ELSE Complete(n, FALSE) /\ UNCHANGED clusterVars
    /\ NoFault

\* uninstallChart takes no context: an interrupt does not stop it.
BeginUninstall(n) ==
    /\ At(n, "none") /\ ~Deploys(n) /\ ~dryRun
    /\ IF Exists(n)
       THEN Proceed(n, "uninstalling") /\ SetRelease(n, "uninstalling", release[n].run)
       ELSE Complete(n, TRUE) /\ UNCHANGED clusterVars
    /\ NoFault

\* A failed deletion leaves the record; a failed wait for it does not.
EndUninstall(n) ==
    /\ At(n, "uninstalling")
    /\ \/ Complete(n, TRUE) /\ Remove(n) /\ NoFault
       \/ Complete(n, FALSE) /\ (Remove(n) \/ UNCHANGED clusterVars) /\ Fault

\* A deletion that returns an error may have begun all the same.
RemoveNamespace ==
    /\ pc = "removeNamespace"
    /\ UNCHANGED release
    /\ \/ /\ dryRun \/ ~project.removeNamespace \/ (~interrupted /\ namespace = "absent")
          /\ Goto("ok") /\ UNCHANGED namespace /\ NoFault
       \/ /\ ~dryRun /\ project.removeNamespace /\ ~interrupted /\ namespace # "absent"
          /\ Goto("ok") /\ namespace' = "terminating" /\ NoFault
       \/ /\ ~dryRun /\ project.removeNamespace /\ Goto("err")
          /\ \/ UNCHANGED namespace /\ (Fault \/ (interrupted /\ NoFault))
             \/ ~interrupted /\ namespace # "absent" /\ namespace' = "terminating" /\ Fault
-----------------------------------------------------------------------------
(* The world around the run.                                               *)

Signal ==
    /\ ~Ended /\ Interrupt
    /\ faults < MaxFaults /\ faults' = faults + 1
    /\ UNCHANGED <<pc, runVars, stage, clusterVars, faulted>>

\* The process is killed: what Helm recorded as pending stays so.
Kill ==
    /\ ~Ended /\ Fault
    /\ pc' = "killed"
    /\ stage' = [n \in Release |-> "none"]
    /\ LeaveWalk
    /\ UNCHANGED <<runVars, clusterVars, interrupted, cancelled>>

\* The cluster finishes deleting the namespace, and the records kept in it.
NamespaceGone ==
    /\ namespace = "terminating"
    /\ namespace' = "absent"
    /\ release' = [n \in Release |-> NoRelease]
    /\ UNCHANGED <<walkVars, pc, runVars, stage>> /\ NoFault

\* Another minienv, sharing the namespace, creates it first.
OtherCreatesNamespace ==
    /\ pc = "createNamespace" /\ namespace = "absent"
    /\ namespace' = "active"
    /\ Fault
    /\ UNCHANGED <<walkVars, pc, runVars, stage, release>>

-----------------------------------------------------------------------------
Operation(n) ==
    \/ PassOver(n) \/ RefuseChart(n) \/ LookupRelease(n)
    \/ BeginInstall(n) \/ BeginUpgrade(n) \/ Applied(n) \/ Undone(n)
    \/ BeginUninstall(n) \/ EndUninstall(n)

Step ==
    \/ BuildImages \/ LookupNamespace \/ CreateNamespace
    \/ Walk \/ StepWalk \/ WalkReturned
    \/ \E n \in Release : Operation(n)
    \/ RemoveNamespace

NewRun ==
    \E c \in {"deploy", "destroy"}, p \in Projects, dry \in BOOLEAN : StartRun(c, p, dry)

World == Signal \/ Kill \/ NamespaceGone \/ OtherCreatesNamespace

Finished == Ended /\ run = MaxRuns /\ UNCHANGED vars

HelmNext == Step \/ NewRun \/ World \/ Finished

HelmSpec == Init /\ [][HelmNext]_vars /\ WF_vars(Step)

-----------------------------------------------------------------------------
HelmTypeOK ==
    /\ TypeOK
    /\ pc \in {"idle", "build", "lookupNamespace", "createNamespace", "graph", "walk",
               "ngrok", "removeNamespace", "ok", "err", "killed"}
    /\ run \in 0..MaxRuns /\ faults \in 0..MaxFaults
    /\ cmd \in {"deploy", "destroy"} /\ project \in Projects
    /\ dryRun \in BOOLEAN /\ faulted \in BOOLEAN /\ clean \in BOOLEAN
    /\ stage \in [Release -> {"none", "install", "upgrade", "installing", "upgrading",
                              "uninstalling"}]
    /\ namespace \in {"absent", "active", "terminating"}
    /\ release \in [Release -> [status : {"none", "pending", "deployed", "failed",
                                          "uninstalling"}, run : 0..MaxRuns]]

Current(n) == release[n] = [status |-> "deployed", run |-> run]

\* jobs-and-dependencies.md: services go up in depends_on order and come down in
\* reverse. While no visit has failed, a service whose visit has begun finds every
\* release it waits for in place, with this run's values, or gone.
DependenciesInPlace ==
    (pc = "walk" /\ failed = {} /\ ~dryRun) =>
        \A s \in Node : status[s] \in {"running", "visited", "returned"} =>
            \A t \in Predecessors(s) :
                IF cmd = "deploy" THEN t \in project.skip \/ Current(t) ELSE ~Exists(t)

\* A deploy that reports success has the ngrok release exactly when something is
\* published and no operation of its own under way; and if it was not interrupted, it has
\* every service that is not skipped running this run's values. An interrupted one may
\* have visited only some. It holds for projects with no service called ngrok.
DeployDelivers ==
    (pc = "ok" /\ cmd = "deploy" /\ ~dryRun) =>
        /\ IF project.publishes THEN Current(NgrokRelease) ELSE ~Exists(NgrokRelease)
        /\ \A s \in DOMAIN project.deps \ project.skip :
              IF interrupted THEN release[s].run = run => Current(s) ELSE Current(s)

\* A destroy that reports success leaves no agent and, if it was told to remove it, no
\* active namespace; and if it was not interrupted, no release of the project, of services
\* it skips neither, whatever earlier runs left half done.
DestroyDelivers ==
    (pc = "ok" /\ cmd = "destroy" /\ ~dryRun) =>
        /\ ~Exists(NgrokRelease)
        /\ project.removeNamespace => namespace # "active"
        /\ ~interrupted => \A s \in DOMAIN project.deps : ~Exists(s)

\* A dry run changes neither the namespace nor any release, at any of its steps.
DryRunChangesNothing ==
    [][(dryRun /\ <<pc, walkVars, stage>>' # <<pc, walkVars, stage>>)
         => UNCHANGED clusterVars]_vars

\* The namespace is only given up by a run that was told to, after the last of the
\* project's releases is gone from it.
NamespaceLast ==
    [][(namespace' = "terminating" /\ namespace = "active") =>
         /\ cmd = "destroy" /\ project.removeNamespace
         /\ \A n \in DOMAIN project.deps \union {NgrokRelease} : ~Exists(n)]_vars

\* A run fails for a reason: something failed or was interrupted under it, or its
\* graph has a cycle; a deploy also when a killed run left an operation unfinished.
\* So a destroy always clears what stops a deploy, whatever was killed before.
FailureHasCause ==
    (pc = "err") => \/ faulted \/ interrupted \/ HasCycle(project.deps)
                    \/ cmd = "deploy" /\ ~clean

\* A run never hangs: it ends, by itself or killed.
RunEnds == (~Ended) ~> Ended

\* deploy_test.go:297, of the destroy walk: "nothing is uninstalled while something
\* still depends on it".
NothingDependsOnUninstalled ==
    [][\A s \in Node :
        (cmd = "destroy" /\ Exists(s) /\ release'[s] = NoRelease /\ namespace' = namespace)
            => \A t \in Node : s \in graph[t] => ~Exists(t)]_vars
=============================================================================
