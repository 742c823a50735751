# minienv: a TLA+ model of the deployers and of what they deploy

minienv turns a docker compose project into a remote environment: one Helm release per
service on Kubernetes, or a rewritten compose project on a remote Docker host reached over
SSH. This directory models the parts of it in which state outlives a call, steps
interleave, a failure leaves something half done, or a value takes a long way from the
compose file to where it is used. It model-checks them with TLC, and proves with TLAPS the
safety properties of all of them, for every value of the constants.

## The system

| Component (Go package) | State | Operations | Hard behaviour |
|---|---|---|---|
| Command line, core (`internal/command`, `internal/core`) | the signal context | `Deploy`, `Destroy`: `Init`, then the deployer's operation | SIGINT/SIGTERM cancels everything in flight |
| Loader, config (`internal/loader`, `internal/config`) | none | picks the one active deployer of the `x-minienv` extension | reads the project once, `Init` reads it again |
| Compose (`internal/compose`) | the project; the include walk's visited set and claims | `Load`, `LoadServiceDirs`, `LoadRawServices`, the rewrites of `project.go` | includes that share files; two walks that must agree; edges to removed services; a reload after the build |
| Resolver (`internal/resolver`) | none | per service: image, ports, ngrok target, env split, probes, copies | decisions over the merged and the raw file; widths and rounding |
| Charts (`helm/chart.go`, `helm/templates.go`) | none | one in-memory chart per service, one for the agent | which change reaches a running pod |
| Image, git (`internal/image`, `internal/git`) | SHA cache behind a mutex | `BuildAndPush`, `ShortSha` | subprocesses |
| Kubernetes deployer (`internal/deployer/helm`) | cluster: namespace, releases | `Deploy`, `Destroy`, dry runs | concurrent visitors, atomic Helm operations, pending releases, racing creates |
| Dependency walk (compose-go `graph`, driven by `helm.go`) | node status, channel, slots | visit in `depends_on` order or in reverse | goroutines, a shared limit, cancellation |
| Docker deployer (`internal/deployer/docker`) | host: files, copied paths, containers | `Deploy`, `Destroy`, dry runs | half-done writes, abandoned remote commands |
| SSH transport (`internal/transport`) | cached ssh and sftp client | `CreateFile`, `CopyPath`, `RunCommand`, `Close` | `await`: cancel against completion, silent servers |
| Publishing (`internal/publishing`) | none | pages through ngrok's endpoints | page loops, cap |

The core calls one deployer. The Kubernetes deployer hands the walk a visitor, and the
walk calls it concurrently. The Docker deployer calls the transport one call after the
other. All share the context that a signal cancels. Nothing is stored locally between
runs: the cluster or the host is the only memory, so the deployer modules model several
runs one after the other.

## Modules

| Module | Models | State and actions |
|---|---|---|
| `OrderedVisit` | what a walk promises | `waits`, `began`, `ended`; `Begin` after everything waited for has ended, at most once |
| `DependencyWalk` | the concurrent walk | a `status` per node, two dispatchers (`todo`, `held`), the channel (`finished`), the reader, the error group's limit and cancellation |
| `HelmDeployer` | runs of the Kubernetes deployer | extends `DependencyWalk`; the visitor's `Finish` becomes the end of a Helm operation; `pc` follows `Deploy` and `Destroy` of `helm.go`; `namespace` and `release` outlive a run |
| `DockerDeployer` | runs of the Docker deployer | `pc` follows `docker.go`; `dir`, `file`, `copies`, `container`, `agent` are the host; `proc[r]` is the remote command that run `r` started last; `session` and `silent` are what of the transport a run's end depends on |
| `SSHTransport` | one transport and its caller | `client`, `sftpClient`, `op` (await's goroutine and its result channel), the connections, the server's silence |
| `IncludeWalk` | `compose/dirs.go` | one action per return of `visit`; `stack` is the recursion (of each visit its directory, its includes and how many of them the loop has taken), `visited` is the walk's map, `dirs` and `raw` are the claims; the walk of `LoadServiceDirs`, then that of `LoadRawServices`. Of compose's files the trees keep the services, which of them have a body, the includes, the environment files and what does not read or decode |
| `ServiceResolver` | `resolver/common.go` | operators, shared by both resolvers |
| `KubernetesService` | `resolver/k8s.go`, `compose/env.go` | operators; `resolve` and `resolveError` are `K8sService.resolve`. A service has its variables twice, as compose merged them and as the file that declares it has them (`raw`), for `hostSourcedKeys` decides by the one and places the values of the other |
| `ChartTemplates` | `chart.go`, `templates.go` | operators; a chart is what Helm keeps of it |
| `KubernetesRollout` | deploys of one service and the agent | `input` is what the developer has now, `deploy` the run under way, `live` the releases: chart, live Secret, and what the pods have read |
| `ComposeRewrite` | `compose/project.go` and `modifyComposeContent` | operators on a project |
| `EndpointPaging` | `publishing/ngrok.go` | `nextPage`, `followed` and `urls` are the loop's variables; `account` is ngrok's side |
| `DockerProject` | one `minienv deploy` to a Docker host | `files` and `head` change under it; `dockerExt`, `project`, `services`, `cache`, `content` are what the run has read, resolved and rendered |
| `Collections` | maps and lists as Go has them | operators: `Put`, `Over` (a merge), `Those` (a filter), `Joined` (lists appended), defined so that they can be reasoned about |
| `DependencyWalkProofs`, `HelmDeployerProofs`, `DockerDeployerProofs`, `SSHTransportProofs`, `DockerProjectProofs`, `KubernetesRolloutProofs`, `IncludeWalkProofs` | theorems about the module of that name | an inductive invariant each, one lemma per action |
| `InductionLemmas` | what the other proofs need of induction | |
| `MC...` | the instances TLC checks | |

Definitions keep the Go names where they can (`maxDeployConcurrency` is
`MaxConcurrency`); `PROJECT.json` maps each to its lines. Definitions whose names end in
something like `Anyway`, `Late` or `KeepsStatus`, introduced by a comment that says
*mutant*, are the code with a plausible bug in it. No specification uses them: each is
there to show that a property is able to fail.

`HelmDeployer` composes with `DependencyWalk` by extending it: the walk's own steps are
`StepWalk`, and a visitor that returns is `Finish` conjoined to the Helm step that ended
(`Complete`). `DockerDeployer` does not compose with `SSHTransport`. It uses what the
transport's runs establish: a call that is cancelled returns an error, with nothing of it
going on locally any more, unless the transport holds an sftp session and the host is
silent (`CancelReturnsUnlessSftp` and finding 3). So `Broken` has an interrupted step return
when the host answers or `OpenSession` has not happened yet in this run, which in a destroy
it never does.

`KubernetesRollout` extends `ChartTemplates`, which extends `KubernetesService`, which
extends `ServiceResolver`: a deploy computes its chart from the developer's input by the
same operators, in the same order, as the program. It looks at two releases closely where
`HelmDeployer` looks at many from afar, and leaves out what `HelmDeployer` has (failing
lookups, pending releases, kills). `DockerProject` extends `ComposeRewrite` and
`EndpointPaging`; its `Up` is the one step that `DockerDeployer` takes apart.

The three reads of one deploy to a Docker host are worth knowing: `LoadCore` takes the
top-level extension, `Init` the services and their directories, and `ReloadWithNewName`,
after the images are built, the project that is rewritten and sent.

### What is external

* compose-go's graph package. Its goroutines are modelled from its contract and from how
  `helm.go` and `deploy_test.go` use it. The order "put the node on the channel, then
  return the error" is what makes the first finding below possible.
* Helm: an atomic install or upgrade that fails undoes itself, undoing may fail, and a
  release with an operation pending accepts no upgrade.
* docker compose: it replaces a container exactly when its definition changed, and a bind
  mount is that of the moment the container started. A compose file cut short is taken as
  not parsable; YAML cut at the end of a service may in fact parse.
* compose-go's loading and interpolation: a variable `- VAR` that is not set has no value,
  `${VAR}` is empty; a project it loads has no dangling `depends_on`.
* Kubernetes: a pod is replaced when its template changes and reads its sources when a
  container starts; of `envFrom` the later source wins, and `env` over both. A Secret's
  `stringData` is copied into `data` and forgotten, so Helm's patch removes no key there,
  unless `recreate: true` has the object replaced.
* ngrok's list of endpoints does not change while it is paged through; a page may lead
  anywhere.
* `pkg/sftp`: `Client.Close` waits until its receive loop has ended.

## Runs

| Run | Expect | What it shows |
|---|---|---|
| `walk` | pass | order (as refinement of `OrderedVisit`), completeness, limit, cancellation and termination over all graphs on up to three services |
| `helm` | pass | three runs on one namespace: what success, failure and a dry run mean |
| `helm_destroy_order` | violation | finding 1 |
| `docker` | pass | three runs on one host: what is left there, what a container that is started mounts, and when an interrupted run ends |
| `docker_copies` | violation | finding 2 |
| `ssh` | pass | connection life cycle under cancels, drops and silence |
| `ssh_cancel` | violation | finding 3 |
| `ssh_leak` | violation | finding 4 |
| `include` | pass | who declares each service, in both walks, and which of several problems is reported |
| `rollout` | pass | what the pods of a service have read after any sequence of edits, deploys, undone upgrades and restarts: values, files, the agent's token and endpoints, the startup window; no host value in a manifest; no rollout of an unchanged service |
| `dropped_variable` | violation | finding 5 |
| `pipeline` | pass | that what is sent to a Docker host can be brought up there, is what was resolved, runs the images that were pushed (or the compose file's, where the extension names another), and which URLs the table shows |

### Bounds

* `walk`: three services make every shape that matters to the two dispatchers - two
  predecessors or two successors of a node, independent nodes, a chain, and every cycle
  on up to three nodes. `MaxConcurrency = 2` lets two visits overlap while a third waits
  for a slot. The theorems cover every finite graph and every limit.
* `helm`: three projects of two or three services - a fan with a skipped service, ngrok
  and namespace removal; a chain whose database is skipped; a cycle. `MaxRuns = 3` is
  enough for a deploy, an edited deploy and a destroy, or for a killed run, the run that
  finds its remains and a third one. `MaxFaults = 2` lets an operation and the undoing of
  it both fail, or a kill and an interrupt meet.
* `docker`: two services, four editions of the project (see `MCDockerDeployer`).
  `MaxRuns = 3` lets an abandoned command race two later runs. `MaxFaults = 2` lets a host
  fall silent under a run that is then interrupted, or a `docker compose down` fail and an
  `rm -rf` after it.
* `ssh`: four calls are enough to open both clients, cancel, and use what is left twice.
  `MaxConns = 3` bounds the dials.
* `include`: trees that nest two deep, redeclare a service in the includer, move the
  project directory, share a file on two branches, include themselves, list several files
  in one include, declare a service without a body, name an environment file or take the
  default one, or fail in each of the ways there are: a compose file or environment file
  that does not read, an include key that does not decode, an include without a path, a
  file that is gone. The reference that the walk is compared with is said of addresses of
  includes and has no visited set.
* `rollout`: three variables are enough for one that is kept, one that moves between
  sources and one that goes. `MCInputs` groups the inputs by what changes - variables,
  variables of two files or given twice, files, probes, objects created, publishing,
  refusals - and every input may follow every other. The number of deploys is not bounded.
* `pipeline`: two services at a time of three; one directory outside of any repository or
  not; five editions that deploy, two of which build an image that the extension names, one
  under a compose image of another name; and one edition for each refusal. `MaxChanges = 2`
  lets an edit and a commit, or an edit and its reversal, fall between the three reads.
  `MaxPages = 3` stands for 50: the accounts end before, at and after the cap, go round, and
  name themselves.

### Fairness

* `walk`: the goroutines of the walk are scheduled, and every visitor returns: `helm.go`
  gives each install and upgrade a timeout. Neither the interrupt nor a failure is fair.
* `helm`: weak fairness of the run's own steps, which include the ends of Helm's
  operations. (`uninstallChart` sets `Wait` and leaves `Timeout` zero, so Helm does not
  wait long for deletions.)
* `docker`: only the steps of the local process that need no fault are fair. The host's
  commands are not, nor does a host that has fallen silent have to answer again
  (`AnswerAgain`). `InterruptEndsRun` says what that leaves: an interrupted run ends, except
  under a host that stays silent for ever after the run has opened its sftp session
  (finding 3).
* `include`, `rollout` and `pipeline` state safety alone and assume no fairness; that none
  of them gets stuck half-way is the deadlock check, since only an ended run stutters.
* `ssh`: the caller and await's goroutine are scheduled. The goroutine's end is only
  possible when the server answers or the connection is gone, so a silent server is not
  assumed away.

## Findings

1. *Destroy order* (`helm_destroy_order`). After a failed uninstall the reverse walk may
   still uninstall what the surviving service depends on.
2. *Stale copies* (`docker_copies`). Paths sent by a second deploy are not seen by a
   container whose definition is unchanged: it keeps the removed directory mounted.
3. *Cancel during an sftp call* (`ssh_cancel`). `Close` waits for the sftp session before
   it closes the connection; with a silent server the cancelled call never returns. Every
   other cancelled call returns (`CancelReturnsUnlessSftp`).
4. *Connection without an owner* (`ssh_leak`). A cancel between the TCP connect and the
   handshake leaves the connection open.
5. *A variable that stays* (`dropped_variable`). A host value that is no longer set stays
   in the service's Secret, and so in its pods, while another one keeps the Secret there;
   `configuration-reference.md` says it is dropped. `ValuesReachPods` holds for every other
   variable, and says of this one that it is among the keys the Secret has `retained`.

Three more places where the code does other than the documentation says have no run of
their own. A passing property speaks of each and says there how far it holds:

* `deployers.md:91` says that `image:` is pinned "To the repository and tag resolved for this
  run". A service for which the compose file and the extension both name an image is built,
  tagged and pushed under the extension's and sent under the compose file's, which
  `SetImages` (project.go:154) keeps. `DeployedAsResolved` says which is sent.
* `deployers.md:50-52` has an `env` entry of the extension with the value `${VAR}` placed in the
  Secret. It is rendered in the Deployment when only an included file's declaration of the
  service has it (k8s.go:592 looks at the declaring file alone), or when the name is given
  again as a literal (k8s.go:605). `HostValuesInSecret` holds for every other variable.
* `troubleshooting.md:138` has the deployment directory "removed even when teardown fails". The
  remote command of a destroy exits with the status of `docker compose down`, and that of
  `rm -rf` is lost (docker.go:194): a destroy may report success with the directory, the
  `.env` and the copied paths still there. `CredentialsRemoved` excepts just that (`left`).

Observed while modelling, not stated as findings because no line of the repository
promises otherwise, or because one describes it:

* An interrupted walk returns no error when no visitor failed, so an interrupted deploy
  that publishes nothing may report success with services undeployed. `DeployDelivers`
  and `DestroyDelivers` of `HelmDeployer` ask of an interrupted run only that what it did
  is done and that the agent is as it should be.
* Once the walk's reader has gone, one more visitor than `maxDeployConcurrency` may work.
  `ConcurrencyBound` says so.
* A compose service named `ngrok` shares its release with the agent; the models assume
  there is none.
* With an abandoned `docker compose up` still running, a later deploy's agent can be left
  on an older `ngrok.yml`. `DeployDelivers` of `DockerDeployer` excludes such runs
  (`raced`).
* A destroy whose `docker compose down` failed has removed the directory; the retry
  reports success with the containers up (troubleshooting.md:136 describes the first half).
  `DestroyDelivers` says exactly which containers may survive (`unclean`).
* Include walk: a file that two branches include is reported as a cycle. A service whose
  first declaration has no body (`api:` alone) is passed over by the raw claim, so its
  directory and its raw declaration may come from different files. `OwnerIsFirstDeclarer`
  says of each walk which declaration it takes.
* Kubernetes resolver: a health check on a port that no service port has gives a probe
  without a port, which the API server refuses. A `start_interval` below a second drops the
  threshold, and so the start period; and since durations are cut to seconds first, up to a
  second of the start period may be lost (9.5 s in steps of 3 s allow 9 s). `StartupWindow`
  states both. Ports are told apart by number, so 53/udp next to 53/tcp is dropped.
* A name that the extension gives both as a `valueFrom` and as a `value` keeps the reference
  inline once the value has gone to the Secret, so the reference wins wherever it stands.
  `ValuesReachPods` leaves such names out (`Unmixed`).
* A container that restarts during an upgrade that is then undone may keep the new values;
  `Restart` is possible between deploys only.
* A skipped service keeps its old release on Kubernetes, and is removed on Docker.
* A service built with `dockerfile_inline` has no Dockerfile name and is passed over by
  `getFilteredList` with a warning; its image is deployed without having been pushed.
* `RemoveServices` removes `depends_on` edges; other references between services
  (`network_mode`, `volumes_from`) are left.
* A dry run on Docker pushes and sends nothing, but does ask ngrok and prints the URLs of
  whatever is up.
* An edit between `Init` and the reload is deployed with the images, copies and endpoints
  resolved before it. `RenderedProject` still holds; `DeployedAsResolved` speaks of deploys
  without one.
* A Docker project with a service named `ngrok` has it replaced by the agent, which then
  depends on itself; the editions have none.

## Proofs

`DependencyWalkProofs` proves, for every set of finite graphs and every limit:

* `TypeCorrect`: `Spec => []TypeOK`
* `Completeness`: `Spec => []CompleteWhenSuccessful`
* `BoundKept`: `Spec => []ConcurrencyBound`
* `WalkImplementsOrder`: `Spec => OrderSpec`, the refinement of `OrderedVisit`
* `CancelEndsClaims`: `Spec => CancelStopsSuccessors`, an action property

The assumptions are `GraphsAssumption` (a graph is finite and stays within its services)
and `ConcurrencyAssumption` (the limit is a positive number); TLC evaluates both in every
run. The argument is one inductive invariant, `WalkInv`. Next to the types it says what
the goroutines' positions imply for each other: a claimed node is held by exactly one
dispatcher, a node that has left "unvisited" has all its predecessors visited, what is on
the channel or was taken from it has been visited, and a failure or a visited node is
recorded where the next goroutine looks for it. Completeness is not inductive by itself:
that a node was visited is lost the moment the reader stops, unless one knows that the
reader stops only with everything reported or with the context cancelled, and the latter
only after a failure or an interrupt. The limit needs finiteness of the set of workers and
one lemma per way it can grow. The refinement needs, of the invariant, that a started
node's predecessors are visited, which is `OrderedVisit`'s guard. `CancelEndsClaims` adds what
the dispatchers have left to offer (`LeftToOffer`): the main one only nodes that wait for
nothing, and the reader none once it has stopped.

`SSHTransportProofs` proves, for every `MaxCalls` and `MaxConns`:

* `TypeCorrect`, `NoReuseAfterClose` (`HeldIsNotClosed`), `SingleConnection`
  (`OneConnection`), `CallsEnd` (`NothingOutlivesCall`): invariants
* `CancelledInert`: the action property `CancelledCallIsInert`

Its inductive invariant `TransportInv` adds two parts to the properties. `PlaceInv` ties
the caller's place in a call to whose connection it has in hand and to whether await's
goroutine is there. `DialInv` says what a dial's connection has come to when the select or
the drain looks at it: without it one cannot rule out that a handshake ends in success on
a connection which the cancelled dial has already closed, and that the transport keeps it.
Its only assumption is that the two bounds are natural numbers (`BoundsAssumption`).

`HelmDeployerProofs` proves, for every set of projects and any number of runs and faults,
every invariant and action property of the `helm` run: `HelmTypeCorrect`,
`DependenciesHeld` (`DependenciesInPlace`: in real runs, as long as no visit of the walk has
failed; what happens after one is finding 1), `DeployIsDelivered` (`DeployDelivers`),
`DestroyIsDelivered` (`DestroyDelivers`), `FailuresHaveCauses` (`FailureHasCause`),
`DryRunsChangeNothing` and `NamespaceIsLast` (`NamespaceLast`). It rests on `WalkInv`, which
a visitor's step keeps because the walk does not look at releases. The other parts of
`HelmInv`: an operation is under way on a release only inside its visit or after the walk
(`StageInv`); a release with this run's values was put there by this run's visit, and
since then the namespace is active (`ValuesInv`); a visit that did not fail has left its
release in place or gone (`VisitedInv`); what was made of the agent (`AgentInv`); and that
a failure has a cause, for which one must know that a clean namespace has no operation
left pending that the run did not start itself (`CauseInv`). Assumptions:
`ProjectsAssumption`, `HelmBoundsAssumption` and the walk's own. `DeployIsDelivered` asks
that no service is called as the agent: two writers would share one release.

`DockerDeployerProofs` proves the same of the `docker` run, for every set of editions:
`DockerTypeCorrect`, `DeployIsDelivered`, `TokenIsRemoved` (`CredentialsRemoved`),
`DestroyIsDelivered`, `MountsAreWhole` (`MountsWholeCopies`) and `DryRunsSendNothing`.
Unless a run once began beside an abandoned command (`raced`), only the current run's
command can be going on (`AloneInv`); which one that is follows from the run's step
(`PlaceInv`). `SentInv` says what has reached the project directory, `UpInv` what docker
compose has made of it stage by stage, `DownInv` that containers are found by their
directory, which goes before them only in a destroy that then fails. `MountsAreWhole` takes
from `SentInv` that a run's own `docker compose up` starts when nothing is left to copy.
`CredentialsRemoved` needs no `raced`, because abandoned commands can only remove files; it
excepts a destroy whose shell or whose `rm -rf` failed (`left`).
Assumptions: `EditionsAssumption`, `MarkersAssumption` (the markers of an absent or partial
file are no content) and `BoundsAssumption`.

`DockerProjectProofs` proves, for all editions, environments, repositories and accounts:
`PipelineTypeCorrect`, `ProjectIsSendable` (`RenderedProject`), `DeploysWhatItResolved`
(`DeployedAsResolved`) and `TableIsWhole` (`TableComplete`). The first half are lemmas on
what each rewrite of `ComposeRewrite` keeps and removes; `IsRendered` sums up the rewritten
project. `ContentInv` says that once there is content it is the rewrite of the files as
they are then (edits end there, because the read and the send are one step) and that what
was built had been pushed; `TagInv` ties an expanded tag to the cached SHA of its
directory. `LookupInv` says that after n pages the table is that of the first n pages of
the way through the account (`IsTable`); `Collects` adds one page, with its later entries
over earlier ones, and by `Repeats` the pages up to the cap add nothing once a page leads
nowhere or to itself. `DeploysWhatItResolved` says of a service with a Dockerfile that it is
sent with an image this run pushed, or with the compose file's where the extension names
one too. `ProjectIsSendable` and `DeploysWhatItResolved` ask that no service has the agent's
name (`NoServiceIsAgent`), for the agent takes its place.

`KubernetesRolloutProofs` proves, for every set of inputs and deploys without bound, all
properties of the `rollout` run: `RolloutTypeCorrect`, `ValuesAreRead` (`ValuesReachPods`),
`HostValuesAreSecret` (`HostValuesInSecret`), `AgentHasRead` (`AgentIsCurrent`),
`StartupIsCovered` (`StartupWindow`) and `UnchangedPodsStay` (`UnchangedKeepsPods`). There
are two halves. `Splits` says what `resolveEnvironment` gives for any input: inline what a
developer wrote, in the Secret what came from the host, nothing in neither (`IsSplit`).
The invariant `RolloutInv` is the argument for the checksum annotations: at all times the
pods have read the files and the Secret that *their own template* is annotated with, and
at most more keys (`ReadAsAnnotated`), so once the template is the chart's, the values
are too. It is kept by an upgrade that is undone because what the deploy found there is
such a release itself (`TargetInv`). `UnchangedPodsStay` needs, besides, that the same
endpoints in any order are the same list, since names are sorted.

The assumption is `InputsAssumption`: compose's merge leaves the variables of the file that
declares the service as they are and appends that file's entries to the others', the
service is not called `ngrok`, and what compose gives as a value is a value. Names may be
given twice and by two files, and the theorems say where that ends them.
`HostValuesAreSecret` is about compose's variables from whichever file, and about those
names of the extension that the declaring file gives, in one way (`GivenHere`,
`GivenOneWay`); the others may be inline (see Findings). `ValuesAreRead` leaves out names given as a
reference and as a value, and those that both a source of `envFrom` and only an included
file give. `StartupIsCovered` is about start periods and intervals of a second or more.

`IncludeWalkProofs` proves, for every set of trees and for both walks: `IncludeTypes`
(`IncludeTypeOK`), `FirstDeclarerOwns` (`OwnerIsFirstDeclarer`) and `FirstProblemReported`
(`ReportsFirstProblem`). What the walk should find is said of addresses, sequences of
positions; the code knows no addresses, only a stack and a set of files.

* A service's owner is stated once for both walks (`Owned`): the first address of those that
  declare it, which for the raw walk are those that give it a body.
* The order of the addresses is strict and total (`BeforeIsStrict`, `BeforeIsTotal`), so the
  first to declare a service and the first problem are each a single one (`EarliestIs`).
* The invariant `WalkInv` has the stack spell an address (`Position`): each visit on it is the
  one the visits below lead to. What comes before that address (`Past`) has been walked
  without a problem, and `visited`, `dirs` and `raw` are what these addresses give (`Walked`).
  TLC checked it on the `include` run's trees before it was proved.
* Entering a visit moves exactly one address into the past (`PastEntered`), which is why one
  test against `visited` decides whether an earlier address had that file. Returning from a
  visit moves none (`PastReturned`), and after the last return all are past (`PastAll`).
* The reference gives addresses no more positions than there are files. That the walk stays
  within it is a count (`PathIsShort`): a visit enters only with a first file that no visit
  on the stack has, so an address is shorter than there are files.

The assumption is `TreesAssumption`: there are finitely many files, their includes and the
paths of an include are lists, what they declare are services, and the services with a
body are among those. How a single path
is resolved (`absoluteTo`) is never looked at: the theorems hold whatever it gives.

`InductionLemmas` has the two inductions these proofs need, with a set in the place of a
predicate: every set of naturals that has 0 and with k also k + 1 has them all, and a
function defined by recursion up to n exists (`RecursionExists`). The library states them
for an operator, which no prover here can instantiate. From them follows that `Those` has
exactly the elements that are wanted (`ThoseAreWanted`) and keeps the last of them last
(`ThoseKeepLast`), that a finite list has a last element of a kind it has at all
(`LastExists`), and that lists appended are a list (`JoinedIsList`). For the same reason the modules
merge and filter with the operators of `Collections`: `@@`, `SelectSeq` and the folds are
opaque to the provers. Where a fold is left (ports, paths), no theorem looks into it.

Only model-checked:

* `Terminates`, `RunEnds`, `InterruptEndsRun` and `CancelReturnsUnlessSftp`, the liveness
  properties: they need fairness and ENABLED.
* That a run does not get stuck half-way (the deadlock check): it is ENABLED as well.

The properties that are expected to be violated are refuted by TLC's counterexamples.

## Plan

What is left is a composition of `DockerProject` with `DockerDeployer` through the rendered
content, so that one invariant speaks of the edited file and of the containers of a host with
abandoned commands. The proofs of the two would be its parts.

## Not modelled

* The HCL text of the build, the YAML text of charts and of the compose file, names and
  labels of Kubernetes objects, masking and wording of errors, the layout of the table:
  text that no property is about. The fields a template passes through untouched are one
  value, `spec`.
* Flag parsing, the JSON schema generator, the demo server and the generated mocks: they
  keep no state of the system.
* The clamp of a health check's retries to 32 bits, which lies beyond TLC's own integers.
* The race between a file's load by compose-go and the include walk's own reading of it, and
  an edit between the two include walks.
