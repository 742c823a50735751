------------------------- MODULE KubernetesRollout -------------------------
(***************************************************************************)
(* One service deployed over and over while its developer edits the compose *)
(* file, the files it names, the local environment and the ngrok token: the *)
(* resolver, the charts and templates, and what the cluster makes of them.  *)
(* Two releases are concerned, the service's own and the ngrok agent's.     *)
(* HelmDeployer has the order of many releases and the operations that do   *)
(* not end; here an operation succeeds or is undone, and what counts is     *)
(* which values the running pods have read.                                 *)
(*                                                                          *)
(* Helm and Kubernetes are external. A Secret of the charts is written      *)
(* through stringData, which the API server copies into data and forgets:   *)
(* the patch of an upgrade sets keys there and removes none. With Force     *)
(* (recreate: true) the object is replaced instead. A pod is replaced when  *)
(* its template changes, and reads Secrets and ConfigMaps when it starts.   *)
(***************************************************************************)
EXTENDS ChartTemplates

CONSTANTS
    Inputs,        \* [service, host, disk, token, neighbours] at one moment
    Self,          \* the service's name, its chart and its release
    NgrokRelease,  \* ngrokReleaseName
    Unset          \* a variable that no container sees

\* The service is not called as the agent is; what a variable is worth is never Nil, unless
\* compose could not resolve it; compose's merge leaves the variables of the file that
\* declares the service as they are and appends its entries to those of other files.
ASSUME InputsAssumption ==
    /\ Self # NgrokRelease /\ Nil # ""
    /\ NameOrder \in Seq(ToSet(NameOrder)) /\ Self \in ToSet(NameOrder)
    /\ \A in \in Inputs :
          LET s == in.service
          IN /\ s.env \in Seq(ToSet(s.env))
             /\ \E n \in 0..Len(s.env) : s.raw.env = SubSeq(s.env, n + 1, Len(s.env))
             /\ \A k \in DOMAIN s.raw.environment :
                   k \in DOMAIN s.environment /\ s.environment[k] = s.raw.environment[k]
             /\ \A e \in ToSet(s.env) :
                   e.source.from \in {"literal", "template", "ref"} /\ e.source.value # Nil
             /\ DOMAIN s.environment \subseteq ToSet(NameOrder)
             /\ \A k \in DOMAIN s.environment :
                   /\ s.environment[k].from \in {"literal", "template", "bare", "file"}
                   /\ s.environment[k].value # Nil
             /\ \A k \in DOMAIN in.host : in.host[k] # Nil
             /\ s.ngrok \in [port : Nat, trafficPolicy : STRING, url : STRING]
             /\ s.healthcheck.startPeriod \in Nat /\ s.healthcheck.startInterval \in Nat
             /\ in.neighbours \subseteq ToSet(NameOrder) \ {Self}

VARIABLES
    input,    \* what the developer has now
    pc,       \* "idle", then "build", "apply", "wait", "rolled" on the way of one deploy
    target,   \* the release the deploy is at
    deploy,   \* the deploy under way: its input, service, endpoints, charts; before: the
              \* target as the deploy found it
    outcome,  \* of the last deploy, "none" once the developer has edited something
    live      \* live[r]: [chart, input, secret, pods] of a release, or Absent; input is the
              \* service's alone

vars == <<input, pc, target, deploy, outcome, live>>

Release == {Self, NgrokRelease}
Absent == NoData  \* no release, no pods
NoDeploy == [input |-> Absent]

-----------------------------------------------------------------------------
\* initProject: the services with a usable ngrok port; neighbours are the other ones.
Publishes(service) == service.ngrok.port # 0 /\ ~service.skip /\ ~service.job

Publishing(service, neighbours) ==
    neighbours \union (IF Publishes(service) THEN {Self} ELSE {})

Endpoints(service, order) ==
    [i \in DOMAIN order |->
        [service |-> order[i],
         ngrok |-> IF order[i] = Self THEN service.ngrok ELSE NoNgrok]]

Init ==
    /\ input \in Inputs
    /\ pc = "idle" /\ target = Self /\ deploy = NoDeploy /\ outcome = "none"
    /\ live = [r \in Release |-> Absent]

Edit ==
    /\ pc = "idle"
    /\ input' \in Inputs \ {input}
    /\ outcome' = "none" /\ deploy' = NoDeploy
    /\ UNCHANGED <<pc, target, live>>

\* The resolver's error, met before anything is touched.
RefuseInput ==
    /\ pc = "idle"
    /\ resolveError(input.service, input.host, "sha", input.token # "") # "none"
    /\ outcome' = "err" /\ deploy' = NoDeploy
    /\ UNCHANGED <<input, pc, target, live>>

Resolve ==
    /\ pc = "idle"
    /\ resolveError(input.service, input.host, "sha", input.token # "") = "none"
    /\ \E order \in KeyOrders(DOMAIN input.service.environment) :
          LET service == resolve(input.service, input.host, "sha", input.token # "", order)
              neighbours == IF input.token = "" THEN {} ELSE input.neighbours
          IN \E published \in KeyOrders(Publishing(service, neighbours)) :
                deploy' = [input |-> input, service |-> service, before |-> Absent,
                           endpoints |-> Endpoints(service, published)]
    /\ pc' = "build" /\ target' = Self /\ outcome' = "none"
    /\ UNCHANGED <<input, live>>

RefuseFiles ==
    /\ pc = "build" /\ target = Self /\ ~deploy.service.skip
    /\ buildError(deploy.service, deploy.input.disk) # "none"
    /\ pc' = "idle" /\ outcome' = "err"
    /\ UNCHANGED <<input, target, deploy, live>>

Succeed ==
    IF target = Self THEN target' = NgrokRelease /\ pc' = "build" /\ outcome' = outcome
    ELSE pc' = "idle" /\ outcome' = "ok" /\ target' = target

\* deployService passes over a skipped service; its release stays as it is.
PassOver ==
    /\ pc = "build" /\ target = Self /\ deploy.service.skip
    /\ Succeed
    /\ UNCHANGED <<input, deploy, live>>

\* installNgrokChart with nothing to publish.
RemoveAgent ==
    /\ pc = "build" /\ target = NgrokRelease /\ deploy.endpoints = <<>>
    /\ live' = [live EXCEPT ![NgrokRelease] = Absent]
    /\ Succeed
    /\ UNCHANGED <<input, deploy>>

Chart ==
    IF target = Self THEN Build(deploy.service, deploy.input.disk)
    ELSE BuildNgrok(deploy.endpoints, deploy.input.token)

Forced == target = Self /\ deploy.service.recreate
-----------------------------------------------------------------------------
\* What Helm and the cluster do.

\* The data of a Secret once a release that had chart was given the Secret of another.
Patched(chart, data, secret) ==
    IF secret = NoData \/ chart.secret = NoData \/ Forced THEN secret
    ELSE Over(secret, data)

SourceData(template, secret, source) ==
    IF source = "secret" THEN secret ELSE [k \in template.declares |-> "declared"]

LastNamed(env, k) == LastIn(env, Named(ToSet(env), k))

\* envFrom in order, the later source winning, and env over all of them, in order too.
PodEnv(template, secret) ==
    LET of(i) == SourceData(template, secret, template.envFrom[i])
        having(k) == {i \in DOMAIN template.envFrom : k \in DOMAIN of(i)}
        last(k) == CHOOSE i \in having(k) : \A j \in having(k) : j <= i
    IN Over([k \in Names(template.env) |-> LastNamed(template.env, k).value],
            [k \in UNION {DOMAIN of(i) : i \in DOMAIN template.envFrom} |-> of(last(k))[k]])

\* retained: what the Secret has over the chart's.
Start(chart, secret) ==
    [template |-> chart.template, env |-> PodEnv(chart.template, secret),
     files |-> chart.configMap, retained |-> DOMAIN secret \ DOMAIN chart.secret]

\* The API server takes no probe without a port.
Accepted(chart) ==
    target = Self /\ chart.workload = "deployment" =>
        \A p \in {"startup", "liveness", "readiness"} :
            LET probe == chart.template.probes[p]
            IN probe.action = "httpGet" => probe.port # ""

\* Installs or upgrades; the pods follow in Roll.
Apply ==
    /\ pc = "build"
    /\ IF target = Self
       THEN ~deploy.service.skip /\ buildError(deploy.service, deploy.input.disk) = "none"
       ELSE deploy.endpoints # <<>>
    /\ LET old == live[target]
           in == IF target = Self THEN deploy.input ELSE Absent
       IN /\ deploy' = [deploy EXCEPT !.before = old]
          /\ live' = [live EXCEPT ![target] =
                IF old = Absent
                THEN [chart |-> Chart, input |-> in, secret |-> Chart.secret, pods |-> Absent]
                ELSE [chart |-> Chart, input |-> in, pods |-> old.pods,
                      secret |-> Patched(old.chart, old.secret, Chart.secret)]]
    /\ pc' = "wait"
    /\ UNCHANGED <<input, target, outcome>>

\* A job has a new name in every release; Recreate deletes the pods of an upgrade.
MustRoll(old, new) ==
    \/ old.pods = Absent \/ new.chart.workload = "job" \/ old.chart.workload = "job"
    \/ old.pods.template # new.chart.template
    \/ Forced

Rolled(old, new) ==
    IF MustRoll(old, new)
    THEN [new EXCEPT !.pods = Start(new.chart, new.secret)]
    ELSE [new EXCEPT !.pods = old.pods]

Roll ==
    /\ pc = "wait" /\ Accepted(live[target].chart)
    /\ live' = [live EXCEPT ![target] = Rolled(@, @)]
    /\ pc' = "rolled"
    /\ UNCHANGED <<input, target, deploy, outcome>>

\* Mutant of Settle: Helm does not wait.
SettleEarly ==
    /\ pc \in {"wait", "rolled"}
    /\ Succeed
    /\ UNCHANGED <<input, deploy, live>>

\* Wait is satisfied.
Settle ==
    /\ pc = "rolled"
    /\ Succeed
    /\ UNCHANGED <<input, deploy, live>>

\* Atomic: a failed install is uninstalled, a failed upgrade rolled back.
Undo ==
    /\ pc \in {"wait", "rolled"}
    /\ LET now == live[target]
           old == deploy.before
       IN live' = [live EXCEPT ![target] =
             IF old = Absent THEN Absent
             ELSE Rolled(now, [old EXCEPT !.secret = Patched(now.chart, now.secret, old.chart.secret)])]
    /\ pc' = "idle" /\ outcome' = "err"
    /\ UNCHANGED <<input, target, deploy>>

\* A container crashes and comes back in the same pod. Not while an operation is on its way.
Restart(r) ==
    /\ pc = "idle" /\ live[r] # Absent
    /\ live' = [live EXCEPT ![r].pods = Start(live[r].chart, live[r].secret)]
    /\ UNCHANGED <<input, pc, target, deploy, outcome>>

Next ==
    \/ Edit \/ RefuseInput \/ Resolve
    \/ RefuseFiles \/ PassOver \/ RemoveAgent
    \/ Apply \/ Roll \/ Settle \/ Undo
    \/ \E r \in Release : Restart(r)

Spec == Init /\ [][Next]_vars
-----------------------------------------------------------------------------
\* What the developer is told a variable is worth, by name, of the service in `in`.

Source(in, k) ==
    LET s == in.service
    IN IF k \in Names(s.env) THEN LastNamed(s.env, k).source
       ELSE IF k \in DOMAIN s.environment THEN s.environment[k]
       ELSE [from |-> "nowhere", value |-> Nil]

\* The file that declares the service gives k, and not only one that it includes.
GivenHere(s, k) ==
    IF k \in Names(s.env) THEN k \in Names(s.raw.env)
    ELSE k \in DOMAIN s.environment => k \in DOMAIN s.raw.environment \/ s.environment[k].from = "file"

\* The extension gives k in one way only, or not at all.
GivenOneWay(s, k) == \A d, e \in Named(ToSet(s.env), k) : d.source.from = e.source.from

\* The extension does not give k both as a reference and as a value.
Unmixed(s, k) ==
    \A d, e \in Named(ToSet(s.env), k) : d.source.from = "ref" => e.source.from = "ref"

Comparable(s, k) == Unmixed(s, k) /\ (k \in s.envFrom => GivenHere(s, k))

Expected(in, k) ==
    LET source == Source(in, k)
        value == Interpolated(k, source, in.host)
    IN IF value # Nil /\ source.from \in {"literal", "ref"} THEN value
       ELSE IF k \in in.service.envFrom THEN "declared"
       ELSE IF value # Nil THEN value ELSE Unset

Seen(r, k) == IF k \in DOMAIN live[r].pods.env THEN live[r].pods.env[k] ELSE Unset

Settled == pc = "idle" /\ live[Self] # Absent

Type == {"deployment", "job"}
-----------------------------------------------------------------------------
\* Types; what a release keeps of the Secret is at least what its chart says.
RolloutTypeOK ==
    /\ input \in Inputs /\ target \in Release
    /\ pc \in {"idle", "build", "wait", "rolled"}
    /\ outcome \in {"none", "ok", "err"}
    /\ \A r \in Release :
          live[r] # Absent =>
              /\ live[r].chart.workload \in Type
              /\ \A k \in DOMAIN live[r].chart.secret :
                    k \in DOMAIN live[r].secret /\ live[r].secret[k] = live[r].chart.secret[k]
              /\ pc = "idle" => live[r].pods # Absent

\* However the project came to be what it is, and whatever failed on the way: between
\* deploys the pods see each variable with the value that the deployed compose file, env
\* files, extension and local environment give it, and the files as they were read - be
\* it through the Secret, inline or from a source of envFrom. A variable with no value may
\* still have one, see UnresolvedIsDropped. A name that the extension gives both as a
\* reference and as a value is left out: once the value is in the Secret, the reference wins
\* wherever it stands. And so is one that only an included file gives when a source of
\* envFrom has it as well, for whether that value is inline, and wins, is then a matter of
\* which file it is in.
ValuesReachPods ==
    Settled =>
        /\ \A k \in {n \in ToSet(NameOrder) : Comparable(live[Self].input.service, n)} :
              \/ Seen(Self, k) = Expected(live[Self].input, k)
              \/ Expected(live[Self].input, k) = Unset /\ k \in live[Self].pods.retained
        /\ live[Self].pods.files
              = Contents(live[Self].input.service.configMapFrom, live[Self].input.disk)

\* No value of the local environment or of an env_file is in the workload's manifest
\* (docs/src/deployers.md: "it never appears in the Deployment"): for compose's variables
\* whichever file they are from, and for those of the extension if the file that declares
\* the service gives them, in one way. Where only an included file has the ${VAR} entry, or
\* the name is given once more as a literal, the code leaves the value inline, and
\* deployers.md:50-52 ("is placed the same way") is not kept.
HostValuesInSecret ==
    live[Self] # Absent =>
        LET s == live[Self].input.service
        IN \A e \in ToSet(live[Self].chart.template.env) :
              (e.name \in Names(s.env) => GivenHere(s, e.name) /\ GivenOneWay(s, e.name))
                  => Source(live[Self].input, e.name).from \in {"literal", "ref"}

\* A variable written `- VAR` with VAR not set locally is dropped: no container of an
\* environment that was deployed successfully has it.
UnresolvedIsDropped ==
    Settled /\ outcome = "ok" =>
        \A k \in ToSet(NameOrder) :
            Source(live[Self].input, k).from = "bare" /\ Expected(live[Self].input, k) = Unset
                => Seen(Self, k) = Unset

\* A deploy of an unchanged service gives its pods no other template, and the agent, which
\* loses every unreserved URL with its pod, keeps its own for as long as the same services
\* publish the same ports under the same token.
UnchangedKeepsPods ==
    [][\A r \in Release :
          /\ live[r] # Absent /\ live[r].pods # Absent /\ live'[r] # Absent
          /\ live'[r].pods # Absent /\ live'[r].pods.template # live[r].pods.template
          => IF r = Self THEN deploy.before.input # deploy.input
             ELSE \/ ToSet(deploy.before.chart.configMap["ngrok.yml"]) # ToSet(deploy.endpoints)
                  \/ deploy.before.chart.secret["NGROK_AUTHTOKEN"] # deploy.input.token]_vars

\* After a successful deploy the agent runs exactly when something is published, with the
\* token of that deploy and the endpoints of every service that publishes.
AgentIsCurrent ==
    pc = "idle" /\ outcome = "ok" =>
        LET in == deploy.input
            s == in.service
            published == IF in.token = "" THEN {}
                         ELSE in.neighbours \union
                              {n \in {Self} : s.ngrok.port # 0 /\ ~s.skip /\ s.deploymentType # "job"}
            agent == live[NgrokRelease]
        IN IF published = {} THEN agent = Absent
           ELSE /\ agent # Absent
                /\ agent.pods.env["NGROK_AUTHTOKEN"] = in.token
                /\ {e.service : e \in ToSet(agent.pods.files["ngrok.yml"])} = published
                /\ \A e \in ToSet(agent.pods.files["ngrok.yml"]) :
                      e.service = Self => e.ngrok.port = s.ngrok.port /\ e.ngrok.url = s.ngrok.url

\* A startup probe derived from a start_period and a start_interval of a second or more each
\* allows the container the start period but for less than a second, and less than one
\* interval more. (Both are cut to whole seconds, so that the last part of one is lost.)
StartupWindow ==
    live[Self] # Absent /\ live[Self].chart.workload = "deployment" =>
        LET probe == live[Self].chart.template.probes.startup
            check == live[Self].input.service.healthcheck
            allowed(n) == n * probe.period * 1000
        IN live[Self].input.service.probes.startup = NoProbe
           /\ probe # NoProbe /\ check.startInterval >= 1000 /\ check.startPeriod >= 1000
           => /\ allowed(probe.threshold) > check.startPeriod - 1000
              /\ allowed(probe.threshold - 1) < check.startPeriod
=============================================================================
