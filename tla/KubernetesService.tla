------------------------- MODULE KubernetesService -------------------------
(***************************************************************************)
(* The Kubernetes resolver (resolver/k8s.go, compose/env.go): what becomes  *)
(* of one compose service with its x-minienv-k8s-service extension.         *)
(*                                                                          *)
(* A service s is a record of what the developer wrote:                     *)
(*   skip, recreate, deploymentType, image, ref, command, extCommand (Nil   *)
(*   when not given), spec, ports (of [target, protocol]), extPorts (of     *)
(*   [port, name, protocol]), create ([service, account], each "yes", "no"  *)
(*   or "unset"), healthcheck, probes (the declared ones), environment      *)
(*   (name -> source), env (a sequence of [name, source]), raw              *)
(*   ([environment, env]), envFrom (the names an external ConfigMap         *)
(*   defines), ngrok, topPolicy, manifests and configMapFrom (sequences of  *)
(*   [file, name, local, isKey]).                                           *)
(* raw is what the file that declares the service says; environment and env *)
(* are compose's, with what the files it includes, its extends and its      *)
(* env_file say of the service too.                                         *)
(* A source is [from, value] with from "literal", "template" (${VAR}, value *)
(* names VAR), "bare" (- VAR), "file" (an env_file's value) or "ref" (a     *)
(* valueFrom, or a value that is no string). host is the developer's        *)
(* environment, a function.                                                 *)
(*                                                                          *)
(* Durations are milliseconds, 0 when unset. What the resolver passes       *)
(* through untouched is one value, spec. Clamping retries to an int32 is    *)
(* left out: the checker's own integers end there.                          *)
(***************************************************************************)
EXTENDS ServiceResolver, Collections, SequencesExt, TLC

CONSTANTS
    NameOrder,  \* every variable and service name, sorted
    Nil         \* a variable compose could not resolve, a command not given

\* Mutant of KeyOrders: the order of a Go map.
MapOrders(names) == SetToSeqs(names)

\* The orders in which the keys of a map may end up in a list: sorted ones only.
KeyOrders(names) == {Those(NameOrder, names)}

\* compose-go's value of a variable.
Interpolated(name, source, host) ==
    CASE source.from = "template" ->
            IF source.value \in DOMAIN host THEN host[source.value] ELSE ""
      [] source.from = "bare" ->
            IF name \in DOMAIN host THEN host[name] ELSE Nil
      [] OTHER -> source.value

\* Only what is written in the raw file can be literal: an env_file is not in it.
LiteralEnvKeys(environment) ==
    {k \in DOMAIN environment : environment[k].from = "literal"}

Names(env) == {env[i].name : i \in DOMAIN env}
Strings(env) == {e \in ToSet(env) : e.source.from # "ref"}
Named(entries, k) == {e \in entries : e.name = k}

hostSourcedByCompose(s, host) ==
    {k \in DOMAIN s.environment : Interpolated(k, s.environment[k], host) # Nil}
        \ LiteralEnvKeys(s.raw.environment)

\* Mutant of hostSourcedKeys: a templated entry of the extension is not looked at.
hostSourcedUnlessGiven(s, host) ==
    hostSourcedByCompose(s, host) \ {e.name : e \in Strings(s.raw.env)}

\* Compose's values that the raw file does not give as a literal; the extension of the raw
\* file changes that, entry by entry.
hostSourcedKeys(s, host) ==
    LET given == {e.name : e \in Strings(s.raw.env)}
        last(k) == LastIn(s.raw.env, Named(Strings(s.raw.env), k))
    IN (hostSourcedByCompose(s, host) \ given)
       \union {k \in given : last(k).source.from = "template"}

Entry(name, value) == [name |-> name, value |-> value]

\* Entries keep their order and give up the host's values, the last of a name standing;
\* compose's own follow, sorted.
resolveEnvironment(s, host, order) ==
    LET secret == hostSourcedKeys(s, host)
        value(k) == Interpolated(k, s.environment[k], host)
        moved == {e \in Strings(s.env) : e.name \in secret}
        kept == Those(s.env, ToSet(s.env) \ moved)
        own == {k \in DOMAIN s.environment : value(k) # Nil} \ Names(s.env)
        inline == Those(order, own \ secret)
    IN [env |-> [i \in DOMAIN kept |->
                    Entry(kept[i].name, Interpolated(kept[i].name, kept[i].source, host))]
                \o [i \in DOMAIN inline |-> Entry(inline[i], value(inline[i]))],
        secretEnv |->
            Over([k \in own \intersect secret |-> value(k)],
                 [k \in {e.name : e \in moved} |->
                     Interpolated(k, LastIn(s.env, Named(moved, k)).source, host)])]
-----------------------------------------------------------------------------
\* Ports: the extension's stand, compose's fill in by number.

resolveServicePorts(s) ==
    LET taken(ps, p) == \E q \in ToSet(ps) : q.port = Narrow(p.target)
        add(ps, p) == IF taken(ps, p) THEN ps
                      ELSE Append(ps, [port |-> Narrow(p.target),
                                       name |-> "p" \o ToString(Narrow(p.target)),
                                       protocol |-> First(p.protocol, "TCP")])
    IN FoldLeft(add, s.extPorts, s.ports)

\* Without a port there is neither a Service nor a ServiceAccount, whatever was asked for.
resolveCreate(s, ports) ==
    IF ports = <<>> THEN [service |-> "no", account |-> "no"] ELSE s.create

Targets(s) == [i \in DOMAIN s.ports |-> s.ports[i].target]
-----------------------------------------------------------------------------
\* Probes: one record [action, port, period, timeout, threshold]; 0 leaves a field out.

NoProbe == [action |-> "none"]
Seconds(ms) == ms \div 1000

\* Mutant of Ceil: integer division.
Floor(a, b) == a \div b

Ceil(a, b) == (a + b - 1) \div b

getContainerPortName(ports, port) ==
    IF \E p \in ToSet(ports) : p.port = port
    THEN ports[SelectInSeq(ports, LAMBDA p : p.port = port)].name ELSE ""

probeForCmd(check, ports) ==
    CASE check.test = "exec" -> [action |-> "exec", port |-> ""]
      [] check.test = "http" ->
            [action |-> "httpGet",
             port |-> getContainerPortName(ports,
                                             IF check.port # 0 THEN check.port ELSE 80)]
      [] OTHER -> NoProbe  \* none to run, or curl and wget elsewhere than http://localhost

addLivenessReadinessIntervals(probe, check) ==
    Over(probe, [period |-> Seconds(check.interval), timeout |-> Seconds(check.timeout),
                 threshold |-> check.retries])

addStartUpIntervals(probe, check) ==
    LET period == Seconds(check.startInterval)
        window == Seconds(check.startPeriod)
    IN Over(probe, [period |-> period, timeout |-> Seconds(check.timeout),
                    threshold |-> IF period > 0 /\ window > 0 THEN Ceil(window, period) ELSE 0])

\* A declared probe wins, each of the three for itself.
resolveHealthCheck(s, ports) ==
    LET probe == probeForCmd(s.healthcheck, ports)
        fill(declared, derived) ==
            IF declared # NoProbe \/ probe = NoProbe THEN declared ELSE derived
        steady == addLivenessReadinessIntervals(probe, s.healthcheck)
    IN [startup   |-> fill(s.probes.startup, addStartUpIntervals(probe, s.healthcheck)),
        liveness  |-> fill(s.probes.liveness, steady),
        readiness |-> fill(s.probes.readiness, steady)]
-----------------------------------------------------------------------------
BadPaths(paths) ==
    \/ \E i \in DOMAIN paths : ~paths[i].local
    \/ \E i, j \in DOMAIN paths : i # j /\ paths[i].name = paths[j].name

\* The error of the first step that has one.
resolveError(s, host, sha, ngrokEnabled) ==
    LET image == resolveServiceImage(s.image, s.ref, sha)
        ports == resolveServicePorts(s)
        ngrok == resolveNgrok(s.topPolicy, s.ngrok, {p.port : p \in ToSet(ports)}, ngrokEnabled)
    IN IF ~s.skip /\ image.error # "none" THEN image.error
       ELSE IF InvalidPorts(Targets(s)) THEN "invalid_port"
       ELSE IF s.deploymentType \notin {"", "service", "job"} THEN "invalid_deployment_type"
       ELSE IF BadPaths(s.manifests) THEN "manifest_path"
       ELSE IF BadPaths(s.configMapFrom) \/ \E p \in ToSet(s.configMapFrom) : ~p.isKey
            THEN "config_map_from_path"
       ELSE ngrok.error

\* order is the one the keys of environment are met in.
resolve(s, host, sha, ngrokEnabled, order) ==
    LET ports == resolveServicePorts(s)
        split == resolveEnvironment(s, host, order)
    IN [skip |-> s.skip, recreate |-> s.recreate, job |-> s.deploymentType = "job",
        image |-> IF s.skip THEN s.image ELSE resolveServiceImage(s.image, s.ref, sha),
        command |-> IF s.extCommand = Nil THEN s.command ELSE s.extCommand,
        ports |-> ports, create |-> resolveCreate(s, ports),
        probes |-> resolveHealthCheck(s, ports),
        env |-> split.env, secretEnv |-> split.secretEnv, envFrom |-> s.envFrom,
        ngrok |-> resolveNgrok(s.topPolicy, s.ngrok,
                               {p.port : p \in ToSet(ports)}, ngrokEnabled).ngrok,
        manifests |-> s.manifests, configMapFrom |-> s.configMapFrom, spec |-> s.spec]
=============================================================================
