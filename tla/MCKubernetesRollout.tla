------------------------ MODULE MCKubernetesRollout ------------------------
(* One service, api, as its developer changes it; web is a service next to it. *)
EXTENDS KubernetesRollout

MCNameOrder == <<"A", "B", "C", "api", "web">>

Literal(v) == [from |-> "literal", value |-> v]
Template(v) == [from |-> "template", value |-> v]
Bare == [from |-> "bare", value |-> ""]
FromFile(v) == [from |-> "file", value |-> v]
ValueFrom(v) == [from |-> "ref", value |-> v]

NoCheck == [test |-> "none", port |-> 0, interval |-> 0, startInterval |-> 0,
            startPeriod |-> 0, timeout |-> 0, retries |-> 0]
Http(port) == [NoCheck EXCEPT !.test = "http", !.port = port, !.interval = 1500, !.retries = 3]
Exec(period, interval) ==
    [NoCheck EXCEPT !.test = "exec", !.startPeriod = period, !.startInterval = interval]

File(file, name) == [file |-> file, name |-> name, local |-> TRUE, isKey |-> TRUE]

Base ==
    [skip |-> FALSE, recreate |-> FALSE, deploymentType |-> "",
     image |-> [repository |-> "", tag |-> NoTag], ref |-> Ref("api", ""),
     command |-> "serve", extCommand |-> Nil, spec |-> "spec",
     ports |-> <<[target |-> 80, protocol |-> ""]>>, extPorts |-> <<>>,
     create |-> [service |-> "unset", account |-> "unset"],
     healthcheck |-> NoCheck,
     probes |-> [startup |-> NoProbe, liveness |-> NoProbe, readiness |-> NoProbe],
     environment |-> NoData, env |-> <<>>, raw |-> [environment |-> NoData, env |-> <<>>],
     envFrom |-> {},
     ngrok |-> NoNgrok, topPolicy |-> "", manifests |-> <<>>, configMapFrom |-> <<>>]

\* What the file that declares the service says, unless an input says otherwise: all but
\* the values of env files.
RawOf(service) ==
    [environment |-> [k \in {n \in DOMAIN service.environment : service.environment[n].from # "file"}
                        |-> service.environment[k]],
     env |-> service.env]

Input(service) ==
    [service |-> [service EXCEPT !.raw = RawOf(service)], host |-> NoData, disk |-> [f \in {"conf", "pvc"} |-> "v1"],
     token |-> "", neighbours |-> {}]

\* Variables: unset, changed, literal, from a file, moved between sources.
Composed == [Base EXCEPT !.environment =
    [k \in {"A", "B", "C"} |-> CASE k = "A" -> Bare [] k = "B" -> Template("X") [] OTHER -> Literal("lit")]]
Extended == [Base EXCEPT
    !.environment = [k \in {"A", "B", "C"} |-> IF k = "C" THEN FromFile("secret") ELSE Literal("lit")],
    !.env = <<[name |-> "B", source |-> Template("X")], [name |-> "A", source |-> ValueFrom("key")]>>,
    !.envFrom = {"C"}]
Moved == [Base EXCEPT
    !.environment = [k \in {"A", "B"} |-> IF k = "A" THEN Template("X") ELSE Bare],
    !.env = <<[name |-> "A", source |-> Literal("plain")]>>]

Hosts == {NoData, [v \in {"X"} |-> "x1"], [v \in {"A", "X"} |-> IF v = "A" THEN "a1" ELSE "x2"]}

Variables == {[Input(s) EXCEPT !.host = h] : s \in {Composed, Extended}, h \in Hosts}
    \union {[Input(Moved) EXCEPT !.host = [v \in {"B"} |-> "b1"]]}
    \union {[Input([Composed EXCEPT !.recreate = TRUE]) EXCEPT !.host = [v \in {"X"} |-> "x1"]]}

\* The service is declared by an included file too, which gives what the raw file does not;
\* and names that are given more than once.
Entries(env) == [Base EXCEPT !.environment = [k \in {"A", "B"} |-> IF k = "A" THEN Template("X") ELSE Literal("lit")],
                             !.env = env]
A(source) == [name |-> "A", source |-> source]
X1 == [v \in {"X"} |-> "x1"]
From(env, rawEnvironment, rawEnv) ==
    [Input(Entries(env)) EXCEPT !.host = X1,
                                !.service.raw = [environment |-> rawEnvironment, env |-> rawEnv]]
InRaw == RawOf(Entries(<<>>)).environment
Merged ==
    {From(<<A(Literal("plain"))>>, NoData, <<>>),
     From(<<A(Literal("plain")), A(Template("X"))>>, InRaw, <<A(Template("X"))>>),
     From(<<A(Literal("one")), A(Literal("two"))>>, InRaw, <<A(Literal("one")), A(Literal("two"))>>),
     From(<<A(Template("X")), A(Template("Y"))>>, NoData, <<A(Template("X")), A(Template("Y"))>>),
     From(<<A(Template("X")), A(Literal("plain"))>>, InRaw, <<A(Literal("plain"))>>),
     From(<<A(Template("X")), A(ValueFrom("key"))>>, InRaw, <<A(ValueFrom("key"))>>),
     From(<<[name |-> "C", source |-> Template("X")]>>, InRaw, <<>>)}

\* Files.
WithFiles == [Base EXCEPT !.configMapFrom = <<File("conf", "conf")>>, !.manifests = <<File("pvc", "pvc")>>]
Files == {[Input(WithFiles) EXCEPT !.disk["conf"] = c] : c \in {"v1", "v2", "gone", "binary"}}
    \union {[Input(WithFiles) EXCEPT !.disk["pvc"] = "gone"]}
    \union {[Input([WithFiles EXCEPT !.deploymentType = "job"]) EXCEPT !.disk["conf"] = "v2"]}

\* Probes.
Probes == {Input([Base EXCEPT !.healthcheck = check]) :
              check \in {Http(80), Http(8080), Http(0), Exec(10000, 4000), Exec(9500, 3000), Exec(9500, 500)}}
    \union {Input([Base EXCEPT !.healthcheck = Exec(10000, 4000),
                               !.probes.startup = [action |-> "declared"]])}

\* What of the service is created, and with which command.
Objects == {Input([Base EXCEPT !.create = [service |-> "no", account |-> "yes"], !.extCommand = ""]),
            Input([Base EXCEPT !.create.account = "yes", !.ports = <<>>])}

\* What is published, by whom, with which token.
Served == [Base EXCEPT !.ngrok.port = 80, !.topPolicy = "policy",
                       !.extPorts = <<[port |-> 53, name |-> "dns", protocol |-> "UDP"]>>]
Published == {[Input(Served) EXCEPT !.token = t, !.neighbours = {"web"}] : t \in {"", "t1", "t2"}}
    \union {[Input(s) EXCEPT !.token = "t1"] :
               s \in {Served, [Served EXCEPT !.skip = TRUE], [Served EXCEPT !.deploymentType = "job"]}}

\* Services the resolver refuses.
Refused == {[Input(s) EXCEPT !.token = "t1"] : s \in {
    [Base EXCEPT !.ref = DigestRef("api")],
    [Base EXCEPT !.ref = NoRef],
    [Base EXCEPT !.ports = <<[target |-> 65536 + 80, protocol |-> ""]>>],
    [Base EXCEPT !.deploymentType = "services"],
    [Base EXCEPT !.manifests = <<File("pvc", "x"), File("conf", "x")>>],
    [Base EXCEPT !.ngrok.port = 8080]}}

MCInputs == Variables \union Merged \union Files \union Probes \union Objects \union Published
                \union Refused
=============================================================================
