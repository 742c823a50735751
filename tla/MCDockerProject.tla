-------------------------- MODULE MCDockerProject --------------------------
(* web, api and db of one compose file; lib is declared in another repository. *)
EXTENDS DockerProject

Top == [extension |-> "ok", deployers |-> {"docker"}, ssh |-> "ok", namespace |-> "env"]

Volume(type, source) == [type |-> type, source |-> <<source>>, target |-> "/data"]
Copy(path, container) ==
    [hostPath |-> path, local |-> TRUE, containerPath |-> container, absolute |-> TRUE]

Image(repository, tag) == [repository |-> repository, tag |-> tag]

Base ==
    [ref |-> Ref("hub/db", ""), build |-> "none", ports |-> <<>>, volumes |-> {},
     dependsOn |-> {}, files |-> FALSE, skip |-> FALSE, image |-> NoImage,
     copies |-> <<>>, ngrok |-> NoNgrok, dir |-> "here"]

Web == [Base EXCEPT !.ref = NoRef, !.build = "file", !.image = Image("hub/web", GitTag("v")),
                    !.ports = <<80>>, !.ngrok.port = 80, !.dependsOn = {"api"},
                    !.volumes = {Volume("bind", "./web"), Volume("volume", "cache")},
                    !.copies = <<Copy("conf", "/etc/web"), Copy("conf", "/etc/other")>>]
Api == [Base EXCEPT !.ref = NoRef, !.build = "file", !.image = Image("hub/api", GitTag("v")),
                    !.ports = <<8080>>, !.files = TRUE, !.copies = <<Copy("conf", "/etc/api")>>]

Whole == [s \in {"web", "api"} |-> IF s = "web" THEN Web ELSE Api]

Of(all) == [broken |-> FALSE, top |-> Top, services |-> all]
With(s, svc) == Of([Whole EXCEPT ![s] = svc])

Whose(top) == [broken |-> FALSE, top |-> top, services |-> Whole]

\* Editions that deploy.
Usable == {
    Of(Whole),
    With("api", [Api EXCEPT !.skip = TRUE, !.ngrok.port = 8080]),
    With("api", [Api EXCEPT !.build = "inline", !.dir = "lib"]),
    With("api", [Base EXCEPT !.build = "file", !.image = Image("hub/other", Tag("1"))]),
    Of([s \in {"web", "db"} |-> IF s = "web" THEN [Web EXCEPT !.dependsOn = {"db"}, !.ngrok = NoNgrok]
                                ELSE [Base EXCEPT !.build = "file"]])}

\* Editions that something refuses.
Refused == {
    [broken |-> TRUE, top |-> Top, services |-> Whole],
    Whose([Top EXCEPT !.extension = "no_extension"]),
    Whose([Top EXCEPT !.deployers = {"docker", "k8s"}]),
    Whose([Top EXCEPT !.deployers = {}]),
    Whose([Top EXCEPT !.deployers = {"k8s"}]),
    Whose([Top EXCEPT !.ssh = "no_active_transport"]),
    Whose([Top EXCEPT !.namespace = ""]),
    With("api", [Api EXCEPT !.image = NoImage]),
    With("api", [Api EXCEPT !.ref = DigestRef("hub/api")]),
    With("api", [Api EXCEPT !.copies = <<[Copy("x", "/x") EXCEPT !.local = FALSE]>>]),
    With("api", [Api EXCEPT !.copies = <<[Copy("x", "x") EXCEPT !.absolute = FALSE]>>]),
    With("api", [Api EXCEPT !.copies = <<Copy("x", "/x"), Copy("y", "/x")>>]),
    With("api", [Api EXCEPT !.ports = <<65536 + 80>>, !.ngrok.port = 80]),
    With("api", [Api EXCEPT !.ngrok.port = 81])}

MCEditions == Usable \union Refused

MCEnvironments == {
    [token |-> TRUE, apiKey |-> TRUE, dryRun |-> FALSE],
    [token |-> TRUE, apiKey |-> FALSE, dryRun |-> FALSE],
    [token |-> FALSE, apiKey |-> FALSE, dryRun |-> FALSE],
    [token |-> TRUE, apiKey |-> TRUE, dryRun |-> TRUE]}

Endpoint(s, url) == [name |-> <<"env", s>>, url |-> url]
Page(endpoints, next) == [endpoints |-> endpoints, next |-> next]
Pages(a, b, c) == [p \in {"p1", "p2", "p3"} |-> CASE p = "p1" -> a [] p = "p2" -> b [] OTHER -> c]

\* One after the other; going round; one that names itself, with another's endpoint and a
\* bad address; a page past the cap.
MCAccounts == {
    Pages(Page(<<Endpoint("web", "u1")>>, "p2"), Page(<<Endpoint("db", "u0")>>, "p3"),
          Page(<<Endpoint("web", "u2"), Endpoint("web", "u3")>>, NoPage)),
    Pages(Page(<<Endpoint("web", "u1")>>, "p2"), Page(<<Endpoint("web", "u2")>>, "p1"),
          Page(<<>>, NoPage)),
    Pages(Page(<<>>, "p2"), Page(<<Endpoint("web", "u1"), Endpoint("db", Malformed)>>, "p2"),
          Page(<<>>, NoPage)),
    Pages(Page(<<Endpoint("web", Malformed)>>, NoPage), Page(<<>>, NoPage), Page(<<>>, NoPage))}
=============================================================================
