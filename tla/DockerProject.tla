--------------------------- MODULE DockerProject ---------------------------
(***************************************************************************)
(* minienv deploy to a Docker host from the first read of the compose file  *)
(* to the table of URLs: the loader, Docker.Init and the resolver, the git  *)
(* client's cache, the image build, the rewritten project, the lookup.      *)
(* DockerDeployer has what happens on the remote host; here that is Up.     *)
(*                                                                          *)
(* The project is read three times, by LoadCore, by Init and, after the     *)
(* images are built, by ReloadWithNewName; the developer may edit the file  *)
(* or commit in between. The include walk (IncludeWalk) reads with Init.    *)
(* An edition of the file is [broken, top, services], services[s] what      *)
(* compose-go loads of service s with its extension and its directory.      *)
(* Names of endpoints are pairs, "<namespace>-<service>" in the code.       *)
(***************************************************************************)
EXTENDS ComposeRewrite, EndpointPaging

CONSTANTS
    Editions,
    Environments, \* [token, apiKey, dryRun], TRUE where the variable or flag is set
    Shas,
    Dirs,         \* dir of a service
    MaxChanges,   \* of the files and the repositories, while minienv runs
    Nothing       \* no content rendered yet

ASSUME PipelineAssumption == MaxChanges \in Nat /\ Shas # {}

\* What compose-go loads has no dangling depends_on.
ASSUME EditionsAssumption ==
    \A e \in Editions : \A s \in DOMAIN e.services :
        LET svc == e.services[s]
        IN /\ svc.dependsOn \subseteq DOMAIN e.services
           /\ svc.dir \in Dirs /\ svc.ports \in Seq(Nat)
           /\ svc.image \in [repository : STRING, tag : [name : STRING, sha : {"", "+git"}]]
           /\ svc.ngrok \in [port : Nat, trafficPolicy : STRING, url : STRING]

VARIABLES
    files,    \* the edition on disk
    head,     \* head[dir]: the short SHA there, "" outside of a repository
    changes,
    env,
    pc,       \* "load", "init", "resolve", "build", "render", "up", "lookup", "done"
    dockerExt, \* the top-level extension as LoadCore read it
    project,  \* the services as Init read them
    services, \* the resolved ones
    cache,    \* GitClient.cache
    pushed,
    content,  \* the compose.yml to send
    outcome   \* "none" while it runs, "ok", or what it failed with

vars == <<files, head, changes, env, pc, dockerExt, project, services, cache, pushed,
          content, outcome, pagingVars>>

world == <<files, head, changes, env>>
NoServices == [s \in {} |-> Nothing]

Init ==
    /\ files \in Editions /\ env \in Environments
    /\ head \in {[d \in Dirs |-> IF d \in outside THEN "" ELSE CHOOSE sha \in Shas : TRUE] :
                    outside \in SUBSET Dirs}
    /\ changes = 0 /\ pc = "load"
    /\ dockerExt = Nothing /\ project = NoServices /\ services = NoServices
    /\ cache = [d \in {} |-> ""] /\ pushed = {} /\ content = Nothing /\ outcome = "none"
    /\ PagingInit

End(result) == pc' = "done" /\ outcome' = result
Proceed(step) == pc' = step /\ outcome' = outcome

\* Until the last read.
Changing == pc \in {"load", "init", "resolve", "build", "render"} /\ changes < MaxChanges
            /\ changes' = changes + 1

Edit ==
    /\ Changing
    /\ files' \in Editions \ {files}
    /\ UNCHANGED <<head, env, pc, dockerExt, project, services, cache, pushed, content,
                   outcome, pagingVars>>

Commit(dir) ==
    /\ Changing
    /\ head[dir] # "" /\ \E sha \in Shas \ {head[dir]} : head' = [head EXCEPT ![dir] = sha]
    /\ UNCHANGED <<files, env, pc, dockerExt, project, services, cache, pushed, content,
                   outcome, pagingVars>>
-----------------------------------------------------------------------------
\* Targets are counted before any is built; ssh is the only transport.
loadActiveDeployer(top) ==
    IF top.extension # "ok" THEN top.extension
    ELSE IF Cardinality(top.deployers) > 1 THEN "multiple_deployers"
    ELSE IF top.deployers = {} THEN "no_active_deployer"
    ELSE IF top.deployers = {"docker"} /\ top.ssh # "ok" THEN top.ssh
    ELSE "none"

LoadCore ==
    /\ pc = "load"
    /\ dockerExt' = files.top
    /\ LET error == IF files.broken THEN "project_load" ELSE loadActiveDeployer(files.top)
       IN IF error # "none" THEN End(error)
          ELSE IF files.top.deployers = {"k8s"} THEN End("kubernetes")
          ELSE Proceed("init")
    /\ UNCHANGED <<world, project, services, cache, pushed, content, pagingVars>>

\* Of the Docker deployer; the namespace is the normalized one.
InitDeployer ==
    /\ pc = "init"
    /\ IF dockerExt.namespace = "" THEN End("invalid_extension") /\ UNCHANGED project
       ELSE IF files.broken THEN End("project_load") /\ UNCHANGED project
       ELSE Proceed("resolve") /\ project' = files.services
    /\ UNCHANGED <<world, dockerExt, services, cache, pushed, content, pagingVars>>

copyError(copies, i) ==
    IF ~copies[i].local THEN "copy_host_path"
    ELSE IF \/ ~copies[i].absolute
            \/ \E j \in 1..(i - 1) : copies[j].containerPath = copies[i].containerPath
         THEN "copy_container_path"
    ELSE "none"

\* hostPath is the cleaned one, local unless it is ".".
resolveCopy(copies) ==
    LET bad == {i \in DOMAIN copies : copyError(copies, i) # "none"}
    IN [error  |-> IF bad = {} THEN "none"
                   ELSE copyError(copies, CHOOSE i \in bad : \A j \in bad : i <= j),
        copies |-> {[hostPath |-> c.hostPath, containerPath |-> c.containerPath] :
                       c \in Range(copies)}]

\* Mutant of ShortSha: no cache.
HeadNow(dir) == head[dir]

ShortSha(dir) == IF dir \in DOMAIN cache THEN cache[dir] ELSE head[dir]

AsksGit(svc) == ~svc.skip /\ ~svc.ref.digest /\ svc.image.tag.sha = "+git"

resolve(svc) ==
    LET image == IF svc.skip
                 THEN [error |-> "none", repository |-> svc.image.repository, tag |-> svc.image.tag]
                 ELSE resolveServiceImage(svc.image, svc.ref, ShortSha(svc.dir))
        copy == resolveCopy(svc.copies)
        ngrok == resolveNgrok("", svc.ngrok, {Narrow(p) : p \in Range(svc.ports)}, env.token)
    IN [error |-> IF image.error # "none" THEN image.error
                  ELSE IF copy.error # "none" THEN copy.error
                  ELSE IF InvalidPorts(svc.ports) THEN "invalid_port"
                  ELSE ngrok.error,
        service |-> [skip |-> svc.skip, copies |-> copy.copies, ngrok |-> ngrok.ngrok,
                     image |-> [repository |-> image.repository, tag |-> image.tag]]]

\* The services come in the order of a map; one that is refused ends it all.
ResolveService(s) ==
    /\ pc = "resolve" /\ s \in DOMAIN project \ DOMAIN services
    /\ LET svc == project[s]
           resolved == resolve(svc)
       IN /\ cache' = IF AsksGit(svc) /\ ShortSha(svc.dir) # ""
                      THEN Put(cache, svc.dir, ShortSha(svc.dir)) ELSE cache
          /\ IF resolved.error = "none"
             THEN services' = Put(services, s, resolved.service) /\ Proceed("resolve")
             ELSE services' = NoServices /\ End(resolved.error)
    /\ UNCHANGED <<world, dockerExt, project, pushed, content, pagingVars>>

\* Mutant of Resolved: Init ends before the last service.
ResolvedEarly ==
    /\ pc = "resolve"
    /\ Proceed("build")
    /\ UNCHANGED <<world, dockerExt, project, services, cache, pushed, content, pagingVars>>

Resolved ==
    /\ pc = "resolve" /\ DOMAIN services = DOMAIN project
    /\ Proceed("build")
    /\ UNCHANGED <<world, dockerExt, project, services, cache, pushed, content, pagingVars>>
-----------------------------------------------------------------------------
Published == {s \in DOMAIN services : services[s].ngrok.port # 0 /\ ~services[s].skip}

Kept == DOMAIN services \ Skipped(services)

\* getFilteredList: what has no Dockerfile is passed over with a warning.
Built ==
    {s \in Kept : project[s].build = "file" /\ services[s].image.repository # ""
                  /\ services[s].image.tag # NoTag}

\* A dry run plans the build and pushes nothing.
BuildAndPush ==
    /\ pc = "build"
    /\ pushed' = IF env.dryRun THEN pushed ELSE pushed \union {services[s].image : s \in Built}
    /\ Proceed("render")
    /\ UNCHANGED <<world, dockerExt, project, services, cache, content, pagingVars>>

FailBuild ==
    /\ pc = "build" /\ Built # {}
    /\ End("build")
    /\ UNCHANGED <<world, dockerExt, project, services, cache, pushed, content, pagingVars>>

ImageOf(ref) == [repository |-> ref.repository, tag |-> Tag(ref.tag)]

Reloaded ==
    [s \in DOMAIN files.services |->
        LET svc == files.services[s]
        IN [image |-> ImageOf(svc.ref), build |-> svc.build, ports |-> svc.ports,
            volumes |-> svc.volumes, dependsOn |-> svc.dependsOn, files |-> svc.files]]

\* remoteContent: from the files as they are by now and the services as they were resolved.
Render ==
    /\ pc = "render"
    /\ LET publishes == Published # {}
           error == IF files.broken THEN "reload_project"
                    ELSE imageError(Arranged(Reloaded, services, publishes), services)
       IN IF error = "none"
          THEN /\ content' = modifyComposeContent(Reloaded, services, publishes)
               /\ Proceed(IF env.dryRun THEN "lookup" ELSE "up")
          ELSE content' = content /\ End(error)
    /\ UNCHANGED <<world, dockerExt, project, services, cache, pushed, pagingVars>>

Up ==
    /\ pc = "up"
    /\ \/ Proceed("lookup")
       \/ End("deploy")
    /\ UNCHANGED <<world, dockerExt, project, services, cache, pushed, content, pagingVars>>
-----------------------------------------------------------------------------
PublishedNames == {<<dockerExt.namespace, s>> : s \in Published}

\* Of a dry run too.
PublishedServiceUrls ==
    /\ pc = "lookup" /\ Published # {}
    /\ \/ BeginLookup(env.apiKey)
       \/ CollectPage(PublishedNames)
       \/ FailPage(PublishedNames)
    /\ UNCHANGED <<world, pc, dockerExt, project, services, cache, pushed, content, outcome>>

\* A failed lookup is only a warning.
printPublishedUrls ==
    /\ pc = "lookup"
    /\ Published = {} \/ lookup \in {"found", "failed"}
    /\ End("ok")
    /\ UNCHANGED <<world, dockerExt, project, services, cache, pushed, content, pagingVars>>

Exited == pc = "done" /\ UNCHANGED vars

Next ==
    \/ Edit \/ \E d \in Dirs : Commit(d)
    \/ LoadCore \/ InitDeployer
    \/ \E s \in DOMAIN project : ResolveService(s)
    \/ Resolved \/ BuildAndPush \/ FailBuild \/ Render \/ Up
    \/ PublishedServiceUrls \/ printPublishedUrls \/ Exited

Spec == Init /\ [][Next]_vars
-----------------------------------------------------------------------------
\* The page that is the i-th on the way from the first one.
Way == LET page[i \in 1..MaxPages] ==
             IF i = 1 THEN FirstPage
             ELSE IF page[i - 1] = NoPage THEN NoPage ELSE account[page[i - 1]].next
       IN page

Followed == {i \in 1..MaxPages : Way[i] # NoPage}

\* Where a name is on the way: <<page, position>>.
Occurrences(name) ==
    UNION {{<<i, j>> : j \in {k \in DOMAIN account[Way[i]].endpoints :
                                 account[Way[i]].endpoints[k].name = name}} : i \in Followed}

Precedes(a, b) == a[1] < b[1] \/ (a[1] = b[1] /\ a[2] < b[2])

Remote == {s \in DOMAIN content : s # Agent}

\* Types; past Init every service of the project is resolved, and before it none counts.
PipelineTypeOK ==
    /\ files \in Editions /\ changes \in 0..MaxChanges
    /\ head \in [Dirs -> Shas \union {""}]
    /\ \A d \in DOMAIN cache : d \in Dirs /\ cache[d] \in Shas
    /\ DOMAIN services \subseteq DOMAIN project
    /\ pc \in {"build", "render", "up", "lookup"} => DOMAIN services = DOMAIN project
    /\ (outcome = "none" <=> pc # "done")
    /\ lookup \in {"none", "paging", "found", "failed"} /\ followed \in 0..MaxPages

\* Whatever was edited while it ran, the project that is sent can be brought up on another
\* machine: it depends on nothing that is not in it, builds nothing, opens no port, names
\* no local file, mounts only what copyFiles sends, gives every service an image, and has
\* the agent exactly when something is published, started after every other service.
RenderedProject ==
    content # Nothing =>
        /\ \A s \in DOMAIN content :
              content[s].dependsOn \subseteq DOMAIN content /\ content[s].image # NoImage
        /\ \A s \in Remote :
              /\ content[s].build = "none" /\ content[s].ports = <<>> /\ ~content[s].files
              /\ \A v \in content[s].volumes :
                    v.type = "bind" =>
                        s \in Kept /\ \E c \in services[s].copies :
                                         v = Bind(copyRemotePath(s, c), c.containerPath)
        /\ Agent \in DOMAIN content <=> Published # {}
        /\ Agent \in DOMAIN content => content[Agent].dependsOn = Remote

\* An image as docker reads it.
WithTag(image) ==
    [repository |-> image.repository,
     tag |-> IF image.tag = NoTag THEN Tag("latest") ELSE image.tag]

\* When the files are at the last read what they were at Init, what is sent is what was
\* resolved: the services not skipped, each with every copy it declares; an endpoint's
\* upstream is a port that its service has, as written; a service with a Dockerfile has
\* the image this run has pushed; and the services of one directory carry one SHA whatever
\* was committed meanwhile (git/client.go: "services declared from the same directory
\* share a sha"). Where the compose file and the extension both name an image, the host is
\* sent the former although the latter was resolved, built and pushed: docs/src/deployers.md:91
\* ("Pins `image:` | To the repository and tag resolved for this run") is not kept.
DeployedAsResolved ==
    content # Nothing /\ files.services = project =>
        /\ Remote = Kept
        /\ \A s \in Kept :
              {v.target : v \in {w \in content[s].volumes : w.type = "bind"}}
                  = {c.containerPath : c \in Range(project[s].copies)}
        /\ \A s \in Published : project[s].ngrok.port \in Range(project[s].ports)
        /\ \A s \in Kept :
              project[s].build = "file" /\ ~env.dryRun =>
                  \/ WithTag(content[s].image) \in pushed
                  \/ /\ project[s].ref # NoRef /\ project[s].image # NoImage
                     /\ content[s].image = ImageOf(project[s].ref)
        /\ \A s, t \in {r \in Kept : project[r].image.tag.sha = "+git"} :
              project[s].dir = project[t].dir =>
                  services[s].image.tag.sha = services[t].image.tag.sha

\* The table has every published endpoint that the first MaxPages pages on the way list,
\* each with its last URL there, and nothing else of the account, whether the pages end
\* or go round; and no answer of ngrok makes the deploy fail.
TableComplete ==
    /\ lookup = "found" =>
          /\ DOMAIN urls = {n \in PublishedNames : Occurrences(n) # {}}
          /\ \A n \in DOMAIN urls :
                LET last == CHOOSE o \in Occurrences(n) :
                               \A p \in Occurrences(n) \ {o} : Precedes(p, o)
                IN urls[n] = account[Way[last[1]]].endpoints[last[2]].url
    /\ lookup # "none" /\ pc = "done" => outcome = "ok"
=============================================================================
