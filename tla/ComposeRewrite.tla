--------------------------- MODULE ComposeRewrite ---------------------------
(***************************************************************************)
(* How the Docker deployer turns the developer's compose project into the   *)
(* one it sends: the rewrites of compose/project.go, in the order           *)
(* modifyComposeContent calls them, on a project that was loaded afresh.    *)
(*                                                                          *)
(* A project maps a service's name to [image, build, ports, volumes,        *)
(* dependsOn, files] - files says that it has env_file or label_file; a     *)
(* volume is [type, source, target]. services is what Init resolved, which  *)
(* may be of an earlier edition: [skip, image, copies] by name.             *)
(*                                                                          *)
(* Renaming, empty commands and the escaping of "$" are left out: nothing   *)
(* here depends on them.                                                    *)
(***************************************************************************)
EXTENDS ServiceResolver, Collections, FiniteSets, Functions

Agent == "ngrok"
NoImage == [repository |-> "", tag |-> NoTag]
AgentImage == [repository |-> "ngrok/ngrok", tag |-> Tag("fixed")]

RemoveServices(project, names) ==
    [s \in DOMAIN project \ names |-> [project[s] EXCEPT !.dependsOn = @ \ names]]

\* ClearBuildSettings, ClearPortMappings, ClearEnvAndLabelFiles.
ClearLocal(project) ==
    [s \in DOMAIN project |->
        [project[s] EXCEPT !.build = "none", !.ports = <<>>, !.files = FALSE]]

ClearServiceVolumes(project) ==
    [s \in DOMAIN project |->
        [project[s] EXCEPT !.volumes = {v \in @ : v.type # "bind"}]]

copyRemotePath(name, copy) == <<"copies", name, copy.hostPath>>

Bind(source, target) == [type |-> "bind", source |-> source, target |-> target]

\* A service that is resolved but no longer in the project mounts nothing.
bindCopies(project, services) ==
    [s \in DOMAIN project |->
        IF s \in DOMAIN services /\ ~services[s].skip
        THEN [project[s] EXCEPT !.volumes = @ \union
                {Bind(copyRemotePath(s, c), c.containerPath) : c \in services[s].copies}]
        ELSE project[s]]

InjectNgrokService(project) ==
    Put(project, Agent,
        [image |-> AgentImage, build |-> "none", ports |-> <<>>,
         volumes |-> {Bind(<<"ngrok.yml">>, "/home/ngrok/.config/ngrok")},
         dependsOn |-> DOMAIN project, files |-> FALSE])

\* The image a service names itself stands; the extension's fills in.
Imageless(project) == {s \in DOMAIN project : project[s].image = NoImage}

imageError(project, services) ==
    IF \E s \in Imageless(project) : s \notin DOMAIN services THEN "missing_service"
    ELSE IF \E s \in Imageless(project) :
               services[s].image.repository = "" \/ services[s].image.tag = NoTag
         THEN "missing_image"
    ELSE "none"

SetImages(project, services) ==
    [s \in DOMAIN project |->
        IF s \in Imageless(project)
        THEN [project[s] EXCEPT !.image = [repository |-> services[s].image.repository,
                                           tag |-> services[s].image.tag]]
        ELSE project[s]]

Skipped(services) == {s \in DOMAIN services : services[s].skip}

\* Mutant of Arranged: the agent is injected before the skipped services go.
AgentFirst(project, services, publishes) ==
    LET agent == IF publishes THEN InjectNgrokService(project) ELSE project
        kept == [s \in DOMAIN agent \ Skipped(services) |-> agent[s]]
    IN bindCopies(ClearServiceVolumes(ClearLocal(kept)), services)

\* Everything up to the images.
Arranged(project, services, publishes) ==
    LET kept == RemoveServices(project, Skipped(services))
        bound == bindCopies(ClearServiceVolumes(ClearLocal(kept)), services)
    IN IF publishes THEN InjectNgrokService(bound) ELSE bound

modifyComposeContent(project, services, publishes) ==
    SetImages(Arranged(project, services, publishes), services)
=============================================================================
