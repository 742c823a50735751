--------------------------- MODULE ChartTemplates ---------------------------
(***************************************************************************)
(* The in-memory charts (deployer/helm/chart.go) and what their templates   *)
(* (templates.go) render to. A chart is what Helm keeps of a release:       *)
(*   workload: "deployment" or "job"; template: its pod template;           *)
(*   secret and configMap: their data, empty when the object is not         *)
(*   rendered; service and account: what of them is; manifests.             *)
(*                                                                          *)
(* A checksum annotation stands for the content it is the hash of. Labels,  *)
(* names and wording are left out; every object bears the service's name.   *)
(***************************************************************************)
EXTENDS KubernetesService

NoData == [k \in {} |-> Nil]

\* The content of a file when the chart is built: "gone" when there is none, "binary"
\* when it is not text.
Reads(paths, disk, unusable) == \A p \in ToSet(paths) : disk[p.file] \notin unusable

buildError(service, disk) ==
    IF ~Reads(service.manifests, disk, {"gone"}) THEN "manifest_read"
    ELSE IF ~Reads(service.configMapFrom, disk, {"gone"}) THEN "config_map_file_read"
    ELSE IF ~Reads(service.configMapFrom, disk, {"binary"}) THEN "config_map_file_encoding"
    ELSE "none"

Contents(paths, disk) ==
    [name \in {p.name : p \in ToSet(paths)} |->
        disk[(CHOOSE p \in ToSet(paths) : p.name = name).file]]

\* Mutant of Annotations: the pods say nothing of the Secret.
FilesOnly(secret, files) == [configMap |-> files, secret |-> NoData]

\* checksum/configmap and checksum/secret.
Annotations(secret, files) == [configMap |-> files, secret |-> secret]

\* The Secret first, so that a source the developer declares wins over it.
EnvFrom(secret, declared) ==
    (IF secret # NoData THEN <<"secret">> ELSE <<>>) \o (IF declared # {} THEN <<"declared">> ELSE <<>>)

\* values.yaml: what is not said otherwise is created.
Created(create) == create # "no"

PodTemplate(service, files) ==
    [account |-> Created(service.create.account), image |-> service.image, command |-> service.command, ports |-> service.ports,
     env |-> service.env, envFrom |-> EnvFrom(service.secretEnv, service.envFrom),
     declares |-> service.envFrom, spec |-> service.spec,
     annotations |-> Annotations(service.secretEnv, files)]

\* Probes are a deployment's only.
DeploymentPod(service, files) == Over(PodTemplate(service, files), [probes |-> service.probes])

\* Rendered when it has data.
SecretData(service) == service.secretEnv

ConfigMapData(service, disk) == Contents(service.configMapFrom, disk)

ServicePorts(service) == IF Created(service.create.service) THEN service.ports ELSE <<>>

\* What both kinds of chart render.
Shared(service, disk) ==
    [secret |-> SecretData(service), configMap |-> ConfigMapData(service, disk),
     account |-> Created(service.create.account), manifests |-> Contents(service.manifests, disk)]

serviceFiles(service, disk) ==
    Over([workload |-> "deployment",
          template |-> DeploymentPod(service, ConfigMapData(service, disk)),
          service |-> ServicePorts(service)], Shared(service, disk))

jobFiles(service, disk) ==
    Over([workload |-> "job",
          template |-> PodTemplate(service, ConfigMapData(service, disk)),
          service |-> <<>>], Shared(service, disk))

Build(service, disk) ==
    IF service.job THEN jobFiles(service, disk) ELSE serviceFiles(service, disk)
-----------------------------------------------------------------------------
\* The agent's chart: the template is constant but for its two annotations.

\* Mutant of agentAnnotations: a rotated token does not roll the agent.
ConfigChecksumOnly(endpoints, token) == [configMap |-> endpoints, secret |-> NoData]

\* ngrokConfigChecksum and ngrokSecretChecksum.
agentAnnotations(endpoints, token) == [configMap |-> endpoints, secret |-> token]

\* ngrok.yml: one endpoint each, in the order given.
AgentConfig(endpoints) == [f \in {"ngrok.yml"} |-> endpoints]

AgentSecret(token) == [k \in {"NGROK_AUTHTOKEN"} |-> token]

\* NgrokValues, through the deployment's template.
AgentPod(endpoints, token) ==
    [env |-> <<>>, envFrom |-> <<"secret">>, declares |-> {},
     annotations |-> agentAnnotations(endpoints, token)]

BuildNgrok(endpoints, token) ==
    [workload |-> "deployment", template |-> AgentPod(endpoints, token),
     secret |-> AgentSecret(token), configMap |-> AgentConfig(endpoints),
     service |-> <<>>, account |-> TRUE, manifests |-> NoData]
=============================================================================
