--------------------------- MODULE DockerDeployer ---------------------------
(***************************************************************************)
(* The Docker deployer: successive runs of minienv deploy and minienv       *)
(* destroy against one project directory on one remote host. A deploy       *)
(* writes compose.yml, the agent's .env and ngrok.yml and the copied paths  *)
(* over the transport, one at a time, and then runs docker compose up; a    *)
(* destroy is one remote command. Any of these may fail half done, and a    *)
(* cancelled run leaves the remote command it was waiting for to go on by   *)
(* itself (ssh.go:229), beside whatever the next run does. The host may     *)
(* fall silent, which a run that has opened its sftp session cannot leave.  *)
(*                                                                          *)
(* The host's docker compose is external: it replaces a container exactly   *)
(* when its definition changed, and a container's bind mounts are those of  *)
(* the moment it started.                                                   *)
(***************************************************************************)
EXTENDS Integers, FiniteSets

CONSTANTS
    Editions,   \* the compose project as the developer has it at different times
    Absent,     \* a file or container that is not there
    Partial,    \* a file or copied path cut short while it was written
    MaxRuns,    \* bound: runs of the CLI
    MaxFaults   \* bound: failures and interrupts

\* An edition: what each service is (image, command, ...), which are marked skip,
\* which have copy entries, which publish through ngrok, and the auth token.
ASSUME EditionsAssumption ==
    \A e \in Editions :
        /\ e.skip \subseteq DOMAIN e.def
        /\ e.copy \subseteq DOMAIN e.def
        /\ e.ngrok \subseteq DOMAIN e.def

ASSUME BoundsAssumption == MaxRuns \in Nat /\ MaxFaults \in Nat

VARIABLES
    pc,           \* the run's step; "ok" and "err" end it
    run,          \* number of runs started
    cmd,          \* "deploy" or "destroy"
    edition,      \* what Init resolved for this run
    dryRun,
    interrupted,  \* SIGINT or SIGTERM has cancelled the run's context
    session,      \* the run has opened its sftp session
    silent,       \* the host does not answer
    tocopy,       \* services whose copy entries are still to be sent
    dir,          \* the project directory is there
    file,         \* the project directory's compose.yml, .env and ngrok.yml
    copies,       \* copies[s]: the run that sent the copied paths of s, 0 if none
    container,    \* container[s]: the service's container
    agent,        \* the ngrok agent's container
    proc,         \* proc[r]: the remote command run r started last
    faults,
    raced,        \* a run once began while an earlier run's command was still going
    unclean       \* a destroy once returned an error

hostVars == <<dir, file, copies, container, agent>>
runVars == <<run, cmd, edition, dryRun>>
vars == <<pc, runVars, interrupted, session, silent, tocopy, hostVars, proc, faults, raced,
          unclean>>

Service == UNION {DOMAIN e.def : e \in Editions}
Run == 1..MaxRuns
Ended == pc \in {"idle", "ok", "err"}

-----------------------------------------------------------------------------
(* What a run sends. *)

\* Skipped services are removed from the project and publish or copy nothing.
Kept(e) == DOMAIN e.def \ e.skip
Published(e) == e.ngrok \ e.skip
Copyable(e) == e.copy \ e.skip

\* Mutant of AgentLabel: the published set is left out of it.
AgentLabelOfToken(e) == e.token

\* The label of the injected agent is the checksum of ngrok.yml and the token.
AgentLabel(e) == <<Published(e), e.token>>

\* modifyComposeContent: the definition of each service that is kept, with a bind
\* mount per copy entry, and of the agent when something is published.
ComposeContent(e) ==
    [services |-> [s \in Kept(e) |-> [def |-> e.def[s], mounts |-> s \in Copyable(e)]],
     label |-> IF Published(e) = {} THEN Absent ELSE AgentLabel(e)]

\* The markers are nothing that is sent, copied or started.
ASSUME MarkersAssumption ==
    /\ Absent # Partial /\ Partial \notin 0..MaxRuns
    /\ \A e \in Editions :
          /\ ComposeContent(e) \notin {Absent, Partial} /\ AgentLabel(e) # Absent
          /\ \A s \in Kept(e), r \in 0..MaxRuns :
                [spec |-> ComposeContent(e).services[s], mount |-> r] # Absent
          /\ [label |-> AgentLabel(e), token |-> e.token, config |-> Published(e)] # Absent

-----------------------------------------------------------------------------
(* The host. *)

NoFiles == [compose |-> Absent, dotEnv |-> Absent, ngrok |-> Absent]
NoCopies == [s \in Service |-> 0]

\* left: the command could not remove all that it was to remove.
NoProc == [kind |-> "none", stage |-> "exited", ok |-> TRUE, left |-> FALSE,
           compose |-> Absent, token |-> Absent]

Live(r) == proc[r].stage # "exited"

Spawned(kind) == [NoProc EXCEPT !.kind = kind, !.stage = "start"]

SetStage(r, st) == proc' = [proc EXCEPT ![r].stage = st]
Exit(r, ok) == proc' = [proc EXCEPT ![r].stage = "exited", ![r].ok = ok]

At(r, kind, st) == proc[r].kind = kind /\ proc[r].stage = st

HostStep == UNCHANGED <<pc, runVars, interrupted, session, silent, tocopy, raced, unclean>>

NoFault == UNCHANGED faults
Fault == faults < MaxFaults /\ faults' = faults + 1

\* Mutant of RemoveNgrokFiles: the agent's .env is forgotten.
RemoveNgrokConfig(r) ==
    /\ At(r, "rmNgrok", "start")
    /\ file' = [file EXCEPT !.ngrok = Absent]
    /\ Exit(r, TRUE)
    /\ UNCHANGED <<dir, copies, container, agent>> /\ HostStep /\ NoFault

RemoveNgrokFiles(r) ==
    /\ At(r, "rmNgrok", "start")
    /\ file' = [file EXCEPT !.dotEnv = Absent, !.ngrok = Absent]
    /\ Exit(r, TRUE)
    /\ UNCHANGED <<dir, copies, container, agent>> /\ HostStep /\ NoFault

RemoveCopies(r) ==
    /\ At(r, "rmCopies", "start")
    /\ copies' = NoCopies
    /\ Exit(r, TRUE)
    /\ UNCHANGED <<dir, file, container, agent>> /\ HostStep /\ NoFault

\* docker compose up reads its files once, before it changes anything.
UpReads(r) ==
    /\ At(r, "up", "start")
    /\ IF file.compose \in {Absent, Partial}
       THEN Exit(r, FALSE)
       ELSE proc' = [proc EXCEPT ![r].stage = "services", ![r].compose = file.compose,
                                 ![r].token = file.dotEnv]
    /\ UNCHANGED hostVars /\ HostStep /\ NoFault

\* Changed definitions are recreated, orphans removed; the agent, which depends on
\* every service, comes last.
UpServices(r) ==
    LET wanted == proc[r].compose.services IN
    /\ At(r, "up", "services")
    /\ container' = [s \in Service |->
           IF s \notin DOMAIN wanted THEN Absent
           ELSE IF container[s] # Absent /\ container[s].spec = wanted[s] THEN container[s]
           ELSE [spec |-> wanted[s], mount |-> IF wanted[s].mounts THEN copies[s] ELSE 0]]
    /\ agent' = IF proc[r].compose.label = Absent THEN Absent ELSE agent
    /\ SetStage(r, "agent")
    /\ UNCHANGED <<dir, file, copies>> /\ HostStep /\ NoFault

UpAgent(r) ==
    LET label == proc[r].compose.label
        same == agent # Absent /\ agent.label = label /\ agent.token = proc[r].token IN
    /\ At(r, "up", "agent")
    /\ agent' = IF label = Absent \/ same THEN agent
                ELSE [label |-> label, token |-> proc[r].token, config |-> file.ngrok]
    /\ Exit(r, TRUE)
    /\ UNCHANGED <<dir, file, copies, container>> /\ HostStep /\ NoFault

\* cd fails: nothing was ever deployed, or an earlier destroy removed it.
DownFindsNothing(r) ==
    /\ At(r, "down", "start") /\ ~dir
    /\ Exit(r, TRUE)
    /\ UNCHANGED hostVars /\ HostStep /\ NoFault

\* Mutant of ComposeDown: the directory's removal is chained on docker compose down.
ComposeDownChained(r) ==
    /\ At(r, "down", "start") /\ dir
    /\ \/ /\ file.compose \notin {Absent, Partial}
          /\ container' = [s \in Service |-> Absent] /\ agent' = Absent
          /\ proc' = [proc EXCEPT ![r].stage = "rm", ![r].ok = TRUE] /\ NoFault
       \/ /\ UNCHANGED <<container, agent>>
          /\ Exit(r, FALSE)
          /\ IF file.compose \in {Absent, Partial} THEN NoFault ELSE Fault
    /\ UNCHANGED <<dir, file, copies>> /\ HostStep

\* docker compose down, whose status is kept for the exit.
ComposeDown(r) ==
    /\ At(r, "down", "start") /\ dir
    /\ \/ /\ file.compose \notin {Absent, Partial}
          /\ container' = [s \in Service |-> Absent] /\ agent' = Absent
          /\ proc' = [proc EXCEPT ![r].stage = "rm", ![r].ok = TRUE] /\ NoFault
       \/ /\ UNCHANGED <<container, agent>>
          /\ proc' = [proc EXCEPT ![r].stage = "rm", ![r].ok = FALSE]
          /\ IF file.compose \in {Absent, Partial} THEN NoFault ELSE Fault
    /\ UNCHANGED <<dir, file, copies>> /\ HostStep

\* Mutant of DownRemovesDirectory: the status of docker compose down is lost.
DownMasksFailure(r) ==
    /\ At(r, "down", "rm")
    /\ dir' = FALSE /\ file' = NoFiles /\ copies' = NoCopies
    /\ Exit(r, TRUE)
    /\ UNCHANGED <<container, agent>> /\ HostStep /\ NoFault

DownRemovesDirectory(r) ==
    /\ At(r, "down", "rm")
    /\ dir' = FALSE /\ file' = NoFiles /\ copies' = NoCopies
    /\ Exit(r, proc[r].ok)
    /\ UNCHANGED <<container, agent>> /\ HostStep /\ NoFault

\* rm -rf cannot remove something (a container's user owns what it wrote into the mounted
\* copies, say) and goes on with the rest; its status is not looked at.
DownLeavesFiles(r) ==
    /\ At(r, "down", "rm") /\ dir
    /\ \E gone \in SUBSET DOMAIN file :
          file' = [f \in DOMAIN file |-> IF f \in gone THEN Absent ELSE file[f]]
    /\ \E gone, cut \in SUBSET Service :
          copies' = [s \in Service |-> IF copies[s] = 0 \/ s \in gone THEN 0
                                       ELSE IF s \in cut THEN Partial ELSE copies[s]]
    /\ proc' = [proc EXCEPT ![r].stage = "exited", ![r].left = TRUE]
    /\ UNCHANGED <<dir, container, agent>> /\ HostStep /\ Fault

\* Any command may fail before its next step.
CommandFails(r) ==
    /\ Live(r)
    /\ proc' = [proc EXCEPT ![r].stage = "exited", ![r].ok = FALSE, ![r].left = TRUE]
    /\ UNCHANGED hostVars /\ HostStep /\ Fault

Host(r) ==
    \/ RemoveNgrokFiles(r) \/ RemoveCopies(r)
    \/ UpReads(r) \/ UpServices(r) \/ UpAgent(r)
    \/ DownFindsNothing(r) \/ ComposeDown(r) \/ DownRemovesDirectory(r) \/ DownLeavesFiles(r)
    \/ CommandFails(r)

-----------------------------------------------------------------------------
(* The run. *)

Init ==
    /\ pc = "idle" /\ run = 0 /\ cmd = "deploy" /\ dryRun = FALSE
    /\ edition \in Editions
    /\ interrupted = FALSE /\ session = FALSE /\ silent = FALSE /\ tocopy = {}
    /\ dir = FALSE /\ file = NoFiles /\ copies = NoCopies
    /\ container = [s \in Service |-> Absent] /\ agent = Absent
    /\ proc = [r \in Run |-> NoProc]
    /\ faults = 0 /\ raced = FALSE /\ unclean = FALSE

\* Mutant of StartRun: what an earlier run had still to copy is kept.
StartRunKeepsCopies(c, e, dry) ==
    /\ Ended /\ run < MaxRuns
    /\ run' = run + 1 /\ cmd' = c /\ edition' = e /\ dryRun' = dry
    /\ pc' = IF c = "deploy" THEN "build" ELSE IF dry THEN "ok" ELSE "down"
    /\ interrupted' = FALSE /\ session' = FALSE /\ tocopy' = tocopy \union Copyable(e)
    /\ raced' = (raced \/ \E r \in Run : Live(r))
    /\ UNCHANGED <<silent, hostVars, proc, faults, unclean>>

StartRun(c, e, dry) ==
    /\ Ended /\ run < MaxRuns
    /\ run' = run + 1 /\ cmd' = c /\ edition' = e /\ dryRun' = dry
    /\ pc' = IF c = "deploy" THEN "build" ELSE IF dry THEN "ok" ELSE "down"
    /\ interrupted' = FALSE /\ session' = FALSE /\ tocopy' = Copyable(e)
    /\ raced' = (raced \/ \E r \in Run : Live(r))
    /\ UNCHANGED <<silent, hostVars, proc, faults, unclean>>

Goto(next) ==
    /\ pc' = next
    /\ unclean' = (unclean \/ (cmd = "destroy" /\ next = "err"))
    /\ UNCHANGED <<runVars, interrupted, session, silent, raced>>

\* Mutant of Broken: blocked calls do not see the context.
BrokenByWorldOnly == Fault

\* An interrupt makes the step in progress return an error; so may the world. (A step
\* that was done in time returns none, and the next one returns it instead.) But await's
\* unblock, or else the deferred closeTransport, first closes the sftp session, and
\* waits for a host that answers.
Broken == (interrupted /\ (silent => ~session) /\ NoFault) \/ Fault
Unbroken == ~interrupted /\ ~silent /\ NoFault

\* Mutant of BuildImages: the writes follow in a dry run too.
BuildImagesAndWrite ==
    /\ pc = "build"
    /\ \/ Goto("writeCompose") /\ NoFault
       \/ Goto("err") /\ Broken
    /\ UNCHANGED <<tocopy, hostVars, proc>>

\* buildAndPushServiceImages, also in a dry run, which then stops.
BuildImages ==
    /\ pc = "build"
    /\ \/ Goto(IF dryRun THEN "ok" ELSE "writeCompose") /\ NoFault
       \/ Goto("err") /\ Broken
    /\ UNCHANGED <<tocopy, hostVars, proc>>

\* SSHTransport.sftp, in the first CreateFile of a deploy: every later call finds it.
OpenSession ==
    /\ pc = "writeCompose" /\ ~session /\ Unbroken
    /\ session' = TRUE
    /\ UNCHANGED <<pc, runVars, interrupted, silent, tocopy, hostVars, proc, raced, unclean>>

\* transport.CreateFile makes the parent directory, and truncates the file before it
\* sends the content.
CreateFile(name, content, next) ==
    /\ UNCHANGED <<tocopy, copies, container, agent, proc>>
    /\ \/ /\ session /\ Goto(next) /\ Unbroken
          /\ dir' = TRUE /\ file' = [file EXCEPT ![name] = content]
       \/ /\ Goto("err") /\ Broken
          /\ \/ UNCHANGED <<dir, file>>
             \/ /\ session /\ dir' = TRUE
                /\ \E left \in {file[name], Partial, content} :
                      file' = [file EXCEPT ![name] = left]

\* transport.RunCommand: start the command, then wait for its exit status. Given up,
\* the command may end with its session or go on.
RunCommand(kind, at, next) ==
    /\ pc = at
    /\ UNCHANGED <<hostVars, tocopy>>
    /\ \/ proc[run].kind # kind /\ Goto(at) /\ Unbroken
          /\ proc' = [proc EXCEPT ![run] = Spawned(kind)]
       \/ /\ At(run, kind, "exited") /\ ~silent /\ NoFault /\ UNCHANGED proc
          /\ Goto(IF proc[run].ok THEN next ELSE "err")
       \/ /\ Goto("err") /\ Broken
          /\ UNCHANGED proc \/ proc' = [proc EXCEPT ![run] = NoProc]

WriteCompose ==
    /\ pc = "writeCompose"
    /\ CreateFile("compose", ComposeContent(edition),
                  IF Published(edition) = {} THEN "removeNgrok" ELSE "writeDotEnv")

RemoveNgrok == RunCommand("rmNgrok", "removeNgrok", "removeCopies")

WriteDotEnv == pc = "writeDotEnv" /\ CreateFile("dotEnv", edition.token, "writeNgrok")

WriteNgrok == pc = "writeNgrok" /\ CreateFile("ngrok", Published(edition), "removeCopies")

ClearCopies == RunCommand("rmCopies", "removeCopies", "copy")

\* Mutant of CopyPaths: an entry that was not sent whole does not end the run.
CopyPathsAnyway(s) ==
    /\ pc = "copy" /\ s \in tocopy
    /\ Goto("copy") /\ tocopy' = tocopy \ {s} /\ dir' = TRUE
    /\ \/ Unbroken /\ copies' = [copies EXCEPT ![s] = run]
       \/ Broken /\ copies' = [copies EXCEPT ![s] = Partial]
    /\ UNCHANGED <<file, container, agent, proc>>

\* transport.CopyPath of one service's entries.
CopyPaths(s) ==
    /\ pc = "copy" /\ s \in tocopy
    /\ UNCHANGED <<file, container, agent, proc>>
    /\ \/ /\ Goto("copy") /\ Unbroken
          /\ dir' = TRUE /\ copies' = [copies EXCEPT ![s] = run] /\ tocopy' = tocopy \ {s}
       \/ /\ Goto("err") /\ Broken /\ UNCHANGED tocopy
          /\ \/ UNCHANGED <<dir, copies>>
             \/ /\ dir' = TRUE
                /\ \E left \in {copies[s], Partial, run} : copies' = [copies EXCEPT ![s] = left]

CopiesSent ==
    /\ pc = "copy" /\ tocopy = {}
    /\ Goto("up") /\ UNCHANGED <<tocopy, hostVars, proc>> /\ NoFault

ComposeUp == RunCommand("up", "up", "ok")

Destroy == RunCommand("down", "down", "ok")

Interrupt ==
    /\ ~Ended /\ ~interrupted /\ Fault
    /\ interrupted' = TRUE
    /\ UNCHANGED <<pc, runVars, session, silent, tocopy, hostVars, proc, raced, unclean>>

FallSilent ==
    /\ ~Ended /\ ~silent /\ Fault
    /\ silent' = TRUE
    /\ UNCHANGED <<pc, runVars, interrupted, session, tocopy, hostVars, proc, raced, unclean>>

AnswerAgain ==
    /\ silent /\ NoFault
    /\ silent' = FALSE
    /\ UNCHANGED <<pc, runVars, interrupted, session, tocopy, hostVars, proc, raced, unclean>>

Step ==
    \/ BuildImages \/ OpenSession
    \/ WriteCompose \/ RemoveNgrok \/ WriteDotEnv \/ WriteNgrok
    \/ ClearCopies \/ (\E s \in tocopy : CopyPaths(s)) \/ CopiesSent
    \/ ComposeUp \/ Destroy

NewRun == \E c \in {"deploy", "destroy"}, e \in Editions, dry \in BOOLEAN : StartRun(c, e, dry)

Finished == Ended /\ run = MaxRuns /\ (\A r \in Run : ~Live(r)) /\ UNCHANGED vars

Next ==
    \/ Step \/ NewRun \/ (\E r \in Run : Host(r))
    \/ Interrupt \/ FallSilent \/ AnswerAgain
    \/ Finished

\* The process's own steps are fair; no fault has to happen, and neither a remote command
\* nor a host that has fallen silent has to answer, ever.
Spec == Init /\ [][Next]_vars /\ WF_vars(Step /\ NoFault)

-----------------------------------------------------------------------------
\* The variables' values; and nothing is in a directory that is not there.
TypeOK ==
    /\ pc \in {"idle", "build", "writeCompose", "removeNgrok", "writeDotEnv", "writeNgrok",
               "removeCopies", "copy", "up", "down", "ok", "err"}
    /\ run \in 0..MaxRuns /\ cmd \in {"deploy", "destroy"} /\ edition \in Editions
    /\ dryRun \in BOOLEAN /\ interrupted \in BOOLEAN /\ raced \in BOOLEAN
    /\ unclean \in BOOLEAN /\ session \in BOOLEAN /\ silent \in BOOLEAN /\ dir \in BOOLEAN
    /\ ~dir => file = NoFiles /\ copies = NoCopies
    /\ tocopy \subseteq Copyable(edition)
    /\ DOMAIN file = {"compose", "dotEnv", "ngrok"}
    /\ file.compose \in {ComposeContent(e) : e \in Editions} \union {Absent, Partial}
    /\ copies \in [Service -> 0..MaxRuns \union {Partial}]
    /\ faults \in 0..MaxFaults

\* A deploy that reports success, with no abandoned command racing it or an earlier
\* run, left on the host exactly the project's services with this run's definitions,
\* and an agent exactly when something is published, serving this run's published
\* set with this run's token.
DeployDelivers ==
    (pc = "ok" /\ cmd = "deploy" /\ ~dryRun /\ ~raced) =>
        /\ \A s \in Service :
              IF s \in Kept(edition)
              THEN container[s] # Absent /\ container[s].spec = ComposeContent(edition).services[s]
              ELSE container[s] = Absent
        /\ IF Published(edition) = {} THEN agent = Absent
           ELSE /\ agent # Absent
                /\ agent.config = Published(edition) /\ agent.token = edition.token

\* The auth token stays on the host only while something is published: a deploy
\* that publishes nothing removes it, and a destroy whose command has ended removes it
\* with the directory, also when docker compose down failed. It may stay when the shell
\* or its rm -rf fails (left): the status of rm -rf is lost, so the destroy may report success
\* all the same, where troubleshooting.md:138 has the directory "removed even when teardown
\* fails".
CredentialsRemoved ==
    /\ (pc = "ok" /\ cmd = "deploy" /\ ~dryRun /\ Published(edition) = {}) => file.dotEnv = Absent
    /\ (Ended /\ run > 0 /\ At(run, "down", "exited")) => file = NoFiles \/ proc[run].left

\* Containers that outlive a successful destroy are those of which an earlier
\* destroy reported that it failed: the directory they belonged to went with it.
DestroyDelivers ==
    (pc = "ok" /\ cmd = "destroy" /\ ~dryRun /\ ~raced /\ ~unclean) =>
        agent = Absent /\ \A s \in Service : container[s] = Absent

\* A container that mounts copied paths is only started once all of this run's were sent,
\* and mounts this run's: unless a command that an earlier run abandoned is going on.
MountsWholeCopies ==
    [][~raced =>
         \A s \in Service :
            (container'[s] \notin {container[s], Absent} /\ container'[s].spec.mounts) =>
                container'[s].mount = run /\ \A t \in Copyable(edition) : copies[t] = run]_vars

\* A dry run sends nothing to the host.
DryRunSendsNothing ==
    [][(dryRun /\ pc' # pc) => UNCHANGED <<hostVars, proc>>]_vars

\* An interrupted run ends, unless its host stays silent for ever after it has opened
\* its sftp session; a destroy, which opens none, always does.
InterruptEndsRun == (interrupted /\ ~Ended) ~> (Ended \/ [](silent /\ session))

\* configuration-reference.md: copied paths are "sent to the remote host and bind
\* mounted into the container", the whole set replaced on every deploy.
CopiesMounted ==
    (pc = "ok" /\ cmd = "deploy" /\ ~dryRun /\ ~raced) =>
        \A s \in Copyable(edition) : container[s].mount = run
=============================================================================
