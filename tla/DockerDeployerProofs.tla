------------------------ MODULE DockerDeployerProofs ------------------------
(***************************************************************************)
(* Proofs about DockerDeployer, for every set of editions and any number of *)
(* runs and faults: what a run that reports success has left on the host,   *)
(* that the auth token does not outlive what it was sent for, and that no   *)
(* container is started on paths not yet sent whole. Where a command that an earlier run   *)
(* abandoned may go on beside the next one, only what does not depend on it *)
(* is claimed.                                                              *)
(***************************************************************************)
EXTENDS DockerDeployer, TLAPS

Composes == {ComposeContent(e) : e \in Editions}
Tokens == {e.token : e \in Editions} \union {Absent, Partial}
Configs == {Published(e) : e \in Editions} \union {Absent, Partial}

Files == [compose : Composes \union {Absent, Partial}, dotEnv : Tokens, ngrok : Configs]
Command == [kind : {"none", "rmNgrok", "rmCopies", "up", "down"},
            stage : {"start", "services", "agent", "rm", "exited"},
            ok : BOOLEAN, left : BOOLEAN, compose : Composes \union {Absent}, token : Tokens]

HostType == file \in Files /\ proc \in [Run -> Command]

\* The run's own command, and how it ended.
Kind == proc[run].kind
Succeeded(kind) == At(run, kind, "exited") /\ proc[run].ok

Writing == {"writeCompose", "writeDotEnv", "writeNgrok"}
Sending == Writing \union {"removeNgrok", "removeCopies", "copy", "up"}

\* Only the current run's command may be going on, unless a run once began beside an
\* abandoned one.
AloneInv ==
    /\ pc # "idle" => run \in Run
    /\ \A r \in Run : r > run => proc[r] = NoProc
    /\ ~raced => \A r \in Run \ {run} : ~Live(r)

\* The run's step decides which command it has started last.
PlaceInv ==
    /\ pc \in Sending \union {"build"} => cmd = "deploy"
    /\ pc = "down" => cmd = "destroy"
    /\ dryRun => pc \in {"idle", "build", "ok", "err"}
    /\ (pc = "err" /\ cmd = "destroy") => unclean
    /\ pc = "removeNgrok" => Published(edition) = {}
    /\ pc \in {"writeDotEnv", "writeNgrok"} => Published(edition) # {}
    /\ pc \in (Sending \union {"build"}) \ {"copy", "up"} => tocopy = Copyable(edition)
    /\ run \in Run =>
          /\ pc \in Writing \union {"build"} => Kind = "none"
          /\ pc = "removeNgrok" => Kind \in {"none", "rmNgrok"}
          /\ pc = "removeCopies" => \/ Kind = "none" /\ Published(edition) # {}
                                    \/ Succeeded("rmNgrok")
                                    \/ Kind = "rmCopies"
          /\ pc = "copy" => At(run, "rmCopies", "exited")
          /\ pc = "up" => At(run, "rmCopies", "exited") \/ Kind = "up"
          /\ pc = "down" => Kind \in {"none", "down"}
          /\ (pc = "ok" /\ ~dryRun) => Succeeded(IF cmd = "deploy" THEN "up" ELSE "down")
          /\ Kind = "none" => ~Live(run)
          /\ dryRun => Kind = "none"
          /\ Kind = "rmNgrok" => Published(edition) = {}
          /\ Kind = "up" => cmd = "deploy" /\ pc \in {"up", "ok", "err"}
          /\ Kind = "down" => cmd = "destroy" /\ pc \in {"down", "ok", "err"}

\* What of this run's content has reached the project directory. Only the run itself
\* writes; abandoned commands can only remove.
SentInv ==
    /\ (run \in Run /\ cmd = "deploy" /\ ~dryRun /\ Published(edition) = {}
          /\ (pc \in {"removeCopies", "copy", "up", "ok"} \/ Succeeded("rmNgrok")))
              => file.dotEnv = Absent
    /\ (run \in Run /\ ~raced) =>
          LET sent(steps) == pc \in steps \/ Kind = "up" IN
          /\ sent(Sending \ {"writeCompose"}) => file.compose = ComposeContent(edition)
          /\ Published(edition) # {} =>
                /\ sent({"writeNgrok", "removeCopies", "copy", "up"})
                      => file.dotEnv = edition.token
                /\ sent({"removeCopies", "copy", "up"}) => file.ngrok = Published(edition)
          /\ pc = "copy" => \A s \in Copyable(edition) \ tocopy : copies[s] = run
          /\ sent({"up"}) => \A s \in Copyable(edition) : copies[s] = run

\* What docker compose up has made of it by now. The agent's label tells which published
\* set it serves, which lets up keep it.
UpInv ==
    ~raced =>
        /\ agent # Absent => agent.config = agent.label[1]
        /\ (run \in Run /\ Kind = "up") =>
              LET past(stages) == proc[run].stage \in stages \/ Succeeded("up") IN
              /\ past({"services", "agent"}) =>
                    proc[run].compose = ComposeContent(edition) /\ proc[run].token = file.dotEnv
              /\ past({"agent"}) =>
                    \A s \in Service :
                        IF s \in Kept(edition)
                        THEN /\ container[s] # Absent
                             /\ container[s].spec = ComposeContent(edition).services[s]
                        ELSE container[s] = Absent
              /\ past({"agent"}) /\ Published(edition) = {} => agent = Absent
              /\ Succeeded("up") /\ Published(edition) # {} =>
                    /\ agent # Absent
                    /\ agent.config = Published(edition) /\ agent.token = edition.token

NothingRuns == agent = Absent /\ \A s \in Service : container[s] = Absent

\* Containers belong to a directory, by which docker compose down finds them. It goes
\* before its containers only in a destroy that then fails.
DownInv ==
    /\ (run \in Run /\ At(run, "down", "exited")) => file = NoFiles \/ proc[run].left
    /\ ~raced =>
          /\ (run \in Run /\ At(run, "down", "rm") /\ proc[run].ok) => NothingRuns
          /\ ~unclean =>
                /\ (run \in Run /\ Succeeded("down")) => NothingRuns
                /\ \/ NothingRuns
                   \/ dir
                   \/ pc = "down" /\ At(run, "down", "exited") /\ ~proc[run].ok

DockerInv ==
    /\ TypeOK /\ HostType
    /\ AloneInv /\ PlaceInv /\ SentInv /\ UpInv /\ DownInv

-----------------------------------------------------------------------------
\* The first run finds an empty host.
LEMMA InitInv == Init => DockerInv
<1> SUFFICES ASSUME Init PROVE DockerInv
  OBVIOUS
<1> USE DEF Init, NoFiles, NoCopies, NoProc
<1>1. TypeOK
  <2>1. 0 \in 0..MaxRuns /\ 0 \in 0..MaxFaults
    BY BoundsAssumption
  <2>2. dryRun \in BOOLEAN /\ interrupted \in BOOLEAN /\ raced \in BOOLEAN /\ unclean \in BOOLEAN
    OBVIOUS
  <2>3. copies \in [Service -> 0..MaxRuns \union {Partial}]
    BY <2>1
  <2>4. QED
    BY <2>1, <2>2, <2>3 DEF TypeOK
<1>2. HostType
  BY DEF HostType, Files, Command, Tokens, Configs
<1>3. run \notin Run
  BY DEF Run
<1>4. AloneInv /\ PlaceInv
  BY <1>3 DEF AloneInv, PlaceInv, Live, Sending, Writing
<1>5. SentInv /\ UpInv /\ DownInv
  BY <1>3 DEF SentInv, UpInv, DownInv, NothingRuns
<1>6. QED
  BY <1>1, <1>2, <1>4, <1>5 DEF DockerInv

\* A run starts without a command, whatever it finds; beside an abandoned one it races.
LEMMA StartRunInv ==
  ASSUME DockerInv, NEW c \in {"deploy", "destroy"}, NEW e \in Editions, NEW dry \in BOOLEAN,
         StartRun(c, e, dry)
  PROVE  DockerInv'
<1>1. /\ Ended /\ run < MaxRuns /\ run' = run + 1 /\ cmd' = c /\ edition' = e /\ dryRun' = dry
      /\ pc' = IF c = "deploy" THEN "build" ELSE IF dry THEN "ok" ELSE "down"
      /\ interrupted' = FALSE /\ tocopy' = Copyable(e)
      /\ raced' = (raced \/ \E r \in Run : Live(r))
      /\ session' = FALSE
      /\ UNCHANGED <<silent, dir, file, copies, container, agent, proc, faults, unclean>>
  BY DEF StartRun, hostVars
<1>2. run' \in Run /\ run \in Nat /\ proc'[run'] = NoProc /\ Kind' = "none" /\ ~Live(run)'
  <2>1. run \in 0..MaxRuns /\ MaxRuns \in Nat
    BY BoundsAssumption DEF DockerInv, TypeOK
  <2>2. run' \in Run /\ run \in Nat /\ run' > run
    BY <1>1, <2>1 DEF Run
  <2>3. proc'[run'] = NoProc
    BY <1>1, <2>2 DEF DockerInv, AloneInv
  <2>4. QED
    BY <2>2, <2>3 DEF Kind, Live, NoProc
<1>3. TypeOK'
  <2>1. raced' \in BOOLEAN
    BY <1>1, Zenon DEF DockerInv, TypeOK
  <2>2. run' \in 0..MaxRuns
    BY <1>2 DEF Run
  <2>3. tocopy' \subseteq Copyable(edition')
    BY <1>1
  <2>4. QED
    BY <1>1, <2>1, <2>2, <2>3, Zenon DEF DockerInv, TypeOK
<1>4. HostType'
  BY <1>1, Zenon DEF DockerInv, HostType
<1>5. AloneInv'
  <2>1. \A q \in Run : q > run' => q > run
    BY <1>1, <1>2 DEF Run
  <2>2. \A q \in Run : q > run' => proc'[q] = NoProc
    BY <1>1, <2>1 DEF DockerInv, AloneInv
  <2>3. ~raced' => \A q \in Run \ {run'} : ~Live(q)'
    BY <1>1 DEF Live
  <2>4. QED
    BY <1>2, <2>2, <2>3 DEF AloneInv
<1>6. PlaceInv'
  BY <1>1, <1>2 DEF PlaceInv, Sending, Writing, Ended, Copyable
<1>7. SentInv'
  BY <1>1, <1>2, <1>6 DEF SentInv, Sending, Writing, Kind, At, Succeeded
<1>8. UpInv'
  BY <1>1, <1>2 DEF DockerInv, UpInv
<1>9. DownInv'
  BY <1>1, <1>2 DEF DockerInv, DownInv, At, Succeeded, Kind, Ended, NothingRuns
<1>10. QED
  BY <1>3, <1>4, <1>5, <1>6, <1>7, <1>8, <1>9 DEF DockerInv
-----------------------------------------------------------------------------
(* The remote commands. One that is going on belongs to a run that has been *)
(* started, to the current one unless runs have raced.                      *)

\* Three files are all there is to the project directory's own.
LEMMA SameFiles ==
  ASSUME NEW f \in Files, NEW x, NEW y, NEW z
  PROVE  f = [compose |-> x, dotEnv |-> y, ngrok |-> z]
            <=> f.compose = x /\ f.dotEnv = y /\ f.ngrok = z
BY DEF Files

\* A command that goes on or exits keeps its kind and what it has read.
LEMMA MovesOn ==
  ASSUME DockerInv, NEW r \in Run,
         NEW st \in {"start", "services", "agent", "rm", "exited"}, NEW ok \in BOOLEAN,
         proc' = [proc EXCEPT ![r].stage = st, ![r].ok = ok]
  PROVE  /\ proc' \in [Run -> Command]
         /\ \A q \in Run \ {r} : proc'[q] = proc[q]
         /\ proc'[r].kind = proc[r].kind /\ proc'[r].stage = st /\ proc'[r].ok = ok
         /\ proc'[r].compose = proc[r].compose /\ proc'[r].token = proc[r].token
         /\ proc'[r].left = proc[r].left
<1>1. proc \in [Run -> Command] /\ proc[r] \in Command
  BY DEF DockerInv, HostType
<1>2. proc' = [proc EXCEPT ![r] = [[proc[r] EXCEPT !.stage = st] EXCEPT !.ok = ok]]
  BY <1>1
<1>3. [[proc[r] EXCEPT !.stage = st] EXCEPT !.ok = ok] \in Command
  BY <1>1 DEF Command
<1>4. QED
  BY <1>1, <1>2, <1>3 DEF Command

\* A step of run r's command alone, which leaves the run as it is.
Advances(r) ==
    /\ UNCHANGED <<pc, run, cmd, edition, dryRun, interrupted, tocopy, raced, unclean>>
    /\ \A q \in Run \ {r} : proc'[q] = proc[q]
    /\ proc'[r].kind = proc[r].kind
    /\ HostType'

\* A remote command does its next step.
LEMMA CommandAdvances ==
  ASSUME DockerInv, NEW r \in Run, Live(r), Advances(r)
  PROVE  /\ run \in Run /\ (~raced => r = run)
         /\ AloneInv' /\ PlaceInv'
         /\ Kind' = Kind
         /\ r = run => ~At(run, Kind, "exited") /\ pc # "copy" /\ (pc = "up" => Kind = "up")
         /\ r # run => proc'[run] = proc[run]
<1>1. r <= run /\ run \in Run /\ run \in 0..MaxRuns /\ (~raced => r = run)
  BY DEF DockerInv, TypeOK, AloneInv, Live, NoProc, Run
<1>2. /\ Kind' = Kind /\ (r = run => ~At(run, Kind, "exited"))
      /\ r # run => proc'[run] = proc[run]
  BY <1>1 DEF Advances, Kind, At, Live
<1>3. AloneInv'
  BY <1>1 DEF DockerInv, AloneInv, Advances, Live, Run
<1>4. PlaceInv'
  <2>1. CASE r # run
    BY <1>1, <1>2, <2>1
       DEF DockerInv, PlaceInv, Advances, Kind, At, Succeeded, Live, Copyable, Published
  <2>2. CASE r = run
    BY <1>1, <1>2, <2>2
       DEF DockerInv, PlaceInv, Advances, Kind, At, Succeeded, Live, Copyable, Published
  <2>3. QED
    BY <2>1, <2>2
<1>5. r = run => pc # "copy" /\ (pc = "up" => Kind = "up")
  BY <1>1, <1>2 DEF DockerInv, PlaceInv, Kind, At
<1>6. QED
  BY <1>1, <1>2, <1>3, <1>4, <1>5

\* What is unchanged keeps its type.
LEMMA HostStepTypes ==
  ASSUME DockerInv, HostStep, copies' \in [Service -> 0..MaxRuns \union {Partial}],
         dir' \in BOOLEAN, ~dir' => file' = NoFiles /\ copies' = NoCopies,
         Fault \/ NoFault, HostType'
  PROVE  TypeOK'
<1>1. faults' \in 0..MaxFaults
  BY BoundsAssumption DEF DockerInv, TypeOK, Fault, NoFault
<1>2. UNCHANGED <<pc, run, cmd, edition, dryRun, interrupted, session, silent, tocopy, raced,
                  unclean>>
  BY DEF HostStep, runVars
<1>3. DOMAIN file' = {"compose", "dotEnv", "ngrok"}
      /\ file'.compose \in {ComposeContent(e) : e \in Editions} \union {Absent, Partial}
  BY DEF HostType, Files, Composes
<1>4. QED
  BY <1>1, <1>2, <1>3, Zenon DEF DockerInv, TypeOK

\* rm -f of the agent's files leaves no token.
LEMMA RemoveNgrokFilesInv ==
  ASSUME DockerInv, NEW r \in Run, RemoveNgrokFiles(r)
  PROVE  DockerInv'
<1>1. /\ proc[r].kind = "rmNgrok" /\ Live(r) /\ HostStep /\ NoFault
      /\ file' = [file EXCEPT !.dotEnv = Absent, !.ngrok = Absent]
      /\ proc' = [proc EXCEPT ![r].stage = "exited", ![r].ok = TRUE]
      /\ UNCHANGED <<dir, copies, container, agent>>
  BY DEF RemoveNgrokFiles, At, Exit, Live
<1>2. HostType'
  <2>1. file' \in Files
    BY <1>1 DEF DockerInv, HostType, Files, Tokens, Configs
  <2>2. QED
    BY <1>1, <2>1, MovesOn DEF HostType
<1>3. Advances(r)
  BY <1>1, <1>2, MovesOn DEF Advances, HostStep, runVars
<1>4. /\ file'.dotEnv = Absent /\ file'.compose = file.compose
      /\ file = NoFiles => file' = NoFiles
  <2>1. /\ file'.dotEnv = Absent /\ file'.compose = file.compose /\ file'.ngrok = Absent
    BY <1>1 DEF DockerInv, HostType, Files
  <2>2. QED
    BY <1>2, <2>1, SameFiles DEF NoFiles, DockerInv, HostType
<1>5. TypeOK'
  <2>1. ~dir' => file' = NoFiles /\ copies' = NoCopies
    BY <1>1, <1>4 DEF DockerInv, TypeOK
  <2>2. copies' \in [Service -> 0..MaxRuns \union {Partial}] /\ dir' \in BOOLEAN
    BY <1>1 DEF DockerInv, TypeOK
  <2>3. QED
    BY <1>1, <1>2, <2>1, <2>2, HostStepTypes
<1>6. AloneInv' /\ PlaceInv'
  BY <1>1, <1>3, CommandAdvances
<1>7. SentInv'
  BY <1>1, <1>3, <1>4, CommandAdvances DEF SentInv, Advances, DockerInv, PlaceInv, Kind, At, Succeeded
<1>8. UpInv'
  BY <1>1, <1>3, <1>4, CommandAdvances DEF UpInv, Advances, DockerInv, Kind, At, Succeeded
<1>9. DownInv'
  BY <1>1, <1>3, <1>4, CommandAdvances
     DEF DownInv, Advances, DockerInv, Kind, At, Succeeded, NothingRuns
<1>10. QED
  BY <1>2, <1>5, <1>6, <1>7, <1>8, <1>9 DEF DockerInv

\* The previous run's paths go before this run's are sent.
LEMMA RemoveCopiesInv ==
  ASSUME DockerInv, NEW r \in Run, RemoveCopies(r)
  PROVE  DockerInv'
<1>1. /\ proc[r].kind = "rmCopies" /\ Live(r) /\ HostStep /\ NoFault
      /\ copies' = NoCopies
      /\ proc' = [proc EXCEPT ![r].stage = "exited", ![r].ok = TRUE]
      /\ UNCHANGED <<dir, file, container, agent>>
  BY DEF RemoveCopies, At, Exit, Live
<1>2. HostType'
  BY <1>1, MovesOn DEF DockerInv, HostType
<1>3. Advances(r)
  BY <1>1, <1>2, MovesOn DEF Advances, HostStep, runVars
<1>4. TypeOK'
  <2>1. 0 \in 0..MaxRuns
    BY BoundsAssumption
  <2>2. copies' \in [Service -> 0..MaxRuns \union {Partial}] /\ dir' \in BOOLEAN
    BY <1>1, <2>1 DEF DockerInv, TypeOK, NoCopies
  <2>3. ~dir' => file' = NoFiles /\ copies' = NoCopies
    BY <1>1 DEF DockerInv, TypeOK
  <2>4. QED
    BY <1>1, <1>2, <2>2, <2>3, HostStepTypes
<1>5. AloneInv' /\ PlaceInv'
  BY <1>1, <1>3, CommandAdvances
<1>6. SentInv'
  BY <1>1, <1>3, CommandAdvances, MovesOn
     DEF SentInv, Advances, DockerInv, Kind, At, Succeeded
<1>7. UpInv'
  BY <1>1, <1>3, CommandAdvances DEF UpInv, Advances, DockerInv, Kind, At, Succeeded
<1>8. DownInv'
  BY <1>1, <1>3, CommandAdvances
     DEF DownInv, Advances, DockerInv, Kind, At, Succeeded, NothingRuns
<1>9. QED
  BY <1>2, <1>4, <1>5, <1>6, <1>7, <1>8 DEF DockerInv

\* A command that fails, or finds no usable compose.yml, has not succeeded.
LEMMA ExitsFailed ==
  ASSUME DockerInv, NEW r \in Run, Live(r), HostStep,
         proc' \in [Run -> Command], \A q \in Run \ {r} : proc'[q] = proc[q],
         proc'[r].kind = proc[r].kind, proc'[r].stage = "exited", ~proc'[r].ok,
         proc[r].kind = "down" => proc'[r].left,
         UNCHANGED hostVars, Fault \/ NoFault
  PROVE  DockerInv'
<1>1. UNCHANGED <<dir, file, copies, container, agent>>
  BY DEF hostVars
<1>2. HostType'
  BY <1>1 DEF DockerInv, HostType
<1>3. Advances(r)
  BY <1>1, <1>2 DEF Advances, HostStep, runVars
<1>4. TypeOK'
  BY <1>1, <1>2, HostStepTypes DEF DockerInv, TypeOK
<1>5. AloneInv' /\ PlaceInv'
  BY <1>3, CommandAdvances
<1>6. SentInv'
  BY <1>1, <1>3, CommandAdvances
     DEF SentInv, Advances, DockerInv, Kind, At, Succeeded
<1>7. UpInv'
  BY <1>1, <1>3, CommandAdvances DEF UpInv, Advances, DockerInv, Kind, At, Succeeded
<1>8. DownInv'
  BY <1>1, <1>3, CommandAdvances
     DEF DownInv, Advances, DockerInv, Kind, At, Succeeded, NothingRuns
<1>9. QED
  BY <1>2, <1>4, <1>5, <1>6, <1>7, <1>8 DEF DockerInv

\* A remote command ends with an error, done or not.
LEMMA CommandFailsInv ==
  ASSUME DockerInv, NEW r \in Run, CommandFails(r)
  PROVE  DockerInv'
<1>1. /\ Live(r) /\ HostStep /\ Fault /\ UNCHANGED hostVars
      /\ proc' = [proc EXCEPT ![r].stage = "exited", ![r].ok = FALSE, ![r].left = TRUE]
  BY DEF CommandFails
<1>2. proc \in [Run -> Command] /\ proc[r] \in Command
  BY DEF DockerInv, HostType
<1>3. proc' = [proc EXCEPT ![r] = [[[proc[r] EXCEPT !.stage = "exited"] EXCEPT !.ok = FALSE]
                                     EXCEPT !.left = TRUE]]
  BY <1>1, <1>2
<1>4. [[[proc[r] EXCEPT !.stage = "exited"] EXCEPT !.ok = FALSE] EXCEPT !.left = TRUE] \in Command
  BY <1>2 DEF Command
<1>5. /\ proc' \in [Run -> Command] /\ \A q \in Run \ {r} : proc'[q] = proc[q]
      /\ proc'[r].kind = proc[r].kind /\ proc'[r].stage = "exited" /\ ~proc'[r].ok
      /\ proc'[r].left
  BY <1>2, <1>3, <1>4 DEF Command
<1>6. QED
  BY <1>1, <1>5, ExitsFailed

\* What up reads is the file of this run, unless runs race.
LEMMA UpReadsInv ==
  ASSUME DockerInv, NEW r \in Run, UpReads(r)
  PROVE  DockerInv'
<1>1. /\ proc[r].kind = "up" /\ proc[r].stage = "start" /\ Live(r) /\ HostStep /\ NoFault
      /\ UNCHANGED hostVars
  BY DEF UpReads, At, Live
<1>2. CASE file.compose \in {Absent, Partial}
  <2>1. proc' = [proc EXCEPT ![r].stage = "exited", ![r].ok = FALSE]
    BY <1>1, <1>2 DEF UpReads, Exit
  <2>2. QED
    BY <1>1, <2>1, MovesOn, ExitsFailed
<1>3. CASE file.compose \notin {Absent, Partial}
  <2>1. /\ UNCHANGED <<dir, file, copies, container, agent>>
        /\ proc' = [proc EXCEPT ![r].stage = "services", ![r].compose = file.compose,
                                ![r].token = file.dotEnv]
    BY <1>1, <1>3 DEF UpReads, hostVars
  <2>2. /\ proc' \in [Run -> Command]
        /\ \A q \in Run \ {r} : proc'[q] = proc[q]
        /\ proc'[r].kind = "up" /\ proc'[r].stage = "services"
        /\ proc'[r].compose = file.compose /\ proc'[r].token = file.dotEnv
    <3>1. proc \in [Run -> Command] /\ proc[r] \in Command
      BY DEF DockerInv, HostType
    <3>2. file.compose \in Composes /\ file.dotEnv \in Tokens
      BY <1>3 DEF DockerInv, HostType, Files
    <3>3. proc' = [proc EXCEPT ![r] = [[[proc[r] EXCEPT !.stage = "services"]
                                          EXCEPT !.compose = file.compose]
                                          EXCEPT !.token = file.dotEnv]]
      BY <2>1, <3>1
    <3>4. [[[proc[r] EXCEPT !.stage = "services"] EXCEPT !.compose = file.compose]
             EXCEPT !.token = file.dotEnv] \in Command
      BY <3>1, <3>2 DEF Command
    <3>5. QED
      BY <1>1, <3>1, <3>3, <3>4 DEF Command
  <2>3. HostType'
    BY <2>1, <2>2 DEF DockerInv, HostType
  <2>4. Advances(r)
    BY <1>1, <2>2, <2>3 DEF Advances, HostStep, runVars
  <2>5. TypeOK'
    BY <1>1, <2>1, <2>3, HostStepTypes DEF DockerInv, TypeOK
  <2>6. AloneInv' /\ PlaceInv'
    BY <1>1, <2>4, CommandAdvances
  <2>7. SentInv'
    BY <1>1, <2>1, <2>2, <2>4, CommandAdvances
       DEF SentInv, Advances, DockerInv, Kind, At, Succeeded
  <2>8. UpInv'
    BY <1>1, <2>1, <2>2, <2>4, CommandAdvances
       DEF UpInv, SentInv, Advances, DockerInv, Kind, At, Succeeded
  <2>9. DownInv'
    BY <1>1, <2>1, <2>2, <2>4, CommandAdvances
       DEF DownInv, Advances, DockerInv, Kind, At, Succeeded, NothingRuns
  <2>10. QED
    BY <2>3, <2>5, <2>6, <2>7, <2>8, <2>9 DEF DockerInv
<1>4. QED
  BY <1>2, <1>3

\* A service of the project is one of all editions'; what it copies, too.
LEMMA ServicesOfEdition ==
  ASSUME DockerInv
  PROVE  /\ edition \in Editions
         /\ Kept(edition) \subseteq Service /\ Copyable(edition) \subseteq Kept(edition)
BY EditionsAssumption DEF DockerInv, TypeOK, Kept, Copyable, Service

\* Unless runs race, what up works from is what this run has sent.
LEMMA UpServicesOwn ==
  ASSUME DockerInv, NEW r \in Run, UpServices(r), ~raced
  PROVE  /\ r = run /\ Kind = "up" /\ run \in Run /\ run \in 0..MaxRuns
         /\ proc[r].compose = ComposeContent(edition)
         /\ file.compose = ComposeContent(edition) /\ proc[r].token = file.dotEnv
         /\ \A s \in Copyable(edition) : copies[s] = run
<1>1. proc[r].kind = "up" /\ proc[r].stage = "services" /\ Live(r)
  BY DEF UpServices, At, Live
<1>2. r = run
  BY <1>1 DEF DockerInv, AloneInv
<1>3. QED
  BY <1>1, <1>2 DEF DockerInv, TypeOK, UpInv, SentInv, Kind, At, Succeeded

\* A container that it starts mounts this run's paths.
LEMMA UpServicesStart ==
  ASSUME DockerInv, NEW r \in Run, UpServices(r), ~raced, NEW s \in Service,
         container'[s] \notin {container[s], Absent}, container'[s].spec.mounts
  PROVE  container'[s].mount = run /\ \A t \in Copyable(edition) : copies[t] = run
<1> DEFINE spec == ComposeContent(edition).services
<1>1. DOMAIN spec = Kept(edition)
      /\ \A t \in Kept(edition) : spec[t].mounts <=> t \in Copyable(edition)
  BY DEF ComposeContent
<1>2. proc[r].compose.services = spec
  BY UpServicesOwn
<1>3. container'[s] = IF s \notin Kept(edition) THEN Absent
                      ELSE IF container[s] # Absent /\ container[s].spec = spec[s]
                           THEN container[s]
                      ELSE [spec |-> spec[s], mount |-> IF spec[s].mounts THEN copies[s] ELSE 0]
  BY <1>1, <1>2 DEF UpServices
<1>4. s \in Kept(edition)
      /\ container'[s] = [spec |-> spec[s], mount |-> IF spec[s].mounts THEN copies[s] ELSE 0]
  BY <1>3
<1>5. spec[s].mounts /\ s \in Copyable(edition)
  <2>1. container'[s].spec = spec[s]
    BY <1>4
  <2>2. QED
    BY <1>1, <1>4, <2>1
<1>6. QED
  BY <1>4, <1>5, UpServicesOwn

\* Every service is brought to its new definition.
LEMMA UpServicesInv ==
  ASSUME DockerInv, NEW r \in Run, UpServices(r)
  PROVE  DockerInv'
<1> DEFINE wanted == proc[r].compose.services
<1>1. /\ proc[r].kind = "up" /\ proc[r].stage = "services" /\ Live(r) /\ HostStep /\ NoFault
      /\ container' = [s \in Service |->
             IF s \notin DOMAIN wanted THEN Absent
             ELSE IF container[s] # Absent /\ container[s].spec = wanted[s] THEN container[s]
             ELSE [spec |-> wanted[s], mount |-> IF wanted[s].mounts THEN copies[s] ELSE 0]]
      /\ agent' = IF proc[r].compose.label = Absent THEN Absent ELSE agent
      /\ proc' = [proc EXCEPT ![r].stage = "agent"]
      /\ UNCHANGED <<dir, file, copies>>
  BY DEF UpServices, At, SetStage, Live
<1>2. /\ proc' \in [Run -> Command]
      /\ \A q \in Run \ {r} : proc'[q] = proc[q]
      /\ proc'[r].kind = "up" /\ proc'[r].stage = "agent"
      /\ proc'[r].compose = proc[r].compose /\ proc'[r].token = proc[r].token
  <2>1. proc \in [Run -> Command] /\ proc[r] \in Command
    BY DEF DockerInv, HostType
  <2>2. [proc[r] EXCEPT !.stage = "agent"] \in Command
    BY <2>1 DEF Command
  <2>3. QED
    BY <1>1, <2>1, <2>2 DEF Command
<1>3. HostType'
  BY <1>1, <1>2 DEF DockerInv, HostType
<1>4. Advances(r)
  BY <1>1, <1>2, <1>3 DEF Advances, HostStep, runVars
<1>5. TypeOK'
  BY <1>1, <1>3, HostStepTypes DEF DockerInv, TypeOK
<1>6. AloneInv' /\ PlaceInv'
  BY <1>1, <1>4, CommandAdvances
<1>7. SentInv'
  BY <1>1, <1>2, <1>4, CommandAdvances
     DEF SentInv, Advances, DockerInv, Kind, At, Succeeded
<1>8. ASSUME ~raced
      PROVE  /\ r = run /\ Kind = "up" /\ run \in Run /\ run \in 0..MaxRuns
             /\ proc[r].compose = ComposeContent(edition)
             /\ file.compose = ComposeContent(edition) /\ proc[r].token = file.dotEnv
             /\ \A s \in Copyable(edition) : copies[s] = run
  BY <1>8, UpServicesOwn
<1>9. ASSUME ~raced, NEW s \in Service
      PROVE  /\ s \notin Kept(edition) => container'[s] = Absent
             /\ s \in Kept(edition) => /\ container'[s] # Absent
                                       /\ container'[s].spec = ComposeContent(edition).services[s]
  <2> DEFINE spec == ComposeContent(edition).services
  <2>1. DOMAIN spec = Kept(edition)
        /\ \A t \in Kept(edition) : spec[t].mounts <=> t \in Copyable(edition)
    BY DEF ComposeContent
  <2>2. container'[s] = IF s \notin Kept(edition) THEN Absent
                        ELSE IF container[s] # Absent /\ container[s].spec = spec[s]
                             THEN container[s]
                        ELSE [spec |-> spec[s], mount |-> IF spec[s].mounts THEN copies[s] ELSE 0]
    BY <1>1, <1>8, <1>9, <2>1
  <2>3. CASE s \notin Kept(edition)
    BY <2>2, <2>3
  <2>4. CASE s \in Kept(edition) /\ container[s] # Absent /\ container[s].spec = spec[s]
    BY <2>2, <2>4
  <2>5. CASE s \in Kept(edition) /\ ~(container[s] # Absent /\ container[s].spec = spec[s])
    <3>1. PICK m \in 0..MaxRuns : container'[s] = [spec |-> spec[s], mount |-> m]
      <4>1. 0 \in 0..MaxRuns
        BY BoundsAssumption
      <4>2. QED
        BY <1>8, <1>9, <2>1, <2>2, <2>5, <4>1
    <3>2. container'[s] # Absent
      BY <2>5, <3>1, MarkersAssumption, ServicesOfEdition
    <3>3. QED
      BY <2>5, <3>1, <3>2
  <2>6. QED
    BY <2>3, <2>4, <2>5
<1>10. ASSUME ~raced
       PROVE  /\ Published(edition) = {} => agent' = Absent
              /\ agent' \in {Absent, agent}
  <2>1. Published(edition) = {} => ComposeContent(edition).label = Absent
    BY DEF ComposeContent
  <2>2. QED
    BY <1>1, <1>8, <1>10, <2>1
<1>11. UpInv'
  <2> SUFFICES ASSUME ~raced PROVE UpInv'
    BY <1>4 DEF UpInv, Advances
  <2>1. UNCHANGED <<run, edition, raced, file>>
    BY <1>1, <1>4 DEF Advances
  <2>2. agent' # Absent => agent'.config = agent'.label[1]
    BY <1>10 DEF DockerInv, UpInv
  <2>3. proc'[run].stage = "agent" /\ ~Succeeded("up")'
    BY <1>2, <1>8, <2>1 DEF Succeeded, At
  <2>4. proc'[run].compose = ComposeContent(edition)' /\ proc'[run].token = file'.dotEnv
    BY <1>2, <1>8, <2>1 DEF ComposeContent, Kept, Copyable, Published, AgentLabel
  <2>5. \A s \in Service :
           IF s \in Kept(edition)'
           THEN container'[s] # Absent /\ container'[s].spec = ComposeContent(edition)'.services[s]
           ELSE container'[s] = Absent
    BY <1>9, <2>1 DEF ComposeContent, Kept, Copyable, Published, AgentLabel
  <2>6. Published(edition)' = {} => agent' = Absent
    BY <1>10, <2>1 DEF Published
  <2>7. QED
    BY <2>1, <2>2, <2>3, <2>4, <2>5, <2>6 DEF UpInv
<1>12. DownInv'
  <2>1. ~raced => dir'
    BY <1>1, <1>8, MarkersAssumption, ServicesOfEdition DEF DockerInv, TypeOK, NoFiles
  <2>2. QED
    BY <1>1, <1>2, <1>4, <1>8, <2>1, CommandAdvances
       DEF DownInv, Advances, DockerInv, Kind, At, Succeeded
<1>13. QED
  BY <1>3, <1>5, <1>6, <1>7, <1>11, <1>12 DEF DockerInv

\* The agent serves what its label names, whether it was kept or started anew.
LEMMA UpAgentInv ==
  ASSUME DockerInv, NEW r \in Run, UpAgent(r)
  PROVE  DockerInv'
<1> DEFINE label == proc[r].compose.label
           same == agent # Absent /\ agent.label = label /\ agent.token = proc[r].token
<1>1. /\ proc[r].kind = "up" /\ proc[r].stage = "agent" /\ Live(r) /\ HostStep /\ NoFault
      /\ agent' = IF label = Absent \/ same THEN agent
                  ELSE [label |-> label, token |-> proc[r].token, config |-> file.ngrok]
      /\ proc' = [proc EXCEPT ![r].stage = "exited", ![r].ok = TRUE]
      /\ UNCHANGED <<dir, file, copies, container>>
  BY DEF UpAgent, At, Exit, Live
<1>2. HostType'
  BY <1>1, MovesOn DEF DockerInv, HostType
<1>3. Advances(r)
  BY <1>1, <1>2, MovesOn DEF Advances, HostStep, runVars
<1>4. TypeOK'
  BY <1>1, <1>2, HostStepTypes DEF DockerInv, TypeOK
<1>5. AloneInv' /\ PlaceInv'
  BY <1>1, <1>3, CommandAdvances
<1>6. SentInv'
  BY <1>1, <1>3, CommandAdvances, MovesOn
     DEF SentInv, Advances, DockerInv, Kind, At, Succeeded
<1>7. ASSUME ~raced
      PROVE  /\ r = run /\ Kind = "up" /\ run \in Run
             /\ proc[r].compose = ComposeContent(edition)
             /\ file.compose = ComposeContent(edition) /\ proc[r].token = file.dotEnv
             /\ Published(edition) # {} =>
                   file.dotEnv = edition.token /\ file.ngrok = Published(edition)
             /\ agent # Absent => agent.config = agent.label[1]
             /\ Published(edition) = {} => agent = Absent
             /\ \A s \in Service :
                  IF s \in Kept(edition)
                  THEN container[s] # Absent /\ container[s].spec = ComposeContent(edition).services[s]
                  ELSE container[s] = Absent
  BY <1>1, <1>3, <1>7, CommandAdvances DEF DockerInv, UpInv, SentInv, Kind, At, Succeeded
<1>8. ASSUME ~raced
      PROVE  /\ Published(edition) = {} => agent' = Absent
             /\ Published(edition) # {} =>
                  /\ agent' # Absent
                  /\ agent'.config = Published(edition) /\ agent'.token = edition.token
             /\ agent' # Absent => agent'.config = agent'.label[1]
  <2>1. CASE Published(edition) = {}
    <3>1. ComposeContent(edition).label = Absent
      BY <2>1 DEF ComposeContent
    <3>2. QED
      BY <1>1, <1>7, <1>8, <2>1, <3>1
  <2>2. CASE Published(edition) # {}
    <3>1. ComposeContent(edition).label = AgentLabel(edition) /\ AgentLabel(edition) # Absent
      BY <2>2, MarkersAssumption, ServicesOfEdition DEF ComposeContent
    <3>2. AgentLabel(edition)[1] = Published(edition)
      BY DEF AgentLabel
    <3>3. CASE same
      BY <1>1, <1>7, <1>8, <2>2, <3>1, <3>2, <3>3
    <3>4. CASE ~same
      <4>1. agent' = [label |-> AgentLabel(edition), token |-> edition.token,
                      config |-> Published(edition)]
        BY <1>1, <1>7, <1>8, <2>2, <3>1, <3>4
      <4>2. agent' # Absent
        BY <4>1, MarkersAssumption, ServicesOfEdition
      <4>3. QED
        BY <2>2, <3>2, <4>1, <4>2
    <3>5. QED
      BY <3>3, <3>4
  <2>3. QED
    BY <2>1, <2>2
<1>9. UpInv'
  <2> SUFFICES ASSUME ~raced PROVE UpInv'
    BY <1>3 DEF UpInv, Advances
  <2>1. UNCHANGED <<run, edition, raced, file, container>>
    BY <1>1, <1>3 DEF Advances
  <2>2. proc'[run].compose = ComposeContent(edition)' /\ proc'[run].token = file'.dotEnv
    <3>1. proc'[r].compose = proc[r].compose /\ proc'[r].token = proc[r].token
      BY <1>1, MovesOn
    <3>2. QED
      BY <1>7, <2>1, <3>1 DEF ComposeContent, Kept, Copyable, Published, AgentLabel
  <2>3. \A s \in Service :
           IF s \in Kept(edition)'
           THEN container'[s] # Absent /\ container'[s].spec = ComposeContent(edition)'.services[s]
           ELSE container'[s] = Absent
    BY <1>7, <2>1 DEF ComposeContent, Kept, Copyable, Published, AgentLabel
  <2>4. QED
    BY <1>8, <2>1, <2>2, <2>3 DEF UpInv, Published
<1>10. DownInv'
  <2>1. ~raced => dir'
    BY <1>1, <1>7, MarkersAssumption, ServicesOfEdition DEF DockerInv, TypeOK, NoFiles
  <2>2. QED
    BY <1>1, <1>3, <1>7, <2>1, CommandAdvances
       DEF DownInv, Advances, DockerInv, Kind, At, Succeeded
<1>11. QED
  BY <1>2, <1>4, <1>5, <1>6, <1>9, <1>10 DEF DockerInv

\* Where docker compose down finds no directory nothing of the project runs.
LEMMA DownFindsNothingInv ==
  ASSUME DockerInv, NEW r \in Run, DownFindsNothing(r)
  PROVE  DockerInv'
<1>1. /\ proc[r].kind = "down" /\ proc[r].stage = "start" /\ Live(r) /\ HostStep /\ NoFault
      /\ ~dir /\ file = NoFiles
      /\ proc' = [proc EXCEPT ![r].stage = "exited", ![r].ok = TRUE]
      /\ UNCHANGED <<dir, file, copies, container, agent>>
  BY DEF DownFindsNothing, At, Exit, Live, hostVars, DockerInv, TypeOK
<1>2. HostType'
  BY <1>1, MovesOn DEF DockerInv, HostType
<1>3. Advances(r)
  BY <1>1, <1>2, MovesOn DEF Advances, HostStep, runVars
<1>4. TypeOK'
  BY <1>1, <1>2, HostStepTypes DEF DockerInv, TypeOK
<1>5. AloneInv' /\ PlaceInv'
  BY <1>1, <1>3, CommandAdvances
<1>6. SentInv'
  BY <1>1, <1>3, CommandAdvances, MovesOn
     DEF SentInv, Advances, DockerInv, Kind, At, Succeeded
<1>7. UpInv'
  BY <1>1, <1>3, CommandAdvances DEF UpInv, Advances, DockerInv, Kind, At, Succeeded
<1>8. DownInv'
  <2>1. ~raced /\ ~unclean => NothingRuns
    BY <1>1, <1>3, CommandAdvances DEF DockerInv, DownInv, At
  <2>2. QED
    BY <1>1, <1>3, <2>1, CommandAdvances, MovesOn
       DEF DownInv, Advances, DockerInv, Kind, At, Succeeded, NothingRuns
<1>9. QED
  BY <1>2, <1>4, <1>5, <1>6, <1>7, <1>8 DEF DockerInv

\* docker compose down removes the containers or fails, and keeps its status.
LEMMA ComposeDownInv ==
  ASSUME DockerInv, NEW r \in Run, ComposeDown(r)
  PROVE  DockerInv'
<1>1. PICK ok \in BOOLEAN :
         /\ proc[r].kind = "down" /\ proc[r].stage = "start" /\ Live(r) /\ HostStep
         /\ Fault \/ NoFault
         /\ proc' = [proc EXCEPT ![r].stage = "rm", ![r].ok = ok]
         /\ UNCHANGED <<dir, file, copies>>
         /\ IF ok THEN NothingRuns' ELSE UNCHANGED <<container, agent>>
  BY DEF ComposeDown, At, Live, NothingRuns
<1>2. HostType'
  BY <1>1, MovesOn DEF DockerInv, HostType
<1>3. Advances(r)
  BY <1>1, <1>2, MovesOn DEF Advances, HostStep, runVars
<1>4. TypeOK'
  BY <1>1, <1>2, HostStepTypes DEF DockerInv, TypeOK
<1>5. AloneInv' /\ PlaceInv'
  BY <1>1, <1>3, CommandAdvances
<1>6. SentInv'
  BY <1>1, <1>3, CommandAdvances, MovesOn
     DEF SentInv, Advances, DockerInv, Kind, At, Succeeded
<1>7. UpInv'
  BY <1>1, <1>3, CommandAdvances DEF UpInv, Advances, DockerInv, Kind, At, Succeeded, NothingRuns
<1>8. DownInv'
  <2>1. UNCHANGED <<run, raced, unclean, pc, dir, file>> /\ proc'[r].ok = ok /\ proc'[r].stage = "rm"
    BY <1>1, <1>3, MovesOn DEF Advances
  <2>2. (run \in Run /\ At(run, "down", "exited")') => file' = NoFiles \/ proc'[run].left
    <3>1. CASE r = run
      BY <2>1, <3>1 DEF At
    <3>2. CASE r # run
      BY <1>1, <1>3, <2>1, <3>2, CommandAdvances DEF DockerInv, DownInv, At
    <3>3. QED
      BY <3>1, <3>2
  <2>3. ASSUME ~raced
        PROVE  /\ r = run /\ proc'[run].stage = "rm"
               /\ proc'[run].ok => NothingRuns'
               /\ ~unclean => NothingRuns' \/ dir'
    <3>1. r = run /\ run \in Run
      BY <1>1, <1>3, <2>3, CommandAdvances
    <3>2. ok \/ NothingRuns' = NothingRuns
      BY <1>1 DEF NothingRuns
    <3>3. ~unclean => NothingRuns \/ dir
      BY <1>1, <2>3, <3>1 DEF DockerInv, DownInv, At
    <3>4. QED
      BY <1>1, <2>1, <3>1, <3>2, <3>3
  <2>4. QED
    BY <2>1, <2>2, <2>3 DEF DownInv, At, Succeeded
<1>9. QED
  BY <1>2, <1>4, <1>5, <1>6, <1>7, <1>8 DEF DockerInv

\* The directory goes whatever that status was.
LEMMA DownRemovesDirectoryInv ==
  ASSUME DockerInv, NEW r \in Run, DownRemovesDirectory(r)
  PROVE  DockerInv'
<1>1. /\ proc[r].kind = "down" /\ proc[r].stage = "rm" /\ Live(r) /\ HostStep /\ NoFault
      /\ dir' = FALSE /\ file' = NoFiles /\ copies' = NoCopies
      /\ proc' = [proc EXCEPT ![r].stage = "exited", ![r].ok = proc[r].ok]
      /\ proc[r].ok \in BOOLEAN
      /\ UNCHANGED <<container, agent>>
  BY DEF DownRemovesDirectory, At, Exit, Live, DockerInv, HostType, Command
<1>2. HostType'
  BY <1>1, MovesOn DEF HostType, NoFiles, Files, Tokens, Configs
<1>3. Advances(r)
  BY <1>1, <1>2, MovesOn DEF Advances, HostStep, runVars
<1>4. TypeOK'
  <2>1. 0 \in 0..MaxRuns
    BY BoundsAssumption
  <2>2. QED
    BY <1>1, <1>2, <2>1, HostStepTypes DEF NoCopies
<1>5. AloneInv' /\ PlaceInv'
  BY <1>1, <1>3, CommandAdvances
<1>6. SentInv'
  <2>1. file'.dotEnv = Absent
    BY <1>1 DEF NoFiles
  <2>2. ~raced => Kind' = "down" /\ pc' \in {"down", "ok", "err"}
    BY <1>1, <1>3, CommandAdvances DEF DockerInv, PlaceInv, Kind, Advances
  <2>3. QED
    BY <1>3, <2>1, <2>2 DEF SentInv, Advances, Sending, Writing
<1>7. UpInv'
  BY <1>1, <1>3, CommandAdvances DEF UpInv, Advances, DockerInv, Kind, At, Succeeded
<1>8. DownInv'
  <2>1. proc'[r].ok = proc[r].ok /\ proc'[r].stage = "exited"
    BY <1>1, MovesOn
  <2>2. ASSUME ~raced
        PROVE  /\ r = run /\ run \in Run
               /\ proc[run].ok => NothingRuns
               /\ ~unclean => pc = "down"
    <3>1. r = run /\ run \in Run
      BY <1>1, <1>3, <2>2, CommandAdvances
    <3>2. proc[run].ok => NothingRuns
      BY <1>1, <2>2, <3>1 DEF DockerInv, DownInv, At
    <3>3. ~unclean => pc = "down"
      BY <1>1, <3>1 DEF DockerInv, PlaceInv, Kind, Succeeded, At
    <3>4. QED
      BY <3>1, <3>2, <3>3
  <2>3. UNCHANGED <<run, raced, unclean, pc>> /\ NothingRuns' = NothingRuns
    BY <1>1, <1>3 DEF Advances, NothingRuns
  <2>4. ~raced => At(run, "down", "exited")' /\ proc'[run].ok = proc[run].ok
    BY <1>1, <1>3, <2>1, <2>2, <2>3 DEF Advances, At
  <2>5. QED
    BY <1>1, <2>2, <2>3, <2>4 DEF DownInv, At, Succeeded
<1>9. QED
  BY <1>2, <1>4, <1>5, <1>6, <1>7, <1>8 DEF DockerInv

\* What rm -rf cannot remove stays as it was, or is cut short.
LEMMA DownLeavesFilesInv ==
  ASSUME DockerInv, NEW r \in Run, DownLeavesFiles(r)
  PROVE  DockerInv'
<1>1. /\ proc[r].kind = "down" /\ proc[r].stage = "rm" /\ Live(r) /\ HostStep /\ Fault
      /\ proc' = [proc EXCEPT ![r].stage = "exited", ![r].left = TRUE]
      /\ dir /\ UNCHANGED <<dir, container, agent>>
  BY DEF DownLeavesFiles, At, Live
<1>2. /\ proc' \in [Run -> Command] /\ \A q \in Run \ {r} : proc'[q] = proc[q]
      /\ proc'[r].kind = "down" /\ proc'[r].stage = "exited" /\ proc'[r].left
      /\ proc'[r].ok = proc[r].ok
  <2>1. proc \in [Run -> Command] /\ proc[r] \in Command
    BY DEF DockerInv, HostType
  <2>2. proc' = [proc EXCEPT ![r] = [[proc[r] EXCEPT !.stage = "exited"] EXCEPT !.left = TRUE]]
    BY <1>1, <2>1
  <2>3. [[proc[r] EXCEPT !.stage = "exited"] EXCEPT !.left = TRUE] \in Command
    BY <2>1 DEF Command
  <2>4. QED
    BY <1>1, <2>1, <2>2, <2>3 DEF Command
<1>3. /\ file' \in Files /\ file'.dotEnv \in {file.dotEnv, Absent}
      /\ file = NoFiles => file' = NoFiles
  <2>1. file \in Files
    BY DEF DockerInv, HostType
  <2>2. DOMAIN file = {"compose", "dotEnv", "ngrok"}
    BY <2>1 DEF Files
  <2>3. PICK gone \in SUBSET DOMAIN file :
           file' = [f \in DOMAIN file |-> IF f \in gone THEN Absent ELSE file[f]]
    BY DEF DownLeavesFiles
  <2>4. file' = [compose |-> IF "compose" \in gone THEN Absent ELSE file.compose,
                 dotEnv |-> IF "dotEnv" \in gone THEN Absent ELSE file.dotEnv,
                 ngrok |-> IF "ngrok" \in gone THEN Absent ELSE file.ngrok]
    BY <2>2, <2>3
  <2>5. QED
    BY <2>1, <2>4 DEF Files, Tokens, Configs, NoFiles
<1>4. HostType'
  BY <1>2, <1>3 DEF HostType
<1>5. Advances(r)
  BY <1>1, <1>2, <1>4 DEF Advances, HostStep, runVars
<1>6. TypeOK'
  <2>1. copies' \in [Service -> 0..MaxRuns \union {Partial}]
    <3>1. 0 \in 0..MaxRuns
      BY BoundsAssumption
    <3>2. QED
      BY <3>1 DEF DownLeavesFiles, DockerInv, TypeOK
  <2>2. QED
    BY <1>1, <1>4, <2>1, HostStepTypes
<1>7. AloneInv' /\ PlaceInv'
  BY <1>1, <1>5, CommandAdvances
<1>8. SentInv'
  <2>1. file.dotEnv = Absent => file'.dotEnv = Absent
    BY <1>3
  <2>2. ~raced => Kind' = "down" /\ pc' \in {"down", "ok", "err"}
    BY <1>1, <1>5, CommandAdvances DEF DockerInv, PlaceInv, Kind, Advances
  <2>3. QED
    BY <1>1, <1>2, <1>5, <2>1, <2>2, CommandAdvances
       DEF DockerInv, SentInv, Advances, Sending, Writing, Kind, At, Succeeded
<1>9. UpInv'
  BY <1>1, <1>5, CommandAdvances DEF UpInv, Advances, DockerInv, Kind, At, Succeeded
<1>10. DownInv'
  <2>1. NothingRuns' = NothingRuns /\ dir'
    BY <1>1 DEF NothingRuns
  <2>2. ~raced /\ ~unclean /\ proc[r].ok => NothingRuns
    BY <1>1, <1>5, CommandAdvances DEF DockerInv, DownInv, At
  <2>3. ASSUME run \in Run, At(run, "down", "exited")' PROVE file' = NoFiles \/ proc'[run].left
    <3>1. CASE r = run
      BY <1>2, <3>1, <1>5 DEF Advances
    <3>2. CASE r # run
      <4>1. file = NoFiles \/ proc[run].left
        BY <1>2, <1>5, <2>3, <3>2 DEF DockerInv, DownInv, Advances, At
      <4>2. proc'[run].left = proc[run].left
        BY <1>5, <2>3, <3>2 DEF Advances
      <4>3. QED
        BY <1>3, <4>1, <4>2
    <3>3. QED
      BY <3>1, <3>2
  <2>4. QED
    BY <1>1, <1>2, <1>5, <2>1, <2>2, <2>3, CommandAdvances DEF DownInv, Advances, At, Succeeded
<1>11. QED
  BY <1>4, <1>6, <1>7, <1>8, <1>9, <1>10 DEF DockerInv

\* Every step of a remote command keeps the invariant.
LEMMA HostInv ==
  ASSUME DockerInv, NEW r \in Run, Host(r)
  PROVE  DockerInv'
BY RemoveNgrokFilesInv, RemoveCopiesInv, UpReadsInv, UpServicesInv, UpAgentInv,
   DownFindsNothingInv, ComposeDownInv, DownRemovesDirectoryInv, DownLeavesFilesInv, CommandFailsInv DEF Host
-----------------------------------------------------------------------------
(* The run's own steps, which touch no container and no other run's command. *)

OwnStep ==
    /\ pc \in Sending \union {"build", "down"}
    /\ pc' \in Sending \union {"down", "ok", "err"}
    /\ UNCHANGED <<run, cmd, edition, dryRun, interrupted, session, silent, raced, container, agent>>
    /\ \A q \in Run \ {run} : proc'[q] = proc[q]
    /\ unclean' = (unclean \/ (cmd = "destroy" /\ pc' = "err"))
    /\ Fault \/ NoFault
    /\ tocopy' \subseteq tocopy
    /\ dir' \in {dir, TRUE} /\ (~dir' => file' = NoFiles /\ copies' = NoCopies)
    /\ copies' \in [Service -> 0..MaxRuns \union {Partial}]
    /\ HostType'

\* A step of the local run keeps what does not hang on the command it starts.
LEMMA OwnStepKeeps ==
  ASSUME DockerInv, OwnStep
  PROVE  /\ run \in Run /\ TypeOK' /\ AloneInv'
         /\ Kind' # "up" => UpInv'
         /\ (cmd = "deploy" /\ Kind' # "down") => DownInv'
<1>1. run \in Run
  BY DEF DockerInv, AloneInv, OwnStep, Sending, Writing
<1>2. TypeOK'
  <2>1. faults' \in 0..MaxFaults
    BY BoundsAssumption DEF DockerInv, TypeOK, OwnStep, Fault, NoFault
  <2>2. unclean' \in BOOLEAN /\ dir' \in BOOLEAN /\ session' \in BOOLEAN /\ silent' \in BOOLEAN
        /\ (~dir' => file' = NoFiles /\ copies' = NoCopies)
    BY Zenon DEF DockerInv, TypeOK, OwnStep
  <2>3. DOMAIN file' = {"compose", "dotEnv", "ngrok"}
        /\ file'.compose \in {ComposeContent(e) : e \in Editions} \union {Absent, Partial}
    BY DEF OwnStep, HostType, Files, Composes
  <2>4. pc' \in {"build", "writeCompose", "removeNgrok", "writeDotEnv", "writeNgrok",
                 "removeCopies", "copy", "up", "down", "ok", "err"}
    BY DEF OwnStep, Sending, Writing
  <2>5. tocopy' \subseteq Copyable(edition')
    BY DEF DockerInv, TypeOK, OwnStep
  <2>6. QED
    BY <2>1, <2>2, <2>3, <2>4, <2>5, Zenon DEF DockerInv, TypeOK, OwnStep
<1>3. AloneInv'
  BY <1>1 DEF DockerInv, TypeOK, AloneInv, OwnStep, Live, Run
<1>5. Kind' # "up" => UpInv'
  BY DEF DockerInv, UpInv, OwnStep, Kind
<1>6. ASSUME cmd = "deploy", Kind' # "down"
      PROVE  DownInv'
  <2>1. dir => dir'
    BY Zenon DEF OwnStep
  <2>2. UNCHANGED <<run, raced, container, agent>> /\ pc # "down" /\ Kind' # "down"
        /\ (unclean => unclean')
    BY <1>6 DEF DockerInv, PlaceInv, OwnStep
  <2>3. QED
    BY <2>1, <2>2 DEF DockerInv, DownInv, Kind, At, Succeeded, NothingRuns
<1>7. QED
  BY <1>1, <1>2, <1>3, <1>5, <1>6

\* A dry run's images are built too; then it is over.
LEMMA BuildImagesInv ==
  ASSUME DockerInv, BuildImages
  PROVE  DockerInv'
<1>1. /\ pc = "build" /\ pc' \in {"ok", "writeCompose", "err"}
      /\ dryRun => pc' \in {"ok", "err"}
      /\ pc' = "ok" => dryRun
      /\ UNCHANGED <<run, cmd, edition, dryRun, interrupted, raced, session, silent, tocopy, dir,
                     file, copies, container, agent, proc>>
      /\ unclean' = (unclean \/ (cmd = "destroy" /\ pc' = "err"))
      /\ Fault \/ NoFault
  BY DEF BuildImages, Goto, Broken, runVars, hostVars
<1>2. OwnStep
  BY <1>1 DEF OwnStep, DockerInv, HostType, TypeOK, Sending, Writing
<1>3. /\ run \in Run /\ cmd = "deploy" /\ Kind = "none" /\ Kind' = "none"
      /\ ~Live(run) /\ ~Live(run)'
  BY <1>1, <1>2, OwnStepKeeps DEF DockerInv, PlaceInv, Kind, Live, Sending
<1>4. PlaceInv'
  BY <1>1, <1>3 DEF DockerInv, PlaceInv, Sending, Writing, Kind, Copyable
<1>5. SentInv'
  BY <1>1, <1>3 DEF SentInv, Sending, Writing, Kind, At, Succeeded
<1>6. QED
  BY <1>1, <1>2, <1>3, <1>4, <1>5, OwnStepKeeps DEF DockerInv, OwnStep

\* What a write leaves: the content when the run goes on, else what was there, the content,
\* or part of it.
LEMMA Written ==
  ASSUME DockerInv, pc \in Writing, NEW name \in {"compose", "dotEnv", "ngrok"},
         NEW content, NEW next \in Sending, CreateFile(name, content, next),
         content \in IF name = "compose" THEN Composes ELSE IF name = "dotEnv" THEN Tokens
                     ELSE Configs
  PROVE  /\ OwnStep /\ cmd = "deploy" /\ Kind = "none" /\ Kind' = "none"
         /\ run \in Run /\ ~Live(run)' /\ ~dryRun
         /\ \/ pc' = next /\ file'[name] = content
            \/ pc' = "err" /\ file'[name] \in {file[name], Partial, content}
         /\ \A f \in {"compose", "dotEnv", "ngrok"} \ {name} : file'[f] = file[f]
         /\ UNCHANGED <<copies, container, agent, proc, tocopy, edition>>
<1>1. PICK left : /\ file' = [file EXCEPT ![name] = left]
                  /\ \/ left = content /\ pc' = next /\ dir' = TRUE
                     \/ /\ left \in {file[name], Partial, content} /\ pc' = "err"
                        /\ dir' = TRUE \/ UNCHANGED <<dir, file>>
  <2>1. file \in Files /\ file = [file EXCEPT ![name] = file[name]]
    BY DEF DockerInv, HostType, Files
  <2>2. QED
    BY <2>1 DEF CreateFile, Goto
<1>2. /\ UNCHANGED <<run, cmd, edition, dryRun, interrupted, raced, session, silent, tocopy, copies,
                     container, agent, proc>>
      /\ unclean' = (unclean \/ (cmd = "destroy" /\ pc' = "err"))
      /\ Fault \/ NoFault
  BY DEF CreateFile, Goto, Broken, Unbroken, runVars
<1>3. file \in Files /\ proc \in [Run -> Command]
  BY DEF DockerInv, HostType
<1>4. left \in IF name = "compose" THEN Composes \union {Absent, Partial}
               ELSE IF name = "dotEnv" THEN Tokens ELSE Configs
  BY <1>1, <1>3 DEF Files, Tokens, Configs
<1>5. file' \in Files /\ file'[name] = left
      /\ \A f \in {"compose", "dotEnv", "ngrok"} \ {name} : file'[f] = file[f]
  BY <1>1, <1>3, <1>4 DEF Files
<1>6. OwnStep
  <2>1. dir' \in {dir, TRUE} /\ (~dir' => file' = NoFiles /\ copies' = NoCopies)
    BY <1>1, <1>2 DEF DockerInv, TypeOK
  <2>2. QED
    BY <1>1, <1>2, <1>3, <1>5, <2>1 DEF OwnStep, DockerInv, HostType, TypeOK, Sending, Writing
<1>7. cmd = "deploy" /\ run \in Run /\ Kind = "none" /\ ~Live(run) /\ ~dryRun
  BY <1>6, OwnStepKeeps DEF DockerInv, PlaceInv, Sending, Writing
<1>8. QED
  BY <1>1, <1>2, <1>5, <1>6, <1>7 DEF Kind, Live

\* compose.yml is sent.
LEMMA WriteComposeInv ==
  ASSUME DockerInv, WriteCompose
  PROVE  DockerInv'
<1>1. edition \in Editions /\ ComposeContent(edition) \in Composes
  BY DEF DockerInv, TypeOK, Composes
<1>2. /\ OwnStep /\ cmd = "deploy" /\ Kind = "none" /\ Kind' = "none"
      /\ run \in Run /\ ~Live(run)' /\ ~dryRun
      /\ \/ /\ pc' = IF Published(edition) = {} THEN "removeNgrok" ELSE "writeDotEnv"
            /\ file'.compose = ComposeContent(edition)
         \/ pc' = "err" /\ file'.compose \in {file.compose, Partial, ComposeContent(edition)}
      /\ pc = "writeCompose"
      /\ UNCHANGED <<copies, container, agent, proc, tocopy, edition>>
  BY <1>1, Written DEF WriteCompose, Sending, Writing
<1>3. PlaceInv'
  BY <1>2 DEF DockerInv, PlaceInv, OwnStep, Sending, Writing, Published, Copyable
<1>4. SentInv'
  BY <1>2 DEF SentInv, OwnStep, Sending, Writing, Kind, At, Succeeded, ComposeContent, Kept, Copyable,
              Published, AgentLabel
<1>5. QED
  BY <1>2, <1>3, <1>4, OwnStepKeeps DEF DockerInv, OwnStep

\* .env is sent.
LEMMA WriteDotEnvInv ==
  ASSUME DockerInv, WriteDotEnv
  PROVE  DockerInv'
<1>1. edition.token \in Tokens
  BY DEF DockerInv, TypeOK, Tokens
<1>2. /\ OwnStep /\ cmd = "deploy" /\ Kind = "none" /\ Kind' = "none"
      /\ run \in Run /\ ~Live(run)' /\ ~dryRun
      /\ \/ pc' = "writeNgrok" /\ file'.dotEnv = edition.token
         \/ pc' = "err"
      /\ file'.compose = file.compose /\ pc = "writeDotEnv"
      /\ UNCHANGED <<copies, container, agent, proc, tocopy, edition>>
  BY <1>1, Written DEF WriteDotEnv, Sending, Writing
<1>3. PlaceInv'
  BY <1>2 DEF DockerInv, PlaceInv, OwnStep, Sending, Writing, Published, Copyable
<1>4. SentInv'
  BY <1>2 DEF DockerInv, PlaceInv, SentInv, OwnStep, Sending, Writing, Kind, At, Succeeded,
              ComposeContent, Kept, Copyable, Published, AgentLabel
<1>5. QED
  BY <1>2, <1>3, <1>4, OwnStepKeeps DEF DockerInv, OwnStep

\* ngrok.yml is sent.
LEMMA WriteNgrokInv ==
  ASSUME DockerInv, WriteNgrok
  PROVE  DockerInv'
<1>1. Published(edition) \in Configs
  BY DEF DockerInv, TypeOK, Configs
<1>2. /\ OwnStep /\ cmd = "deploy" /\ Kind = "none" /\ Kind' = "none"
      /\ run \in Run /\ ~Live(run)' /\ ~dryRun
      /\ \/ pc' = "removeCopies" /\ file'.ngrok = Published(edition)
         \/ pc' = "err"
      /\ file'.compose = file.compose /\ file'.dotEnv = file.dotEnv /\ pc = "writeNgrok"
      /\ UNCHANGED <<copies, container, agent, proc, tocopy, edition>>
  BY <1>1, Written DEF WriteNgrok, Sending, Writing
<1>3. PlaceInv'
  BY <1>2 DEF DockerInv, PlaceInv, OwnStep, Sending, Writing, Published, Copyable
<1>4. SentInv'
  BY <1>2 DEF DockerInv, PlaceInv, SentInv, OwnStep, Sending, Writing, Kind, At, Succeeded,
              ComposeContent, Kept, Copyable, Published, AgentLabel
<1>5. QED
  BY <1>2, <1>3, <1>4, OwnStepKeeps DEF DockerInv, OwnStep

\* A command is started, or has succeeded and the run goes on, or the run gives up.
LEMMA Ran ==
  ASSUME DockerInv, NEW kind \in {"rmNgrok", "rmCopies", "up", "down"},
         NEW at \in Sending \union {"down"}, NEW next \in Sending \union {"ok"},
         RunCommand(kind, at, next)
  PROVE  /\ OwnStep /\ run \in Run /\ ~dryRun /\ pc = at
         /\ UNCHANGED <<dir, file, copies, tocopy>>
         /\ \/ /\ Kind # kind /\ pc' = at
               /\ Kind' = kind /\ At(run, kind, "start")'
            \/ /\ Succeeded(kind) /\ pc' = next /\ UNCHANGED proc
            \/ /\ pc' = "err" /\ UNCHANGED proc
               /\ (At(run, kind, "exited") => ~proc[run].ok) \/ interrupted \/ faults' # faults
            \/ /\ pc' = "err" /\ Kind' = "none" /\ ~Live(run)' /\ At(run, "none", "exited")'
<1>1. pc = at /\ run \in Run /\ ~dryRun
  BY DEF RunCommand, DockerInv, AloneInv, PlaceInv, Sending, Writing
<1>2. /\ UNCHANGED <<run, cmd, edition, dryRun, interrupted, raced, session, silent, tocopy, dir,
                     file, copies, container, agent>>
      /\ unclean' = (unclean \/ (cmd = "destroy" /\ pc' = "err"))
      /\ Fault \/ NoFault
      /\ pc' \in {at, next, "err"}
  BY DEF RunCommand, Goto, Broken, Unbroken, runVars, hostVars
<1>3. proc \in [Run -> Command] /\ NoProc \in Command /\ Spawned(kind) \in Command
  BY DEF DockerInv, HostType, Command, NoProc, Spawned, Tokens
<1>4. \/ /\ Kind # kind /\ pc' = at /\ proc' = [proc EXCEPT ![run] = Spawned(kind)]
      \/ /\ Succeeded(kind) /\ pc' = next /\ UNCHANGED proc
      \/ /\ pc' = "err" /\ UNCHANGED proc
         /\ (At(run, kind, "exited") => ~proc[run].ok) \/ interrupted \/ faults' # faults
      \/ pc' = "err" /\ proc' = [proc EXCEPT ![run] = NoProc]
  <2>1. CASE proc[run].kind # kind /\ Goto(at) /\ proc' = [proc EXCEPT ![run] = Spawned(kind)]
    BY <2>1 DEF Goto, Kind
  <2>2. CASE /\ At(run, kind, "exited") /\ NoFault /\ UNCHANGED proc
             /\ Goto(IF proc[run].ok THEN next ELSE "err")
    BY <2>2 DEF Goto, Succeeded
  <2>3. CASE /\ Goto("err") /\ Broken
             /\ UNCHANGED proc \/ proc' = [proc EXCEPT ![run] = NoProc]
    BY <2>3 DEF Goto, Broken, Fault, DockerInv, TypeOK
  <2>4. QED
    BY <2>1, <2>2, <2>3 DEF RunCommand
<1>5. /\ proc' \in [Run -> Command]
      /\ \A q \in Run \ {run} : proc'[q] = proc[q]
  BY <1>1, <1>3, <1>4
<1>6. OwnStep
  BY <1>1, <1>2, <1>5 DEF OwnStep, DockerInv, HostType, TypeOK, Sending, Writing
<1>7. ASSUME proc' = [proc EXCEPT ![run] = Spawned(kind)]
      PROVE  Kind' = kind /\ At(run, kind, "start")'
  <2>1. proc'[run] = Spawned(kind) /\ run' = run
    BY <1>1, <1>2, <1>3, <1>7
  <2>2. Spawned(kind).kind = kind /\ Spawned(kind).stage = "start"
    BY DEF Spawned, NoProc
  <2>3. QED
    BY <2>1, <2>2 DEF Kind, At
<1>8. ASSUME proc' = [proc EXCEPT ![run] = NoProc]
      PROVE  Kind' = "none" /\ ~Live(run)' /\ At(run, "none", "exited")'
  <2>1. proc'[run] = NoProc /\ run' = run
    BY <1>1, <1>2, <1>3, <1>8
  <2>2. QED
    BY <2>1 DEF Kind, At, Live, NoProc
<1>9. QED
  BY <1>1, <1>2, <1>4, <1>6, <1>7, <1>8

\* A deploy's commands: the agent's files go only when nothing is published, and nothing
\* of what was sent changes while the command runs.
LEMMA RemoveNgrokInv ==
  ASSUME DockerInv, RemoveNgrok
  PROVE  DockerInv'
<1>1. /\ OwnStep /\ run \in Run /\ ~dryRun /\ pc = "removeNgrok"
      /\ UNCHANGED <<dir, file, copies, tocopy>>
      /\ \/ /\ pc' = "removeNgrok" /\ Kind' = "rmNgrok" /\ At(run, "rmNgrok", "start")'
         \/ /\ Succeeded("rmNgrok") /\ pc' = "removeCopies" /\ UNCHANGED proc
         \/ /\ pc' = "err" /\ UNCHANGED proc
         \/ /\ pc' = "err" /\ Kind' = "none" /\ ~Live(run)' /\ At(run, "none", "exited")'
  BY Ran DEF RemoveNgrok, Sending, Writing
<1>2. UNCHANGED <<run, cmd, edition, dryRun, raced>> /\ cmd = "deploy" /\ Kind \in {"none", "rmNgrok"}
      /\ Published(edition) = {}
  BY <1>1 DEF OwnStep, DockerInv, PlaceInv, Sending
<1>3. Kind' \in {"none", "rmNgrok"}
  BY <1>1, <1>2 DEF Kind
<1>4. PlaceInv'
  BY <1>1, <1>2, <1>3
     DEF DockerInv, PlaceInv, OwnStep, Sending, Writing, Published, Copyable, Kind, At, Live,
         Succeeded
<1>5. SentInv'
  BY <1>1, <1>2, <1>3 DEF DockerInv, SentInv, Sending, Writing, Kind, At, Succeeded,
              ComposeContent, Kept, Copyable, Published, AgentLabel
<1>6. QED
  BY <1>1, <1>2, <1>3, <1>4, <1>5, OwnStepKeeps DEF DockerInv, OwnStep

\* The paths copied before are removed.
LEMMA ClearCopiesInv ==
  ASSUME DockerInv, ClearCopies
  PROVE  DockerInv'
<1>1. /\ OwnStep /\ run \in Run /\ ~dryRun /\ pc = "removeCopies"
      /\ UNCHANGED <<dir, file, copies, tocopy>>
      /\ \/ /\ pc' = "removeCopies" /\ Kind' = "rmCopies" /\ At(run, "rmCopies", "start")'
         \/ /\ Succeeded("rmCopies") /\ pc' = "copy" /\ UNCHANGED proc
         \/ /\ pc' = "err" /\ UNCHANGED proc
         \/ /\ pc' = "err" /\ Kind' = "none" /\ ~Live(run)' /\ At(run, "none", "exited")'
  BY Ran DEF ClearCopies, Sending, Writing
<1>2. UNCHANGED <<run, cmd, edition, dryRun, raced>> /\ cmd = "deploy"
      /\ Kind \in {"none", "rmNgrok", "rmCopies"}
  BY <1>1 DEF OwnStep, DockerInv, PlaceInv, Sending, Succeeded, At, Kind
<1>3. Kind' \in {"none", "rmNgrok", "rmCopies"}
  BY <1>1, <1>2 DEF Kind
<1>4. PlaceInv'
  BY <1>1, <1>2, <1>3
     DEF DockerInv, PlaceInv, OwnStep, Sending, Writing, Published, Copyable, Kind, At, Live,
         Succeeded
<1>5. SentInv'
  <2>1. tocopy = Copyable(edition)
    BY <1>1 DEF DockerInv, PlaceInv, Sending, Writing
  <2>2. QED
    BY <1>1, <1>2, <1>3, <2>1 DEF DockerInv, SentInv, Sending, Writing, Kind, At, Succeeded,
              ComposeContent, Kept, Copyable, Published, AgentLabel
<1>6. QED
  BY <1>1, <1>2, <1>3, <1>4, <1>5, OwnStepKeeps DEF DockerInv, OwnStep

\* up is started when everything was sent.
LEMMA ComposeUpInv ==
  ASSUME DockerInv, ComposeUp
  PROVE  DockerInv'
<1>1. /\ OwnStep /\ run \in Run /\ ~dryRun /\ pc = "up"
      /\ UNCHANGED <<dir, file, copies, tocopy>>
      /\ \/ /\ pc' = "up" /\ Kind' = "up" /\ At(run, "up", "start")'
         \/ /\ Succeeded("up") /\ pc' = "ok" /\ UNCHANGED proc
         \/ /\ pc' = "err" /\ UNCHANGED proc
         \/ /\ pc' = "err" /\ Kind' = "none" /\ ~Live(run)' /\ At(run, "none", "exited")'
  BY Ran DEF ComposeUp, Sending, Writing
<1>2. UNCHANGED <<run, cmd, edition, dryRun, raced, container, agent>> /\ cmd = "deploy"
      /\ Kind \in {"rmCopies", "up"}
  BY <1>1 DEF OwnStep, DockerInv, PlaceInv, Sending, At, Kind
<1>3. Kind' \in {"none", "rmCopies", "up"}
  BY <1>1, <1>2 DEF Kind
<1>4. PlaceInv'
  BY <1>1, <1>2, <1>3
     DEF DockerInv, PlaceInv, OwnStep, Sending, Writing, Published, Copyable, Kind, At, Live,
         Succeeded
<1>5. SentInv'
  BY <1>1, <1>2, <1>3 DEF DockerInv, SentInv, Sending, Writing, Kind, At, Succeeded,
              ComposeContent, Kept, Copyable, Published, AgentLabel
<1>6. UpInv'
  <2>1. CASE At(run, "up", "start")'
    BY <1>2, <2>1 DEF DockerInv, UpInv, At, Succeeded
  <2>2. CASE UNCHANGED proc
    BY <1>1, <1>2, <2>2 DEF DockerInv, UpInv, Kind, At, Succeeded, ComposeContent, Kept, Copyable,
                            Published, AgentLabel
  <2>3. CASE Kind' = "none"
    BY <1>1, <2>3, OwnStepKeeps
  <2>4. QED
    BY <1>1, <2>1, <2>2, <2>3
<1>7. QED
  BY <1>1, <1>2, <1>3, <1>4, <1>5, <1>6, OwnStepKeeps DEF DockerInv, OwnStep

\* A destroy that gives up, or whose command failed, has returned an error.
LEMMA DestroyInv ==
  ASSUME DockerInv, Destroy
  PROVE  DockerInv'
<1>1. /\ OwnStep /\ run \in Run /\ ~dryRun /\ pc = "down"
      /\ UNCHANGED <<dir, file, copies, tocopy>>
      /\ \/ /\ pc' = "down" /\ Kind' = "down" /\ At(run, "down", "start")' /\ Kind # "down"
         \/ /\ Succeeded("down") /\ pc' = "ok" /\ UNCHANGED proc
         \/ /\ pc' = "err" /\ UNCHANGED proc
         \/ /\ pc' = "err" /\ Kind' = "none" /\ ~Live(run)' /\ At(run, "none", "exited")'
  BY Ran DEF Destroy, Sending, Writing
<1>2. UNCHANGED <<run, cmd, edition, dryRun, raced, container, agent>> /\ cmd = "destroy"
      /\ Kind \in {"none", "down"} /\ unclean' = (unclean \/ pc' = "err")
  BY <1>1 DEF OwnStep, DockerInv, PlaceInv, Sending, At, Kind
<1>3. Kind' \in {"none", "down"}
  BY <1>1, <1>2 DEF Kind
<1>4. PlaceInv'
  <2>1. CASE pc' = "down" /\ Kind' = "down" /\ At(run, "down", "start")'
    BY <1>1, <1>2, <2>1 DEF DockerInv, PlaceInv, Sending, Writing, At
  <2>2. CASE Succeeded("down") /\ pc' = "ok" /\ UNCHANGED proc
    BY <1>1, <1>2, <2>2 DEF DockerInv, PlaceInv, Sending, Writing, Kind, At, Live, Succeeded
  <2>3. CASE pc' = "err" /\ UNCHANGED proc
    BY <1>1, <1>2, <2>3 DEF DockerInv, PlaceInv, Sending, Writing, Kind, At, Live
  <2>4. CASE pc' = "err" /\ Kind' = "none" /\ ~Live(run)'
    BY <1>1, <1>2, <2>4 DEF DockerInv, PlaceInv, Sending, Writing
  <2>5. QED
    BY <1>1, <2>1, <2>2, <2>3, <2>4
<1>5. SentInv'
  BY <1>1, <1>2, <1>3 DEF DockerInv, SentInv, Sending, Writing, Kind, At, Succeeded
<1>6. DownInv'
  <2>1. NothingRuns' = NothingRuns
    BY <1>2 DEF NothingRuns
  <2>2. CASE At(run, "down", "start")' /\ Kind # "down"
    BY <1>1, <1>2, <2>1, <2>2 DEF DockerInv, DownInv, Kind, At, Succeeded
  <2>3. CASE Succeeded("down") /\ pc' = "ok" /\ UNCHANGED proc
    BY <1>1, <1>2, <2>1, <2>3 DEF DockerInv, DownInv, Kind, At, Succeeded
  <2>4. CASE pc' = "err" /\ UNCHANGED proc
    BY <1>1, <1>2, <2>1, <2>4 DEF DockerInv, DownInv, Kind, At, Succeeded
  <2>5. CASE pc' = "err" /\ Kind' = "none"
    BY <1>1, <1>2, <2>1, <2>5 DEF DockerInv, DownInv, Kind, At, Succeeded
  <2>6. QED
    BY <1>1, <2>2, <2>3, <2>4, <2>5
<1>7. QED
  BY <1>1, <1>2, <1>3, <1>4, <1>5, <1>6, OwnStepKeeps DEF DockerInv, OwnStep

\* A service's paths are this run's once they were sent whole; the run ends if they were not.
LEMMA CopyPathsInv ==
  ASSUME DockerInv, NEW s \in tocopy, CopyPaths(s)
  PROVE  DockerInv'
<1>1. PICK left : /\ copies' = [copies EXCEPT ![s] = left]
                  /\ left \in {copies[s], Partial, run}
                  /\ \/ left = run /\ pc' = "copy" /\ tocopy' = tocopy \ {s} /\ dir' = TRUE
                     \/ /\ pc' = "err" /\ tocopy' = tocopy
                        /\ dir' = TRUE \/ UNCHANGED <<dir, copies>>
  <2>1. copies = [copies EXCEPT ![s] = copies[s]]
    BY DEF DockerInv, TypeOK
  <2>2. QED
    BY <2>1 DEF CopyPaths, Goto
<1>2. /\ UNCHANGED <<run, cmd, edition, dryRun, interrupted, raced, session, silent, file, container, agent,
                  proc>>
      /\ unclean' = (unclean \/ (cmd = "destroy" /\ pc' = "err"))
      /\ Fault \/ NoFault
      /\ pc = "copy"
  BY DEF CopyPaths, Goto, Broken, Unbroken, runVars
<1>3. /\ s \in Service /\ tocopy \subseteq Copyable(edition) /\ Copyable(edition) \subseteq Service
      /\ copies \in [Service -> 0..MaxRuns \union {Partial}] /\ run \in 0..MaxRuns
  BY ServicesOfEdition DEF DockerInv, TypeOK
<1>4. copies' \in [Service -> 0..MaxRuns \union {Partial}]
  BY <1>1, <1>3
<1>5. OwnStep
  <2>1. dir' \in {dir, TRUE} /\ (~dir' => file' = NoFiles /\ copies' = NoCopies)
    <3>1. ~dir => file = NoFiles /\ copies = NoCopies
      BY DEF DockerInv, TypeOK
    <3>2. dir' = TRUE \/ UNCHANGED <<dir, copies>>
      BY <1>1
    <3>3. QED
      BY <1>2, <3>1, <3>2
  <2>2. QED
    BY <1>1, <1>2, <1>4, <2>1 DEF OwnStep, DockerInv, HostType, Sending, Writing
<1>6. /\ run \in Run /\ cmd = "deploy" /\ At(run, "rmCopies", "exited") /\ Kind = "rmCopies"
      /\ Kind' = "rmCopies" /\ ~dryRun
  BY <1>2, <1>5, OwnStepKeeps DEF DockerInv, PlaceInv, Sending, Kind, At
<1>7. PlaceInv'
  <2>1. pc' \in {"copy", "err"}
    BY <1>1
  <2>2. QED
    BY <1>2, <1>6, <2>1 DEF PlaceInv, Sending, Writing, Kind, At, Live, Succeeded
<1>8. pc' = "copy" /\ ~raced => \A t \in Copyable(edition) \ tocopy' : copies'[t] = run
  BY <1>1, <1>2, <1>3, <1>6 DEF DockerInv, SentInv
<1>9. SentInv'
  BY <1>1, <1>2, <1>6, <1>8
     DEF DockerInv, SentInv, Sending, Writing, Kind, At, Succeeded, ComposeContent, Kept, Copyable,
         Published, AgentLabel
<1>10. QED
  BY <1>2, <1>5, <1>6, <1>7, <1>9, OwnStepKeeps DEF DockerInv, OwnStep

\* All paths have been copied.
LEMMA CopiesSentInv ==
  ASSUME DockerInv, CopiesSent
  PROVE  DockerInv'
<1>1. /\ UNCHANGED <<run, cmd, edition, dryRun, interrupted, raced, session, silent, dir, file, copies,
                     container, agent, proc, tocopy>>
      /\ unclean' = (unclean \/ (cmd = "destroy" /\ pc' = "err"))
      /\ NoFault /\ pc = "copy" /\ pc' = "up" /\ tocopy = {}
  BY DEF CopiesSent, Goto, runVars, hostVars
<1>2. OwnStep
  BY <1>1 DEF OwnStep, DockerInv, TypeOK, HostType, Sending, Writing
<1>3. /\ run \in Run /\ cmd = "deploy" /\ At(run, "rmCopies", "exited") /\ Kind = "rmCopies"
      /\ Kind' = "rmCopies" /\ ~dryRun
  BY <1>1, <1>2, OwnStepKeeps DEF DockerInv, PlaceInv, Sending, Kind, At
<1>4. PlaceInv'
  BY <1>1, <1>3 DEF PlaceInv, Sending, Writing, Kind, At, Live, Succeeded
<1>5. SentInv'
  BY <1>1, <1>3 DEF DockerInv, SentInv, Sending, Writing, Kind, At, Succeeded, ComposeContent, Kept,
                    Copyable, Published, AgentLabel
<1>6. QED
  BY <1>1, <1>2, <1>3, <1>4, <1>5, OwnStepKeeps DEF DockerInv, OwnStep

\* The invariant speaks of nothing an interrupt, or no step at all, changes.
LEMMA UntouchedInv ==
  ASSUME DockerInv, TypeOK',
         UNCHANGED <<pc, run, cmd, edition, dryRun, tocopy, dir, file, copies, container, agent, proc,
                     raced, unclean>>
  PROVE  DockerInv'
<1>1. HostType'
  BY DEF DockerInv, HostType
<1>2. AloneInv'
  BY DEF DockerInv, AloneInv, Live
<1>3. PlaceInv'
  BY DEF DockerInv, PlaceInv, Kind, Live, At, Succeeded, Published, Copyable
<1>4. SentInv'
  BY DEF DockerInv, SentInv, Kind, At, Succeeded, Published, Copyable, ComposeContent, Kept, AgentLabel
<1>5. UpInv'
  BY DEF DockerInv, UpInv, Kind, At, Succeeded, Published, Copyable, ComposeContent, Kept, AgentLabel
<1>6. DownInv'
  BY DEF DockerInv, DownInv, At, Succeeded, NothingRuns
<1>7. QED
  BY <1>1, <1>2, <1>3, <1>4, <1>5, <1>6 DEF DockerInv

\* The developer interrupts the run; the host falls silent or answers again; the sftp
\* session is opened.
LEMMA LinkInv ==
  ASSUME DockerInv, Interrupt \/ FallSilent \/ AnswerAgain \/ OpenSession
  PROVE  DockerInv'
<1>1. /\ UNCHANGED <<pc, run, cmd, edition, dryRun, tocopy, dir, file, copies, container, agent, proc,
                     raced, unclean>>
      /\ interrupted' \in {interrupted, TRUE} /\ session' \in {session, TRUE}
      /\ silent' \in {silent, TRUE, FALSE}
      /\ Fault \/ NoFault
  BY DEF Interrupt, FallSilent, AnswerAgain, OpenSession, Unbroken, runVars, hostVars
<1>2. faults' \in 0..MaxFaults
  BY <1>1, BoundsAssumption DEF Fault, NoFault, DockerInv, TypeOK
<1>3. interrupted' \in BOOLEAN /\ session' \in BOOLEAN /\ silent' \in BOOLEAN
  BY <1>1, Zenon DEF DockerInv, TypeOK
<1>4. TypeOK'
  <2>1. ~dir' => file' = NoFiles /\ copies' = NoCopies
    BY <1>1 DEF DockerInv, TypeOK
  <2>2. QED
    BY <1>1, <1>2, <1>3, <2>1, Zenon DEF DockerInv, TypeOK
<1>5. QED
  BY <1>1, <1>4, UntouchedInv

\* Every step keeps the invariant.
LEMMA NextInv == DockerInv /\ [Next]_vars => DockerInv'
<1> SUFFICES ASSUME DockerInv, [Next]_vars PROVE DockerInv'
  OBVIOUS
<1>1. CASE Step
  BY <1>1, LinkInv, BuildImagesInv, WriteComposeInv, RemoveNgrokInv, WriteDotEnvInv, WriteNgrokInv,
     ClearCopiesInv, CopyPathsInv, CopiesSentInv, ComposeUpInv, DestroyInv DEF Step
<1>2. CASE NewRun
  BY <1>2, StartRunInv DEF NewRun
<1>3. CASE Interrupt \/ FallSilent \/ AnswerAgain
  BY <1>3, LinkInv
<1>4. CASE \E r \in Run : Host(r)
  BY <1>4, HostInv
<1>5. CASE UNCHANGED vars
  <2>1. UNCHANGED <<pc, run, cmd, edition, dryRun, tocopy, dir, file, copies, container, agent, proc,
                    raced, unclean, interrupted, session, silent, faults>>
    BY <1>5 DEF vars, runVars, hostVars
  <2>2. ~dir' => file' = NoFiles /\ copies' = NoCopies
    BY <2>1 DEF DockerInv, TypeOK
  <2>3. TypeOK'
    <3>1. /\ DOMAIN file' = {"compose", "dotEnv", "ngrok"}
          /\ file'.compose \in {ComposeContent(e) : e \in Editions} \union {Absent, Partial}
          /\ copies' \in [Service -> 0..MaxRuns \union {Partial}] /\ faults' \in 0..MaxFaults
      BY <2>1 DEF DockerInv, TypeOK
    <3>2. UNCHANGED <<pc, run, cmd, edition, dryRun, tocopy, raced, unclean, interrupted, session,
                      silent, dir>>
      BY <2>1
    <3>3. QED
      BY <2>2, <3>1, <3>2, Zenon DEF DockerInv, TypeOK
  <2>4. QED
    BY <2>1, <2>3, UntouchedInv
<1>6. QED
  BY <1>1, <1>2, <1>3, <1>4, <1>5 DEF Next, Finished

\* The invariant holds in every behaviour.
LEMMA Invariance == Spec => []DockerInv
  BY InitInv, NextInv, PTL DEF Spec
-----------------------------------------------------------------------------
(* Every variable stays in its type: compose.yml is never anything but a    *)
(* whole rendered project, a part of one, or not there.                     *)
THEOREM DockerTypeCorrect == Spec => []TypeOK
  BY Invariance, PTL DEF DockerInv

(* Deploy's nil error (docker.go): unless it raced an abandoned command,    *)
(* the host runs the project's services as this run defined them, and an    *)
(* agent exactly when something is published, with this run's published set *)
(* and token.                                                               *)
THEOREM DeployIsDelivered == Spec => []DeployDelivers
<1>1. ASSUME DockerInv PROVE DeployDelivers
  <2> SUFFICES ASSUME pc = "ok", cmd = "deploy", ~dryRun, ~raced
               PROVE  /\ \A s \in Service :
                            IF s \in Kept(edition)
                            THEN /\ container[s] # Absent
                                 /\ container[s].spec = ComposeContent(edition).services[s]
                            ELSE container[s] = Absent
                      /\ IF Published(edition) = {} THEN agent = Absent
                         ELSE /\ agent # Absent
                              /\ agent.config = Published(edition) /\ agent.token = edition.token
    BY DEF DeployDelivers
  <2>1. run \in Run /\ Succeeded("up") /\ Kind = "up"
    BY <1>1 DEF DockerInv, AloneInv, PlaceInv, Succeeded, At, Kind
  <2>2. QED
    BY <1>1, <2>1 DEF DockerInv, UpInv
<1>2. QED
  BY <1>1, Invariance, PTL

(* The auth token does not outlive what it was sent for, whatever commands  *)
(* of earlier runs are still going on, but where the destroy's shell or its *)
(* rm -rf failed.                                                           *)
THEOREM TokenIsRemoved == Spec => []CredentialsRemoved
<1>1. ASSUME DockerInv PROVE CredentialsRemoved
  <2>1. pc = "ok" => run \in Run
    BY <1>1 DEF DockerInv, AloneInv
  <2>2. (Ended /\ run > 0) => run \in Run
    BY <1>1 DEF DockerInv, AloneInv, TypeOK, Run
  <2>3. QED
    BY <1>1, <2>1, <2>2 DEF DockerInv, SentInv, DownInv, CredentialsRemoved
<1>2. QED
  BY <1>1, Invariance, PTL

(* Destroy's nil error: unless it raced, or an earlier destroy had reported *)
(* a failure, nothing of the project runs any more.                         *)
THEOREM DestroyIsDelivered == Spec => []DestroyDelivers
<1>1. ASSUME DockerInv PROVE DestroyDelivers
  <2> SUFFICES ASSUME pc = "ok", cmd = "destroy", ~dryRun, ~raced, ~unclean
               PROVE  NothingRuns
    BY DEF DestroyDelivers, NothingRuns
  <2>1. run \in Run /\ Succeeded("down")
    BY <1>1 DEF DockerInv, AloneInv, PlaceInv
  <2>2. QED
    BY <1>1, <2>1 DEF DockerInv, DownInv
<1>2. QED
  BY <1>1, Invariance, PTL

(* No container that mounts copied paths is started before all of this     *)
(* run's were sent, nor on another run's: unless runs raced.                *)
THEOREM MountsAreWhole == Spec => MountsWholeCopies
<1> DEFINE Started(s) == container'[s] \notin {container[s], Absent} /\ container'[s].spec.mounts
           A == ~raced =>
                  \A s \in Service : Started(s) =>
                     container'[s].mount = run /\ \A t \in Copyable(edition) : copies[t] = run
<1>1. ASSUME DockerInv, [Next]_vars PROVE [A]_vars
  <2> SUFFICES ASSUME Next, ~raced, NEW s \in Service, Started(s)
               PROVE  container'[s].mount = run /\ \A t \in Copyable(edition) : copies[t] = run
    BY <1>1
  <2>1. PICK r \in Run : UpServices(r)
    <3>1. ASSUME NEW r \in Run, Host(r), ~UpServices(r) PROVE FALSE
      BY <3>1 DEF Host, RemoveNgrokFiles, RemoveCopies, UpReads, UpAgent, DownFindsNothing, ComposeDown,
                  DownRemovesDirectory, DownLeavesFiles, CommandFails, hostVars
    <3>2. ~Step
      BY DEF Step, BuildImages, OpenSession, WriteCompose, RemoveNgrok, WriteDotEnv, WriteNgrok,
             ClearCopies, CopyPaths, CopiesSent, ComposeUp, Destroy, CreateFile, RunCommand, hostVars
    <3>3. QED
      BY <3>1, <3>2 DEF Next, NewRun, StartRun, Interrupt, FallSilent, AnswerAgain, Finished, vars,
                        hostVars
  <2>2. QED
    BY <1>1, <2>1, UpServicesStart
<1>2. QED
  BY <1>1, Invariance, PTL DEF Spec, MountsWholeCopies

(* A dry run reaches the host with nothing.                                 *)
THEOREM DryRunsSendNothing == Spec => DryRunSendsNothing
<1> DEFINE A == (dryRun /\ pc' # pc) => UNCHANGED <<hostVars, proc>>
<1>1. ASSUME DockerInv, [Next]_vars PROVE [A]_vars
  <2> SUFFICES ASSUME Next, dryRun, pc' # pc PROVE UNCHANGED <<hostVars, proc>>
    BY <1>1
  <2>1. pc \in {"idle", "build", "ok", "err"}
    BY <1>1 DEF DockerInv, PlaceInv
  <2>2. BuildImages \/ NewRun
    <3>1. CASE Step
      BY <2>1, <3>1 DEF Step, WriteCompose, RemoveNgrok, WriteDotEnv, WriteNgrok, ClearCopies,
                        OpenSession, CopyPaths, CopiesSent, ComposeUp, Destroy, RunCommand
    <3>2. ~\E r \in Run : Host(r)
      BY DEF Host, RemoveNgrokFiles, RemoveCopies, UpReads, UpServices, UpAgent, DownFindsNothing,
             ComposeDown, DownRemovesDirectory, DownLeavesFiles, CommandFails, HostStep
    <3>3. QED
      BY <3>1, <3>2 DEF Next, Interrupt, FallSilent, AnswerAgain, Finished, vars
  <2>3. QED
    BY <2>2 DEF BuildImages, NewRun, StartRun
<1>2. QED
  BY <1>1, Invariance, PTL DEF Spec, DryRunSendsNothing
=============================================================================
