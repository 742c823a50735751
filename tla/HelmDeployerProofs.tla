------------------------- MODULE HelmDeployerProofs -------------------------
(***************************************************************************)
(* Proofs about HelmDeployer, for every set of projects, every limit of the *)
(* walk and any number of runs and faults: what a run that reports success  *)
(* has done to the cluster, that a failure has a cause, in which order the  *)
(* releases and the namespace go, and that a dry run leaves all as it was.  *)
(***************************************************************************)
EXTENDS HelmDeployer, DependencyWalkProofs

Underway == {"installing", "upgrading", "uninstalling"}
BeforeWalk == {"build", "lookupNamespace", "createNamespace", "graph"}
AfterWalk == {"ngrok", "removeNamespace", "ok"}

\* Where the run is and how far its walk has come: only a walk that succeeded is
\* followed by anything but the end. A killed run's walk is gone with its process.
PlaceInv ==
    /\ pc # "killed" => WalkInv
    /\ pc # "idle" => run > 0
    /\ pc \in BeforeWalk \union {"idle", "killed"} => phase = "idle"
    /\ pc = "walk" => phase # "idle"
    /\ pc \in AfterWalk => WalkSucceeded
    /\ pc \in AfterWalk \union {"walk"} =>
          /\ graph = project.deps
          /\ direction = IF cmd = "deploy" THEN "forward" ELSE "reverse"
    /\ phase = "rejected" => HasCycle(graph)
    /\ pc \in {"build", "lookupNamespace", "createNamespace"} => cmd = "deploy"
    /\ pc = "removeNamespace" => cmd = "destroy"
    /\ pc = "createNamespace" => ~dryRun

\* A Helm operation is under way on n only inside the visit of n, or on ngrok's
\* release after the walk, and it is of the kind this run does to n.
StageInv ==
    \A n \in Release :
        /\ stage[n] # "none" =>
              ~dryRun /\ (Visiting(n) \/ (pc = "ngrok" /\ n = NgrokRelease))
        /\ stage[n] \in {"install", "upgrade", "installing", "upgrading"} =>
              Deploys(n) /\ ~Skipped(n)
        /\ stage[n] = "uninstalling" => ~Deploys(n)
        /\ stage[n] \in {"installing", "upgrading"} => namespace = "active"

\* A release has this run's values only if this run's walk, or its last step, put
\* them there, and then the namespace stays until another run gives it up.
ValuesInv ==
    /\ \A n \in Release :
          /\ release[n].run <= run
          /\ (Exists(n) /\ release[n].run = run) =>
                cmd = "deploy" /\ namespace = "active" /\ pc \notin BeforeWalk
    /\ pc \in AfterWalk \union {"walk"} =>
          \A s \in Node : (Exists(s) /\ release[s].run = run) =>
              \/ stage[s] = "installing"
              \/ status[s] \in {"visited", "returned"}
              \/ s = NgrokRelease /\ pc # "walk"

\* What a visit that did not fail has left: its release is in place, or gone. Only
\* the agent's own release may change again before the run ends.
VisitedInv ==
    (pc \in AfterWalk \union {"walk"} /\ ~dryRun) =>
        \A s \in Node \ failed : status[s] \in {"visited", "returned"} =>
            IF cmd = "deploy"
            THEN s \in project.skip \/ Current(s) \/ (s = NgrokRelease /\ pc # "walk")
            ELSE ~Exists(s)

\* What the last step of Deploy, or the last but one of Destroy, has made of the agent.
AgentInv ==
    /\ (pc = "ok" /\ ~dryRun) =>
          IF cmd = "deploy" /\ project.publishes THEN Current(NgrokRelease)
                                                 ELSE ~Exists(NgrokRelease)
    /\ (pc = "removeNamespace" /\ ~dryRun) => ~Exists(NgrokRelease)
    /\ (pc = "ok" /\ cmd = "destroy" /\ ~dryRun /\ project.removeNamespace)
          => namespace # "active"

Cause == faulted \/ interrupted \/ (cmd = "deploy" /\ ~clean)

\* Nothing goes wrong by itself: on a namespace that no run has left half done, an
\* operation finds what the step before it has seen.
CauseInv ==
    /\ failed # {} => Cause
    /\ FailureHasCause
    /\ cmd = "deploy" /\ clean => namespace # "terminating"
    /\ cmd = "deploy" /\ clean /\ ~dryRun /\ pc \in {"graph", "walk", "ngrok"}
          => namespace = "active"
    /\ pc = "createNamespace" => namespace = "absent" \/ faulted
    /\ \A n \in Release :
          /\ stage[n] = "install" => ~Exists(n) \/ faulted
          /\ stage[n] = "upgrade" /\ clean => Exists(n)
    /\ cmd = "deploy" /\ clean /\ ~Ended =>
          \A n \in DOMAIN project.deps \union {NgrokRelease} : Stuck(n) => stage[n] \in Underway

HelmInv ==
    /\ HelmTypeOK /\ PlaceInv /\ StageInv /\ ValuesInv /\ VisitedInv /\ AgentInv /\ CauseInv

-----------------------------------------------------------------------------
\* Without a service there is nothing the walk's invariant could fail for.
LEMMA LeaveWalkInv ==
  ASSUME LeaveWalk, interrupted' \in BOOLEAN, cancelled' \in BOOLEAN
  PROVE  TypeOK' /\ ((cancelled' => interrupted') => WalkInv')
BY FS_EmptySet DEF LeaveWalk, WalkInv, TypeOK, Node, Dispatcher, StatusKind

\* The first run finds no release and no walk.
LEMMA HelmInitInv == Init => HelmInv
<1> SUFFICES ASSUME Init PROVE HelmInv
  OBVIOUS
<1>1. WalkInv
  BY InitInv DEF Init
<1>2. HelmTypeOK
  <2>1. TypeOK
    BY <1>1 DEF WalkInv
  <2>2. run \in 0..MaxRuns /\ faults \in 0..MaxFaults
    BY HelmBoundsAssumption DEF Init
  <2>3. dryRun \in BOOLEAN /\ faulted \in BOOLEAN /\ clean \in BOOLEAN
    BY DEF Init
  <2>4. release \in [Release -> [status : {"none", "pending", "deployed", "failed",
                                         "uninstalling"}, run : 0..MaxRuns]]
    BY HelmBoundsAssumption DEF Init, NoRelease
  <2>5. stage \in [Release -> {"none", "install", "upgrade", "installing", "upgrading",
                              "uninstalling"}]
    BY DEF Init
  <2>6. QED
    BY <2>1, <2>2, <2>3, <2>4, <2>5 DEF Init, HelmTypeOK
<1>3. PlaceInv
  BY <1>1 DEF Init, WalkInit, PlaceInv, BeforeWalk, AfterWalk
<1>4. StageInv
  BY DEF Init, StageInv
<1>5. ValuesInv /\ VisitedInv /\ AgentInv
  BY DEF Init, WalkInit, ValuesInv, VisitedInv, AgentInv, Exists, NoRelease, AfterWalk
<1>6. CauseInv
  BY DEF Init, WalkInit, CauseInv, FailureHasCause, Ended
<1>7. QED
  BY <1>2, <1>3, <1>4, <1>5, <1>6 DEF HelmInv

\* A run starts with the walk's variables cleared and a number no release has.
LEMMA StartRunInv ==
  ASSUME HelmInv, NEW c \in {"deploy", "destroy"}, NEW p \in Projects, NEW dry \in BOOLEAN,
         StartRun(c, p, dry)
  PROVE  HelmInv'
<1>1. TypeOK' /\ WalkInv'
  <2>1. interrupted' = FALSE /\ cancelled' = FALSE /\ LeaveWalk
    BY DEF StartRun
  <2>2. QED
    BY <2>1, LeaveWalkInv
<1>2. HelmTypeOK'
  <2>1. clean' \in BOOLEAN
    BY Zenon DEF StartRun
  <2>2. run' \in 0..MaxRuns /\ faults' \in 0..MaxFaults
    BY HelmBoundsAssumption DEF HelmInv, HelmTypeOK, StartRun
  <2>3. faulted' \in BOOLEAN
    BY DEF StartRun
  <2>4. QED
    BY <1>1, <2>1, <2>2, <2>3 DEF HelmInv, HelmTypeOK, StartRun, clusterVars
<1>3. PlaceInv'
  BY <1>1 DEF HelmInv, HelmTypeOK, PlaceInv, StartRun, LeaveWalk, BeforeWalk, AfterWalk
<1>4. \A n \in Release : stage[n] = "none"
  BY DEF HelmInv, StageInv, StartRun, Ended, Visiting
<1>5. StageInv'
  BY <1>4 DEF StageInv, StartRun
<1>6. ValuesInv'
  BY DEF HelmInv, HelmTypeOK, ValuesInv, StartRun, Exists, clusterVars, AfterWalk
<1>7. VisitedInv' /\ AgentInv'
  BY DEF VisitedInv, AgentInv, StartRun, AfterWalk
<1>8. CauseInv'
  BY <1>4 DEF HelmInv, CauseInv, FailureHasCause, StartRun, LeaveWalk, Stuck, clusterVars, Ended
<1>9. QED
  BY <1>2, <1>3, <1>5, <1>6, <1>7, <1>8 DEF HelmInv

\* A step of the run that is none of the walk's keeps what holds of the walk.
LEMMA WalkKept ==
  ASSUME UNCHANGED walkVars
  PROVE  (TypeOK => TypeOK') /\ (WalkInv => WalkInv')
<1>1. WalkInv => WalkInv'
  BY QuietInv
<1>2. TypeOK => TypeOK'
  BY Zenon DEF TypeOK, walkVars, Node
<1>3. QED
  BY <1>1, <1>2

\* Outside the walk and the agent's step no operation is under way.
LEMMA NothingUnderway ==
  ASSUME HelmInv, pc \notin {"walk", "ngrok"}
  PROVE  \A n \in Release : stage[n] = "none"
BY DEF HelmInv, StageInv, Visiting

\* Charging a fault stays within the bound; either way the types are kept.
LEMMA FaultTypes ==
  ASSUME HelmTypeOK, Fault \/ NoFault
  PROVE  faults' \in 0..MaxFaults /\ faulted' \in BOOLEAN /\ (faulted => faulted')
<1>1. faults' \in 0..MaxFaults
  BY HelmBoundsAssumption DEF HelmTypeOK, Fault, NoFault
<1>2. faulted' \in BOOLEAN /\ (faulted => faulted')
  BY Zenon DEF HelmTypeOK, Fault, NoFault
<1>3. QED
  BY <1>1, <1>2

\* The steps before the walk touch no release; the namespace may come into being.
LEMMA BuildImagesInv ==
  ASSUME HelmInv, BuildImages
  PROVE  HelmInv'
<1>1. /\ UNCHANGED <<walkVars, runVars, stage, clusterVars>>
      /\ pc = "build" /\ pc' \in {"lookupNamespace", "err"}
      /\ Fault \/ NoFault
      /\ pc' = "err" => faulted' \/ interrupted
  BY DEF BuildImages, Goto, Fault, NoFault
<1>2. UNCHANGED <<run, cmd, project, dryRun, clean, namespace, release>> /\ UNCHANGED walkVars
  BY <1>1 DEF runVars, clusterVars
<1>3. HelmTypeOK'
  BY <1>1, <1>2, WalkKept, FaultTypes, Zenon DEF HelmInv, HelmTypeOK
<1>4. PlaceInv'
  BY <1>1, <1>2, WalkKept DEF HelmInv, PlaceInv, walkVars, BeforeWalk, AfterWalk
<1>5. StageInv'
  BY <1>1, <1>2, NothingUnderway DEF StageInv
<1>6. ValuesInv'
  BY <1>1, <1>2 DEF HelmInv, ValuesInv, Exists, AfterWalk, BeforeWalk
<1>7. VisitedInv' /\ AgentInv'
  BY <1>1 DEF VisitedInv, AgentInv, AfterWalk
<1>8. CauseInv'
  BY <1>1, <1>2, NothingUnderway, FaultTypes
     DEF HelmInv, CauseInv, Cause, FailureHasCause, Stuck, Ended, walkVars
<1>9. QED
  BY <1>3, <1>4, <1>5, <1>6, <1>7, <1>8 DEF HelmInv

\* The namespace is looked up.
LEMMA LookupNamespaceInv ==
  ASSUME HelmInv, LookupNamespace
  PROVE  HelmInv'
<1>1. /\ UNCHANGED <<walkVars, runVars, stage, clusterVars>>
      /\ pc = "lookupNamespace" /\ pc' \in {"createNamespace", "graph", "err"}
      /\ pc' = "createNamespace" => ~dryRun /\ namespace = "absent"
      /\ pc' = "graph" => dryRun \/ namespace # "absent"
      /\ Fault \/ NoFault
      /\ pc' = "err" => faulted' \/ interrupted
  BY DEF LookupNamespace, Goto, Fault, NoFault
<1>2. UNCHANGED <<run, cmd, project, dryRun, clean, namespace, release>> /\ UNCHANGED walkVars
  BY <1>1 DEF runVars, clusterVars
<1>3. HelmTypeOK'
  BY <1>1, <1>2, WalkKept, FaultTypes, Zenon DEF HelmInv, HelmTypeOK
<1>4. PlaceInv'
  BY <1>1, <1>2, WalkKept DEF HelmInv, PlaceInv, walkVars, BeforeWalk, AfterWalk
<1>5. StageInv'
  BY <1>1, <1>2, NothingUnderway DEF StageInv
<1>6. ValuesInv'
  BY <1>1, <1>2 DEF HelmInv, ValuesInv, Exists, AfterWalk, BeforeWalk
<1>7. VisitedInv' /\ AgentInv'
  BY <1>1 DEF VisitedInv, AgentInv, AfterWalk
<1>8. CauseInv'
  BY <1>1, <1>2, NothingUnderway, FaultTypes
     DEF HelmInv, HelmTypeOK, CauseInv, Cause, FailureHasCause, Stuck, Ended, walkVars
<1>9. QED
  BY <1>3, <1>4, <1>5, <1>6, <1>7, <1>8 DEF HelmInv

\* The namespace is created.
LEMMA CreateNamespaceInv ==
  ASSUME HelmInv, CreateNamespace
  PROVE  HelmInv'
<1>1. /\ UNCHANGED <<walkVars, runVars, stage, release>>
      /\ pc = "createNamespace" /\ pc' \in {"graph", "err"}
      /\ pc' = "graph" => namespace' = "active"
      /\ namespace' \in {namespace, "active"}
      /\ Fault \/ NoFault
      /\ pc' = "err" => faulted' \/ interrupted \/ namespace # "absent"
  BY DEF CreateNamespace, Goto, Fault, NoFault
<1>2. UNCHANGED <<run, cmd, project, dryRun, clean, release>> /\ UNCHANGED walkVars
  BY <1>1 DEF runVars
<1>3. HelmTypeOK'
  BY <1>1, <1>2, WalkKept, FaultTypes, Zenon DEF HelmInv, HelmTypeOK
<1>4. PlaceInv'
  BY <1>1, <1>2, WalkKept DEF HelmInv, PlaceInv, walkVars, BeforeWalk, AfterWalk
<1>5. StageInv'
  BY <1>1, <1>2, NothingUnderway DEF StageInv
<1>6. ValuesInv'
  BY <1>1, <1>2 DEF HelmInv, ValuesInv, Exists, AfterWalk, BeforeWalk
<1>7. VisitedInv' /\ AgentInv'
  BY <1>1 DEF VisitedInv, AgentInv, AfterWalk
<1>8. CauseInv'
  BY <1>1, <1>2, NothingUnderway, FaultTypes
     DEF HelmInv, HelmTypeOK, CauseInv, Cause, FailureHasCause, Stuck, Ended, walkVars
<1>9. QED
  BY <1>3, <1>4, <1>5, <1>6, <1>7, <1>8 DEF HelmInv

\* A service of the project has a release.
LEMMA ServicesAreReleases ==
  ASSUME HelmTypeOK
  PROVE  DOMAIN project.deps \subseteq Release
BY DEF HelmTypeOK, Release, Service

\* The walk begins in the project and the direction of the run, on releases that have
\* nothing of it yet.
LEMMA WalkBeginsInv ==
  ASSUME HelmInv, Walk
  PROVE  HelmInv'
<1> DEFINE dir == IF cmd = "deploy" THEN "forward" ELSE "reverse"
<1>1. /\ BeginWalk(project.deps, dir)
      /\ pc = "graph" /\ pc' = "walk" /\ NoFault
      /\ UNCHANGED <<run, cmd, project, dryRun, clean, stage, namespace, release>>
  BY DEF Walk, runVars, clusterVars
<1>2. project.deps \in Graphs /\ dir \in {"forward", "reverse"} /\ interrupted \in BOOLEAN
  BY ProjectsAssumption, Zenon DEF HelmInv, HelmTypeOK, TypeOK
<1>3. WalkInv'
  BY <1>1, <1>2, BeginWalkInv
<1>4. HelmTypeOK'
  BY <1>1, <1>3, FaultTypes, Zenon DEF HelmInv, HelmTypeOK, WalkInv
<1>5. PlaceInv'
  BY <1>1, <1>3 DEF HelmInv, PlaceInv, BeginWalk, BeforeWalk, AfterWalk
<1>6. StageInv'
  BY <1>1, NothingUnderway DEF StageInv
<1>7. ValuesInv'
  BY <1>1, ServicesAreReleases DEF HelmInv, ValuesInv, Exists, BeforeWalk, BeginWalk, Node
<1>8. VisitedInv' /\ AgentInv'
  BY <1>1 DEF VisitedInv, AgentInv, BeginWalk, Node
<1>9. CauseInv'
  BY <1>1, NothingUnderway
     DEF HelmInv, CauseInv, Cause, FailureHasCause, Stuck, Ended, BeginWalk, NoFault
<1>10. QED
  BY <1>4, <1>5, <1>6, <1>7, <1>8, <1>9 DEF HelmInv

\* The walk's own steps move no service into or out of the visits whose operations are
\* under way, and let none count as visited that was not.
LEMMA WalkStepShape ==
  ASSUME WalkInv, WalkStep
  PROVE  /\ WalkInv'
         /\ UNCHANGED <<graph, direction, failed, interrupted>>
         /\ phase = "walking" /\ phase' \in {"walking", "returned"}
         /\ \A s \in Node : status[s] = "running" => status'[s] = "running" /\ phase' = phase
         /\ \A s \in Node : status'[s] \in {"visited", "returned"}
                              <=> status[s] \in {"visited", "returned"}
<1>1. WalkInv'
  BY OfferInv, StartInv, ReturnInv, ReceiveInv, QuietInv DEF WalkStep
<1>2. TypeOK
  BY DEF WalkInv
<1>3. ASSUME NEW d \in Dispatcher, Start(d)
      PROVE  /\ UNCHANGED <<graph, direction, failed, interrupted, phase>> /\ phase = "walking"
             /\ \E t \in Node : /\ status[t] = "entered"
                              /\ status' = [status EXCEPT ![t] = "running"]
  BY <1>3 DEF Start, WalkInv, TypeOK
<1>4. ASSUME NEW d \in Dispatcher, NEW t \in todo[d], Offer(d, t)
      PROVE  /\ UNCHANGED <<graph, direction, failed, interrupted, phase>> /\ phase = "walking"
             /\ \/ status' = status
                \/ /\ t \in Node /\ status[t] = "unvisited"
                   /\ status' = [status EXCEPT ![t] = "entered"]
  BY <1>2, <1>4 DEF Offer, TypeOK
<1>5. ASSUME NEW t \in Node, Return(t)
      PROVE  /\ UNCHANGED <<graph, direction, failed, interrupted, phase>> /\ phase = "walking"
             /\ status[t] = "visited" /\ status' = [status EXCEPT ![t] = "returned"]
  BY <1>5 DEF Return
<1>6. ASSUME \/ \E t \in Node : Receive(t)
             \/ StopReading \/ EndWalk
      PROVE  /\ UNCHANGED <<graph, direction, failed, interrupted, status>>
             /\ phase = "walking" /\ phase' \in {"walking", "returned"}
             /\ phase' # phase => \A s \in Node : status[s] # "running"
  BY <1>6 DEF Receive, StopReading, EndWalk
<1>7. status \in [Node -> StatusKind]
  BY <1>2 DEF TypeOK
<1>8. CASE \E d \in Dispatcher : Start(d)
  BY <1>1, <1>3, <1>7, <1>8
<1>9. CASE \E d \in Dispatcher : \E t \in todo[d] : Offer(d, t)
  BY <1>1, <1>4, <1>7, <1>9
<1>10. CASE \E t \in Node : Return(t)
  BY <1>1, <1>5, <1>7, <1>10
<1>11. CASE (\E t \in Node : Receive(t)) \/ StopReading \/ EndWalk
  BY <1>1, <1>6, <1>7, <1>11
<1>12. QED
  BY <1>8, <1>9, <1>10, <1>11 DEF WalkStep

\* While the walk goes on by itself no release changes, and no visit ends.
LEMMA StepWalkInv ==
  ASSUME HelmInv, StepWalk
  PROVE  HelmInv'
<1>1. /\ WalkStep /\ pc = "walk" /\ pc' = "walk" /\ NoFault
      /\ UNCHANGED <<run, cmd, project, dryRun, clean, stage, namespace, release>>
  BY DEF StepWalk, runVars, clusterVars
<1>2. WalkInv
  BY <1>1 DEF HelmInv, PlaceInv
<1>3. /\ WalkInv'
      /\ UNCHANGED <<graph, direction, failed, interrupted>>
      /\ phase = "walking" /\ phase' \in {"walking", "returned"}
      /\ \A s \in Node : status[s] = "running" => status'[s] = "running" /\ phase' = phase
      /\ \A s \in Node : status'[s] \in {"visited", "returned"}
                           <=> status[s] \in {"visited", "returned"}
  BY <1>1, <1>2, WalkStepShape
<1>4. Node' = Node
  BY <1>3 DEF Node
<1>5. HelmTypeOK'
  BY <1>1, <1>3, FaultTypes, Zenon DEF HelmInv, HelmTypeOK, WalkInv
<1>6. PlaceInv'
  BY <1>1, <1>3 DEF HelmInv, PlaceInv, BeforeWalk, AfterWalk
<1>7. StageInv'
  BY <1>1, <1>3, <1>4 DEF HelmInv, StageInv, Visiting, Deploys, Skipped
<1>8. ValuesInv'
  BY <1>1, <1>3, <1>4 DEF HelmInv, ValuesInv, Exists, BeforeWalk
<1>9. VisitedInv' /\ AgentInv'
  BY <1>1, <1>3, <1>4 DEF HelmInv, VisitedInv, AgentInv, Current, Exists
<1>10. CauseInv'
  BY <1>1, <1>3 DEF HelmInv, CauseInv, Cause, FailureHasCause, Stuck, Exists, Ended, NoFault
<1>11. QED
  BY <1>5, <1>6, <1>7, <1>8, <1>9, <1>10 DEF HelmInv

\* A walk that returns has left no operation under way; one that did not succeed has a
\* cause, or was refused for a cycle.
LEMMA WalkReturnedInv ==
  ASSUME HelmInv, WalkReturned
  PROVE  HelmInv'
<1>1. /\ pc = "walk" /\ phase \in {"rejected", "returned"} /\ NoFault
      /\ pc' = IF WalkSucceeded THEN "ngrok" ELSE "err"
      /\ UNCHANGED walkVars
      /\ UNCHANGED <<run, cmd, project, dryRun, clean, stage, namespace, release>>
  BY DEF WalkReturned, Goto, runVars, clusterVars
<1>2. UNCHANGED <<phase, graph, direction, status, failed, cancelled, interrupted>> /\ Node' = Node
  BY <1>1 DEF walkVars, Node
<1>3. \A n \in Release : stage[n] = "none"
  BY <1>1 DEF HelmInv, StageInv, Visiting
<1>4. HelmTypeOK'
  BY <1>1, WalkKept, FaultTypes, Zenon DEF HelmInv, HelmTypeOK
<1>5. PlaceInv'
  BY <1>1, <1>2, WalkKept DEF HelmInv, PlaceInv, BeforeWalk, AfterWalk, WalkSucceeded
<1>6. StageInv'
  BY <1>1, <1>3 DEF StageInv
<1>7. ValuesInv'
  BY <1>1, <1>2, <1>3 DEF HelmInv, ValuesInv, Exists, BeforeWalk, AfterWalk
<1>8. VisitedInv' /\ AgentInv'
  BY <1>1, <1>2 DEF HelmInv, VisitedInv, AgentInv, Current, Exists, AfterWalk
<1>9. CauseInv'
  <2>1. ~WalkSucceeded => Cause \/ HasCycle(project.deps)
    BY <1>1 DEF HelmInv, PlaceInv, CauseInv, WalkSucceeded
  <2>2. QED
    BY <1>1, <1>2, <1>3, <2>1
       DEF HelmInv, CauseInv, Cause, FailureHasCause, Stuck, Ended, NoFault
<1>10. QED
  BY <1>4, <1>5, <1>6, <1>7, <1>8, <1>9 DEF HelmInv
-----------------------------------------------------------------------------
(* The Helm operations. Each either returns to its caller (Complete) or     *)
(* goes on (Proceed); what that does to the walk and to the run's place is  *)
(* the same for all of them.                                                *)

\* The operation on n is over: its visit ends, or the run goes on after the agent's step.
Returns(n, ok) ==
    /\ UNCHANGED <<run, cmd, project, dryRun, clean, interrupted, graph>>
    /\ stage' = [stage EXCEPT ![n] = "none"]
    /\ \/ /\ pc = "walk" /\ pc' = "walk" /\ n \in Node /\ status[n] = "running"
          /\ status' = [status EXCEPT ![n] = "visited"]
          /\ failed' = IF ok THEN failed ELSE failed \union {n}
       \/ /\ pc = "ngrok" /\ n = NgrokRelease /\ pc' = AfterNgrok(ok)
          /\ UNCHANGED <<status, failed>>

GoesOn(n, st) ==
    /\ UNCHANGED <<pc, run, cmd, project, dryRun, clean, interrupted, graph, status, failed, phase>>
    /\ stage' = [stage EXCEPT ![n] = st]

\* A visitor has returned.
LEMMA Completed ==
  ASSUME HelmInv, NEW n \in Release, NEW ok \in BOOLEAN, NEW st, At(n, st), Complete(n, ok),
         namespace' = namespace
  PROVE  TypeOK' /\ PlaceInv' /\ StageInv' /\ Returns(n, ok)
<1> USE DEF Returns
<1>1. /\ UNCHANGED <<run, cmd, project, dryRun, clean>>
      /\ stage' = [stage EXCEPT ![n] = "none"]
  BY DEF Complete, runVars
<1>2. WalkInv
  BY DEF HelmInv, PlaceInv, At, Visiting
<1>3. stage \in [Release -> {"none", "install", "upgrade", "installing", "upgrading",
                             "uninstalling"}]
  BY DEF HelmInv, HelmTypeOK
<1>4. CASE pc = "walk"
  <2>1. Visiting(n) /\ Finish(n, ok) /\ pc' = "walk"
    BY <1>4 DEF At, Complete
  <2>2. WalkInv'
    BY <1>2, <2>1, FinishInv DEF Visiting
  <2>3. /\ UNCHANGED <<phase, graph, direction, interrupted>> /\ Node' = Node
        /\ status' = [status EXCEPT ![n] = "visited"]
        /\ failed' = IF ok THEN failed ELSE failed \union {n}
    BY <2>1 DEF Finish, Node
  <2>4. PlaceInv'
    BY <1>1, <1>4, <2>1, <2>2, <2>3 DEF HelmInv, PlaceInv, BeforeWalk, AfterWalk
  <2>5. StageInv'
    BY <1>1, <1>2, <1>3, <1>4, <2>1, <2>3
       DEF HelmInv, StageInv, Visiting, Deploys, Skipped, WalkInv, TypeOK
  <2>6. QED
    BY <1>1, <1>4, <2>1, <2>2, <2>3, <2>4, <2>5 DEF Visiting, WalkInv
<1>5. CASE pc # "walk"
  <2>1. pc = "ngrok" /\ n = NgrokRelease /\ pc' = AfterNgrok(ok) /\ UNCHANGED walkVars
    BY <1>5 DEF At, Complete, Visiting
  <2>2. UNCHANGED <<phase, graph, direction, status, failed, interrupted>>
    BY <2>1 DEF walkVars
  <2>3. WalkInv'
    BY <1>2, <2>1, WalkKept
  <2>4. PlaceInv'
    BY <1>1, <2>1, <2>2, <2>3
       DEF HelmInv, HelmTypeOK, PlaceInv, BeforeWalk, AfterWalk, AfterNgrok, WalkSucceeded
  <2>5. StageInv'
    BY <1>1, <1>3, <2>1 DEF HelmInv, StageInv, Visiting
  <2>6. QED
    BY <1>1, <2>1, <2>2, <2>3, <2>4, <2>5 DEF WalkInv
<1>6. QED
  BY <1>4, <1>5

\* A visitor goes on to its next operation.
LEMMA Proceeded ==
  ASSUME HelmInv, NEW n \in Release, NEW from, NEW st, At(n, from), Proceed(n, st)
  PROVE  TypeOK' /\ PlaceInv' /\ GoesOn(n, st)
<1> USE DEF GoesOn
<1>1. /\ UNCHANGED <<pc, run, cmd, project, dryRun, clean>> /\ UNCHANGED walkVars
      /\ stage' = [stage EXCEPT ![n] = st]
  BY DEF Proceed, runVars
<1>2. WalkInv
  BY DEF HelmInv, PlaceInv, At, Visiting
<1>3. WalkInv' /\ TypeOK'
  BY <1>1, <1>2, WalkKept DEF WalkInv
<1>4. UNCHANGED <<phase, graph, direction, status, failed, interrupted>>
  BY <1>1 DEF walkVars
<1>5. PlaceInv'
  BY <1>1, <1>3, <1>4 DEF HelmInv, PlaceInv, BeforeWalk, AfterWalk, WalkSucceeded
<1>6. QED
  BY <1>1, <1>3, <1>4, <1>5

\* The operation on n, and none other, has written to n's release.
OnlyTouches(n) ==
    /\ namespace' = namespace
    /\ \A m \in Release \ {n} : release'[m] = release[m]

\* An operation is on a release of the project.
LEMMA ReleaseOfProject ==
  ASSUME HelmInv, NEW n, NEW st, At(n, st)
  PROVE  n \in DOMAIN project.deps \union {NgrokRelease}
BY DEF HelmInv, PlaceInv, At, Visiting, Node

\* What an operation that returns owes each part of the invariant: values of this run
\* only from a deploy on an active namespace,
LEMMA ReturnsValues ==
  ASSUME HelmInv, NEW n \in Release, NEW ok \in BOOLEAN, Returns(n, ok), OnlyTouches(n),
         release'[n].run <= run,
         Exists(n)' /\ release'[n].run = run => cmd = "deploy" /\ namespace = "active"
  PROVE  ValuesInv'
<1>1. pc' \notin BeforeWalk /\ run' = run /\ cmd' = cmd
  BY DEF Returns, AfterNgrok, BeforeWalk
<1>2. \A m \in Release :
         /\ release'[m].run <= run'
         /\ (Exists(m)' /\ release'[m].run = run') => cmd' = "deploy" /\ namespace' = "active"
  BY <1>1 DEF HelmInv, ValuesInv, OnlyTouches, Exists
<1>3. ASSUME NEW s \in Node', Exists(s)', release'[s].run = run', pc \in {"walk", "ngrok"}
      PROVE  \/ stage'[s] = "installing"
             \/ status'[s] \in {"visited", "returned"}
             \/ s = NgrokRelease /\ pc' # "walk"
  <2>1. s \in Release /\ s \in Node
    BY <1>3, ServicesAreReleases DEF HelmInv, PlaceInv, Returns, Node, AfterWalk
  <2>2. CASE s = n
    BY <2>1, <2>2 DEF Returns, AfterNgrok, HelmInv, HelmTypeOK, TypeOK
  <2>3. CASE s # n
    BY <1>1, <1>3, <2>1, <2>3
       DEF HelmInv, HelmTypeOK, TypeOK, ValuesInv, OnlyTouches, Exists, Returns, AfterWalk, AfterNgrok
  <2>4. QED
    BY <2>2, <2>3
<1>4. QED
  BY <1>1, <1>2, <1>3 DEF ValuesInv, Returns

\* a visit that succeeded only with the release in place or gone,
LEMMA ReturnsVisited ==
  ASSUME HelmInv, NEW n \in Release, NEW ok \in BOOLEAN, Returns(n, ok), OnlyTouches(n),
         ok /\ ~dryRun => IF cmd = "deploy" THEN n \in project.skip \/ Current(n)' \/ pc = "ngrok"
                                            ELSE ~Exists(n)'
  PROVE  VisitedInv'
<1> SUFFICES ASSUME pc' \in AfterWalk \union {"walk"}, ~dryRun',
                    NEW s \in Node' \ failed', status'[s] \in {"visited", "returned"}
             PROVE  IF cmd' = "deploy"
                    THEN s \in project'.skip \/ Current(s)' \/ (s = NgrokRelease /\ pc' # "walk")
                    ELSE ~Exists(s)'
  BY DEF VisitedInv
<1>1. ok \/ pc = "walk"
  BY DEF Returns, AfterNgrok, AfterWalk
<1>2. s \in Release /\ s \in Node /\ pc \in {"walk", "ngrok"} /\ (pc = "walk" <=> pc' = "walk")
  BY ServicesAreReleases DEF HelmInv, PlaceInv, Returns, Node, AfterWalk, AfterNgrok
<1>3. CASE s = n
  BY <1>1, <1>2, <1>3 DEF Returns, Current, Exists
<1>4. CASE s # n
  BY <1>1, <1>2, <1>4
     DEF HelmInv, HelmTypeOK, TypeOK, VisitedInv, OnlyTouches, Returns, Current, Exists, AfterWalk
<1>5. QED
  BY <1>3, <1>4

\* and a failure only with a cause, nothing left pending by a deploy.
LEMMA ReturnsCause ==
  ASSUME HelmInv, NEW n \in Release, NEW ok \in BOOLEAN, Returns(n, ok), OnlyTouches(n),
         pc \in {"walk", "ngrok"}, Fault \/ NoFault,
         ok \/ Cause',
         cmd = "deploy" /\ clean /\ ~Ended' => ~Stuck(n)'
  PROVE  CauseInv'
<1>1. (faulted => faulted') /\ (Cause => Cause')
  BY FaultTypes DEF Cause, Returns, HelmInv
<1>2. /\ failed' # {} => Cause'
      /\ FailureHasCause'
  BY <1>1 DEF Returns, AfterNgrok, HelmInv, CauseInv, FailureHasCause, Cause
<1>3. /\ cmd' = "deploy" /\ clean' => namespace' # "terminating"
      /\ cmd' = "deploy" /\ clean' /\ ~dryRun' /\ pc' \in {"graph", "walk", "ngrok"}
            => namespace' = "active"
      /\ pc' # "createNamespace"
  BY DEF Returns, OnlyTouches, AfterNgrok, HelmInv, CauseInv
<1>4. \A m \in Release :
        /\ stage'[m] = "install" => ~Exists(m)' \/ faulted'
        /\ stage'[m] = "upgrade" /\ clean' => Exists(m)'
  BY <1>1 DEF Returns, OnlyTouches, HelmInv, HelmTypeOK, CauseInv, Exists
<1>5. DOMAIN project.deps \union {NgrokRelease} \subseteq Release
  BY ServicesAreReleases DEF HelmInv, Release
<1>6. cmd' = "deploy" /\ clean' /\ ~Ended' =>
        \A m \in DOMAIN project'.deps \union {NgrokRelease} : Stuck(m)' => stage'[m] \in Underway
  BY <1>5 DEF Returns, OnlyTouches, HelmInv, HelmTypeOK, CauseInv, Stuck, Ended
<1>7. QED
  BY <1>2, <1>3, <1>4, <1>6 DEF CauseInv

\* Passing over is for skipped services, and for everything in a dry run.
LEMMA PassOverInv ==
  ASSUME HelmInv, NEW n \in Release, PassOver(n)
  PROVE  HelmInv'
<1>1. /\ At(n, "none") /\ Complete(n, TRUE) /\ (Skipped(n) \/ dryRun) /\ NoFault
      /\ UNCHANGED <<namespace, release>> /\ OnlyTouches(n)
  BY DEF PassOver, clusterVars, OnlyTouches
<1>2. TypeOK' /\ PlaceInv' /\ StageInv' /\ Returns(n, TRUE) /\ pc \in {"walk", "ngrok"}
  BY <1>1, Completed, Zenon DEF At, Visiting
<1>3. HelmTypeOK'
  BY <1>1, <1>2, FaultTypes DEF HelmInv, HelmTypeOK, Returns, AfterNgrok
<1>4. ValuesInv'
  BY <1>1, <1>2, ReturnsValues DEF HelmInv, ValuesInv, Exists
<1>5. VisitedInv'
  BY <1>1, <1>2, ReturnsVisited DEF Skipped
<1>6. AgentInv'
  BY <1>1, <1>2 DEF AgentInv, Skipped, AfterNgrok, Returns
<1>7. CauseInv'
  <2>1. stage[n] = "none" /\ pc \notin {"ok", "err", "idle", "killed"}
    BY <1>1, <1>2 DEF At
  <2>2. cmd = "deploy" /\ clean => ~Stuck(n)'
    BY <1>1, <1>2, <2>1, ReleaseOfProject DEF HelmInv, CauseInv, Stuck, Ended, Underway
  <2>3. QED
    BY <1>1, <1>2, <2>2, ReturnsCause
<1>8. QED
  BY <1>2, <1>3, <1>4, <1>5, <1>6, <1>7 DEF HelmInv

\* A chart refused before Helm is asked is a failure of the visit, and a fault.
LEMMA RefuseChartInv ==
  ASSUME HelmInv, NEW n \in Release, RefuseChart(n)
  PROVE  HelmInv'
<1>1. /\ At(n, "none") /\ Complete(n, FALSE) /\ Fault
      /\ UNCHANGED <<namespace, release>> /\ OnlyTouches(n)
  BY DEF RefuseChart, clusterVars, OnlyTouches
<1>2. TypeOK' /\ PlaceInv' /\ StageInv' /\ Returns(n, FALSE) /\ pc \in {"walk", "ngrok"}
  BY <1>1, Completed, Zenon DEF At, Visiting
<1>3. HelmTypeOK'
  BY <1>1, <1>2, FaultTypes DEF HelmInv, HelmTypeOK, Returns, AfterNgrok
<1>4. ValuesInv'
  BY <1>1, <1>2, ReturnsValues DEF HelmInv, ValuesInv, Exists
<1>5. VisitedInv' /\ AgentInv'
  BY <1>1, <1>2, ReturnsVisited DEF AgentInv, AfterNgrok, Returns
<1>6. CauseInv'
  <2>1. stage[n] = "none" /\ pc \notin {"ok", "err", "idle", "killed"}
    BY <1>1, <1>2 DEF At
  <2>2. cmd = "deploy" /\ clean => ~Stuck(n)'
    BY <1>1, <1>2, <2>1, ReleaseOfProject DEF HelmInv, CauseInv, Stuck, Ended, Underway
  <2>3. Cause'
    BY <1>1 DEF Cause, Fault
  <2>4. QED
    BY <1>1, <1>2, <2>2, <2>3, ReturnsCause
<1>7. QED
  BY <1>2, <1>3, <1>4, <1>5, <1>6 DEF HelmInv

\* The lookup decides between install and upgrade by what is there, or by a fault.
LEMMA LookupReleaseInv ==
  ASSUME HelmInv, NEW n \in Release, LookupRelease(n)
  PROVE  HelmInv'
<1> USE DEF GoesOn
<1>1. /\ At(n, "none") /\ Deploys(n) /\ ~Skipped(n) /\ ~dryRun
      /\ UNCHANGED <<namespace, release>>
      /\ \/ Proceed(n, "upgrade") /\ Exists(n) /\ NoFault
         \/ Proceed(n, "install") /\ ~Exists(n) /\ NoFault
         \/ Proceed(n, "install") /\ Fault
  BY DEF LookupRelease, clusterVars
<1>2. PICK st \in {"install", "upgrade"} :
         /\ Proceed(n, st) /\ (NoFault \/ Fault)
         /\ st = "upgrade" => Exists(n)
         /\ st = "install" => ~Exists(n) \/ faulted'
  BY <1>1 DEF Fault
<1>3. TypeOK' /\ PlaceInv' /\ GoesOn(n, st)
  BY <1>1, <1>2, Proceeded
<1>4. HelmTypeOK'
  BY <1>1, <1>2, <1>3, FaultTypes DEF HelmInv, HelmTypeOK
<1>5. StageInv'
  BY <1>1, <1>2, <1>3 DEF HelmInv, HelmTypeOK, StageInv, At, Visiting, Deploys, Skipped, Node
<1>6. ValuesInv' /\ VisitedInv' /\ AgentInv'
  BY <1>1, <1>2, <1>3 DEF HelmInv, HelmTypeOK, ValuesInv, VisitedInv, AgentInv, At, Current,
                          Exists, Node
<1>7. CauseInv'
  <2>1. faulted => faulted'
    BY <1>2, FaultTypes DEF HelmInv
  <2>2. \A m \in Release :
          /\ stage'[m] = "install" => ~Exists(m)' \/ faulted'
          /\ stage'[m] = "upgrade" /\ clean' => Exists(m)'
    BY <1>1, <1>2, <1>3, <2>1 DEF HelmInv, HelmTypeOK, CauseInv, Exists
  <2>3. stage[n] = "none" /\ \A m \in Release : m # n => stage'[m] = stage[m]
    BY <1>1, <1>3 DEF HelmInv, HelmTypeOK, At
  <2>4. DOMAIN project.deps \union {NgrokRelease} \subseteq Release
    BY ServicesAreReleases DEF HelmInv, Release
  <2>5. cmd' = "deploy" /\ clean' /\ ~Ended' =>
          \A m \in DOMAIN project'.deps \union {NgrokRelease} : Stuck(m)' => stage'[m] \in Underway
    BY <1>1, <1>3, <2>3, <2>4 DEF HelmInv, CauseInv, Stuck, Ended, Underway
  <2>6. QED
    BY <1>1, <1>3, <2>1, <2>2, <2>5
       DEF HelmInv, CauseInv, Cause, FailureHasCause, Ended
<1>8. QED
  BY <1>3, <1>4, <1>5, <1>6, <1>7 DEF HelmInv

\* What is known of an operation that has been begun: it is under way on n alone.
LEMMA UnderwayAt ==
  ASSUME HelmInv, NEW n \in Release, NEW st, At(n, st), st # "none"
  PROVE  /\ ~dryRun /\ stage[n] = st
         /\ st \in {"install", "upgrade", "installing", "upgrading"} => Deploys(n) /\ ~Skipped(n)
         /\ st = "uninstalling" => ~Deploys(n)
         /\ \/ pc = "walk" /\ n \in Node /\ status[n] = "running"
            \/ pc = "ngrok" /\ n = NgrokRelease
BY DEF HelmInv, StageInv, At, Stuck, Visiting

\* An install that Helm refuses was decided on after a failed lookup, or on a namespace
\* that an earlier run has given up.
LEMMA BeginInstallInv ==
  ASSUME HelmInv, NEW n \in Release, BeginInstall(n)
  PROVE  HelmInv'
<1> USE DEF Returns, GoesOn
<1>1. /\ At(n, "install") /\ NoFault /\ ~dryRun /\ Deploys(n) /\ cmd = "deploy"
      /\ stage[n] = "install" /\ ~Skipped(n)
      /\ \/ pc = "walk" /\ n \in Node /\ status[n] = "running"
         \/ pc = "ngrok" /\ n = NgrokRelease
  BY UnderwayAt DEF BeginInstall, Deploys
<1>2. CASE ~Exists(n) /\ namespace = "active"
  <2>1. /\ Proceed(n, "installing") /\ UNCHANGED namespace
        /\ release' = [release EXCEPT ![n] = [status |-> "pending", run |-> run]]
    BY <1>2 DEF BeginInstall, SetRelease
  <2>2. TypeOK' /\ PlaceInv' /\ GoesOn(n, "installing")
    BY <1>1, <2>1, Proceeded
  <2>3. HelmTypeOK'
    BY <1>1, <2>1, <2>2, FaultTypes DEF HelmInv, HelmTypeOK
  <2>4. StageInv'
    BY <1>1, <1>2, <2>1, <2>2 DEF HelmInv, HelmTypeOK, StageInv, Visiting, Deploys, Skipped, Node
  <2>5. ValuesInv'
    BY <1>1, <1>2, <2>1, <2>2
       DEF HelmInv, HelmTypeOK, ValuesInv, Exists, Node, BeforeWalk, AfterWalk
  <2>6. VisitedInv' /\ AgentInv'
    BY <1>1, <2>1, <2>2 DEF HelmInv, HelmTypeOK, VisitedInv, AgentInv, Current, Exists, Node
  <2>7. CauseInv'
    BY <1>1, <2>1, <2>2
       DEF HelmInv, HelmTypeOK, CauseInv, Cause, FailureHasCause, Stuck, Exists, Ended, Underway,
           NoFault
  <2>8. QED
    BY <2>3, <2>2, <2>4, <2>5, <2>6, <2>7 DEF HelmInv
<1>3. CASE ~(~Exists(n) /\ namespace = "active")
  <2>1. Complete(n, FALSE) /\ UNCHANGED <<namespace, release>>
    BY <1>3 DEF BeginInstall, clusterVars
  <2>2. TypeOK' /\ PlaceInv' /\ StageInv' /\ Returns(n, FALSE)
    BY <1>1, <2>1, Completed, Zenon
  <2>3. Cause
    BY <1>1, <1>3 DEF HelmInv, CauseInv, Cause
  <2>4. HelmTypeOK'
    BY <1>1, <2>1, <2>2, FaultTypes DEF HelmInv, HelmTypeOK, AfterNgrok
  <2>5. ValuesInv'
    BY <1>1, <2>1, <2>2 DEF HelmInv, HelmTypeOK, TypeOK, ValuesInv, Exists, BeforeWalk, AfterWalk,
                      AfterNgrok, Node
  <2>6. VisitedInv' /\ AgentInv'
    BY <2>1, <2>2 DEF HelmInv, HelmTypeOK, TypeOK, VisitedInv, AgentInv, AfterNgrok, Current,
                      Exists, AfterWalk, Node
  <2>7. CauseInv'
    BY <1>1, <2>1, <2>2, <2>3 DEF HelmInv, HelmTypeOK, CauseInv, Cause, FailureHasCause, Stuck,
                      Exists, Ended, AfterNgrok, NoFault, Underway
  <2>8. QED
    BY <2>2, <2>4, <2>5, <2>6, <2>7 DEF HelmInv
<1>4. QED
  BY <1>2, <1>3

\* An upgrade that Helm refuses has found a release which a killed run left pending, or
\* whose namespace went away under it.
LEMMA BeginUpgradeInv ==
  ASSUME HelmInv, NEW n \in Release, BeginUpgrade(n)
  PROVE  HelmInv'
<1> USE DEF Returns, GoesOn
<1>1. /\ At(n, "upgrade") /\ NoFault /\ ~dryRun /\ Deploys(n) /\ cmd = "deploy"
      /\ stage[n] = "upgrade" /\ ~Skipped(n)
      /\ \/ pc = "walk" /\ n \in Node /\ status[n] = "running"
         \/ pc = "ngrok" /\ n = NgrokRelease
  BY UnderwayAt DEF BeginUpgrade, Deploys
<1>2. CASE Exists(n) /\ ~Stuck(n) /\ namespace = "active"
  <2>1. /\ Proceed(n, "upgrading") /\ UNCHANGED namespace
        /\ release' = [release EXCEPT ![n] = [status |-> "pending", run |-> release[n].run]]
    BY <1>2 DEF BeginUpgrade, SetRelease
  <2>2. TypeOK' /\ PlaceInv' /\ GoesOn(n, "upgrading")
    BY <1>1, <2>1, Proceeded
  <2>3. HelmTypeOK'
    BY <1>1, <2>1, <2>2, FaultTypes DEF HelmInv, HelmTypeOK
  <2>4. StageInv'
    BY <1>1, <1>2, <2>1, <2>2 DEF HelmInv, HelmTypeOK, StageInv, Visiting, Deploys, Skipped, Node
  <2>5. ValuesInv'
    BY <1>1, <1>2, <2>1, <2>2
       DEF HelmInv, HelmTypeOK, ValuesInv, Exists, Node, BeforeWalk, AfterWalk
  <2>6. VisitedInv' /\ AgentInv'
    BY <1>1, <2>1, <2>2 DEF HelmInv, HelmTypeOK, VisitedInv, AgentInv, Current, Exists, Node
  <2>7. CauseInv'
    BY <1>1, <2>1, <2>2
       DEF HelmInv, HelmTypeOK, CauseInv, Cause, FailureHasCause, Stuck, Exists, Ended, Underway,
           NoFault
  <2>8. QED
    BY <2>3, <2>2, <2>4, <2>5, <2>6, <2>7 DEF HelmInv
<1>3. CASE ~(Exists(n) /\ ~Stuck(n) /\ namespace = "active")
  <2>1. Complete(n, FALSE) /\ UNCHANGED <<namespace, release>>
    BY <1>3 DEF BeginUpgrade, clusterVars
  <2>2. TypeOK' /\ PlaceInv' /\ StageInv' /\ Returns(n, FALSE)
    BY <1>1, <2>1, Completed, Zenon
  <2>3. Cause
    <3>1. n \in DOMAIN project.deps \union {NgrokRelease}
      BY <1>1 DEF HelmInv, PlaceInv, Node
    <3>2. QED
      BY <1>1, <1>3, <3>1 DEF HelmInv, CauseInv, Cause, Ended, Underway
  <2>4. HelmTypeOK'
    BY <1>1, <2>1, <2>2, FaultTypes DEF HelmInv, HelmTypeOK, AfterNgrok
  <2>5. ValuesInv'
    BY <1>1, <2>1, <2>2 DEF HelmInv, HelmTypeOK, TypeOK, ValuesInv, Exists, BeforeWalk, AfterWalk,
                      AfterNgrok, Node
  <2>6. VisitedInv' /\ AgentInv'
    BY <2>1, <2>2 DEF HelmInv, HelmTypeOK, TypeOK, VisitedInv, AgentInv, AfterNgrok, Current,
                      Exists, AfterWalk, Node
  <2>7. CauseInv'
    BY <1>1, <2>1, <2>2, <2>3 DEF HelmInv, HelmTypeOK, CauseInv, Cause, FailureHasCause, Stuck,
                      Exists, Ended, AfterNgrok, NoFault, Underway
  <2>8. QED
    BY <2>2, <2>4, <2>5, <2>6, <2>7 DEF HelmInv
<1>4. QED
  BY <1>2, <1>3

\* An operation that ends well leaves this run's values.
LEMMA AppliedInv ==
  ASSUME HelmInv, NEW n \in Release, Applied(n)
  PROVE  HelmInv'
<1>1. PICK st \in {"installing", "upgrading"} : At(n, st)
  BY DEF Applied
<1>2. /\ Complete(n, TRUE) /\ NoFault /\ UNCHANGED namespace
      /\ release' = [release EXCEPT ![n] = [status |-> "deployed", run |-> run]]
  BY DEF Applied, SetRelease
<1>3. /\ ~dryRun /\ Deploys(n) /\ cmd = "deploy" /\ namespace = "active"
      /\ \/ pc = "walk" /\ n \in Node /\ status[n] = "running"
         \/ pc = "ngrok" /\ n = NgrokRelease /\ project.publishes
  BY <1>1, UnderwayAt DEF Deploys, HelmInv, StageInv
<1>4. TypeOK' /\ PlaceInv' /\ StageInv' /\ Returns(n, TRUE)
  BY <1>1, <1>2, Completed, Zenon
<1>5. HelmTypeOK'
  BY <1>2, <1>3, <1>4, FaultTypes DEF HelmInv, HelmTypeOK, Returns, AfterNgrok
<1>6. /\ OnlyTouches(n) /\ pc \in {"walk", "ngrok"} /\ (Fault \/ NoFault)
      /\ release'[n].run <= run /\ release'[n].status = "deployed" /\ Current(n)'
  BY <1>2, <1>3, <1>4 DEF OnlyTouches, HelmInv, HelmTypeOK, Current, Returns
<1>7. ValuesInv' /\ VisitedInv'
  <2>1. ValuesInv'
    BY <1>3, <1>4, <1>6, ReturnsValues
  <2>2. VisitedInv'
    BY <1>3, <1>4, <1>6, ReturnsVisited
  <2>3. QED
    BY <2>1, <2>2
<1>8. AgentInv'
  BY <1>2, <1>3, <1>4 DEF HelmInv, HelmTypeOK, AgentInv, Returns, Current, AfterNgrok
<1>9. CauseInv'
  BY <1>4, <1>6, ReturnsCause DEF Stuck
<1>10. QED
  BY <1>4, <1>5, <1>7, <1>8, <1>9 DEF HelmInv

\* One that fails is undone, or its undoing fails too; either has a cause, and leaves no
\* release with this run's values but a failed one.
LEMMA UndoneInv ==
  ASSUME HelmInv, NEW n \in Release, Undone(n)
  PROVE  HelmInv'
<1>1. PICK st \in {"installing", "upgrading"} : At(n, st)
  BY DEF Undone
<1>2. /\ Complete(n, FALSE) /\ (Fault \/ (cancelled /\ NoFault)) /\ UNCHANGED namespace
      /\ \/ release' = [release EXCEPT ![n] = NoRelease]
         \/ release' = [release EXCEPT ![n] = [status |-> "deployed", run |-> release[n].run]]
         \/ release' = [release EXCEPT ![n] = [status |-> "failed", run |-> release[n].run]]
  BY DEF Undone, SetRelease, Remove
<1>3. /\ ~dryRun /\ Deploys(n) /\ cmd = "deploy" /\ namespace = "active"
      /\ \/ pc = "walk" /\ n \in Node /\ status[n] = "running"
         \/ pc = "ngrok" /\ n = NgrokRelease
  BY <1>1, UnderwayAt DEF Deploys, HelmInv, StageInv
<1>4. TypeOK' /\ PlaceInv' /\ StageInv' /\ Returns(n, FALSE)
  BY <1>1, <1>2, Completed, Zenon
<1>5. Cause'
  <2>1. CASE Fault
    BY <2>1 DEF Cause, Fault
  <2>2. CASE cancelled /\ NoFault
    <3>1. WalkInv
      BY <1>3 DEF HelmInv, PlaceInv
    <3>2. Cause
      BY <2>2, <3>1 DEF WalkInv, HelmInv, CauseInv, Cause
    <3>3. QED
      BY <1>4, <2>2, <3>2 DEF Cause, Returns, NoFault
  <2>3. QED
    BY <1>2, <2>1, <2>2
<1>6. release' \in [Release -> [status : {"none", "pending", "deployed", "failed",
                                          "uninstalling"}, run : 0..MaxRuns]]
  BY <1>2, HelmBoundsAssumption DEF HelmInv, HelmTypeOK, NoRelease
<1>7. HelmTypeOK'
  BY <1>2, <1>3, <1>4, <1>6, FaultTypes DEF HelmInv, HelmTypeOK, Returns, AfterNgrok
<1>8. /\ OnlyTouches(n) /\ pc \in {"walk", "ngrok"} /\ (Fault \/ NoFault)
      /\ release'[n] = NoRelease \/ release'[n].run = release[n].run
      /\ release'[n].status \in {"none", "deployed", "failed"}
  BY <1>2, <1>3 DEF OnlyTouches, HelmInv, HelmTypeOK, NoRelease
<1>9. ValuesInv' /\ VisitedInv' /\ AgentInv'
  <2>1. ValuesInv'
    <3>1. release[n].run <= run /\ 0 <= run
      BY DEF HelmInv, HelmTypeOK, ValuesInv
    <3>2. release'[n].run <= run
      BY <1>8, <3>1 DEF NoRelease
    <3>3. QED
      BY <1>3, <1>4, <1>8, <3>2, ReturnsValues DEF Returns
  <2>2. VisitedInv'
    BY <1>4, <1>8, ReturnsVisited
  <2>3. AgentInv'
    BY <1>3, <1>4 DEF AgentInv, Returns, AfterNgrok
  <2>4. QED
    BY <2>1, <2>2, <2>3
<1>10. CauseInv'
  BY <1>4, <1>5, <1>8, ReturnsCause DEF Stuck
<1>11. QED
  BY <1>4, <1>7, <1>9, <1>10 DEF HelmInv

\* What is gone already needs no uninstall; what is there keeps its values until it ends.
LEMMA BeginUninstallInv ==
  ASSUME HelmInv, NEW n \in Release, BeginUninstall(n)
  PROVE  HelmInv'
<1>1. /\ At(n, "none") /\ NoFault /\ ~dryRun /\ ~Deploys(n) /\ stage[n] = "none"
      /\ \/ pc = "walk" /\ n \in Node /\ status[n] = "running"
         \/ pc = "ngrok" /\ n = NgrokRelease
  BY DEF BeginUninstall, At, Visiting
<1>2. CASE Exists(n)
  <2>1. /\ Proceed(n, "uninstalling") /\ UNCHANGED namespace
        /\ release' = [release EXCEPT ![n] = [status |-> "uninstalling", run |-> release[n].run]]
    BY <1>2 DEF BeginUninstall, SetRelease
  <2>2. TypeOK' /\ PlaceInv' /\ GoesOn(n, "uninstalling")
    BY <1>1, <2>1, Proceeded
  <2>3. HelmTypeOK'
    BY <1>1, <2>1, <2>2, FaultTypes DEF HelmInv, HelmTypeOK, GoesOn
  <2>4. StageInv'
    <3>1. /\ UNCHANGED <<pc, cmd, project, dryRun, graph, status, phase, namespace>>
          /\ \A m \in Release \ {n} : stage'[m] = stage[m]
          /\ stage'[n] = "uninstalling"
      BY <2>1, <2>2 DEF HelmInv, HelmTypeOK, GoesOn
    <3>2. Visiting(n) \/ (pc = "ngrok" /\ n = NgrokRelease)
      BY <1>1 DEF At
    <3>3. \A m : (Visiting(m)' <=> Visiting(m)) /\ (Deploys(m)' <=> Deploys(m))
                /\ (Skipped(m)' <=> Skipped(m))
      BY <3>1 DEF Visiting, Deploys, Skipped, Node
    <3>4. QED
      BY <1>1, <3>1, <3>2, <3>3 DEF HelmInv, StageInv
  <2>5. /\ UNCHANGED <<run, cmd, project, dryRun, clean, interrupted, graph, pc, status, failed>>
        /\ \A m \in Release \ {n} : release'[m] = release[m] /\ stage'[m] = stage[m]
        /\ release'[n].run = release[n].run /\ release'[n].status = "uninstalling" /\ Exists(n)'
        /\ stage'[n] = "uninstalling" /\ Node' = Node
    BY <2>1, <2>2 DEF HelmInv, HelmTypeOK, Exists, NoRelease, GoesOn, Node
  <2>6. pc \in {"walk", "ngrok"} => Node \subseteq Release
    BY ServicesAreReleases DEF HelmInv, PlaceInv, Node, AfterWalk
  <2>7. ValuesInv'
    BY <1>1, <1>2, <2>1, <2>5, <2>6
       DEF HelmInv, ValuesInv, Exists, BeforeWalk, AfterWalk
  <2>8. VisitedInv' /\ AgentInv'
    BY <1>1, <1>2, <2>1, <2>5, <2>6
       DEF HelmInv, VisitedInv, AgentInv, Current, Exists, AfterWalk
  <2>9. CauseInv'
    <3>1. /\ UNCHANGED <<faulted, namespace>>
          /\ DOMAIN project.deps \union {NgrokRelease} \subseteq Release
      BY <1>1, <2>1, ServicesAreReleases DEF HelmInv, NoFault, Release
    <3>2. \A m \in DOMAIN project.deps \union {NgrokRelease} :
             Stuck(m)' => m = n \/ Stuck(m)
      BY <2>5, <3>1 DEF Stuck
    <3>3. QED
      BY <1>1, <2>5, <3>1, <3>2
         DEF HelmInv, CauseInv, Cause, FailureHasCause, Exists, Ended, Underway
  <2>10. QED
    BY <2>2, <2>3, <2>4, <2>7, <2>8, <2>9 DEF HelmInv
<1>3. CASE ~Exists(n)
  <2>1. /\ Complete(n, TRUE) /\ UNCHANGED <<namespace, release>> /\ OnlyTouches(n)
        /\ ~Exists(n)'
    BY <1>3 DEF BeginUninstall, clusterVars, OnlyTouches, Exists
  <2>2. /\ TypeOK' /\ PlaceInv' /\ StageInv' /\ Returns(n, TRUE)
        /\ pc \in {"walk", "ngrok"} /\ (Fault \/ NoFault)
    BY <1>1, <2>1, Completed, Zenon
  <2>3. HelmTypeOK'
    BY <1>1, <2>1, <2>2, FaultTypes DEF HelmInv, HelmTypeOK, Returns, AfterNgrok
  <2>4. ValuesInv'
    BY <2>1, <2>2, ReturnsValues DEF HelmInv, ValuesInv
  <2>5. VisitedInv'
    BY <1>1, <2>1, <2>2, ReturnsVisited DEF Deploys
  <2>6. AgentInv'
    BY <1>1, <2>1, <2>2 DEF AgentInv, Returns, AfterNgrok, Deploys, Exists, HelmInv, HelmTypeOK
  <2>7. CauseInv'
    <3>1. ~Stuck(n)'
      BY <2>1 DEF Stuck, Exists, NoRelease
    <3>2. QED
      BY <2>1, <2>2, <3>1, ReturnsCause
  <2>8. QED
    BY <2>2, <2>3, <2>4, <2>5, <2>6, <2>7 DEF HelmInv
<1>4. QED
  BY <1>2, <1>3

\* An uninstall that ends well has removed the record; one that fails is a fault.
LEMMA EndUninstallInv ==
  ASSUME HelmInv, NEW n \in Release, EndUninstall(n)
  PROVE  HelmInv'
<1>1. /\ At(n, "uninstalling") /\ ~dryRun /\ ~Deploys(n)
      /\ \/ pc = "walk" /\ n \in Node /\ status[n] = "running"
         \/ pc = "ngrok" /\ n = NgrokRelease
  BY UnderwayAt DEF EndUninstall
<1>2. PICK ok \in BOOLEAN :
         /\ Complete(n, ok) /\ UNCHANGED namespace
         /\ release' = [release EXCEPT ![n] = NoRelease] \/ (~ok /\ release' = release)
         /\ IF ok THEN NoFault ELSE Fault
  BY DEF EndUninstall, Remove, clusterVars
<1>3. TypeOK' /\ PlaceInv' /\ StageInv' /\ Returns(n, ok)
  BY <1>1, <1>2, Completed, Zenon
<1>4. /\ OnlyTouches(n) /\ pc \in {"walk", "ngrok"} /\ (Fault \/ NoFault)
      /\ release'[n] = NoRelease \/ (release'[n] = release[n] /\ ~ok)
      /\ release'[n].run <= run
      /\ ok \/ Cause'
  <2>1. OnlyTouches(n) /\ (release'[n] = NoRelease \/ (release'[n] = release[n] /\ ~ok))
    BY <1>2 DEF OnlyTouches, HelmInv, HelmTypeOK
  <2>2. release[n].run <= run /\ 0 <= run
    BY DEF HelmInv, HelmTypeOK, ValuesInv
  <2>3. release'[n].run <= run
    BY <2>1, <2>2 DEF NoRelease
  <2>4. pc \in {"walk", "ngrok"}
    BY <1>1
  <2>5. (Fault \/ NoFault) /\ (ok \/ Cause')
    BY <1>2 DEF Fault, Cause
  <2>6. QED
    BY <2>1, <2>3, <2>4, <2>5
<1>5. HelmTypeOK'
  <2>1. release' \in [Release -> [status : {"none", "pending", "deployed", "failed",
                                            "uninstalling"}, run : 0..MaxRuns]]
    BY <1>2, HelmBoundsAssumption DEF HelmInv, HelmTypeOK, NoRelease
  <2>2. pc' \in {"walk", "ok", "err", "removeNamespace"}
    BY <1>3 DEF Returns, AfterNgrok
  <2>3. QED
    BY <1>2, <1>3, <1>4, <2>1, <2>2, FaultTypes DEF HelmInv, HelmTypeOK, Returns
<1>6. ValuesInv'
  BY <1>3, <1>4, ReturnsValues DEF HelmInv, ValuesInv, Exists
<1>7. VisitedInv'
  BY <1>1, <1>3, <1>4, ReturnsVisited DEF Deploys, Exists
<1>8. AgentInv'
  BY <1>1, <1>3, <1>4 DEF AgentInv, Returns, AfterNgrok, Deploys, Exists, HelmInv, HelmTypeOK
<1>9. CauseInv'
  <2>1. cmd = "deploy" /\ ~Ended' => ~Stuck(n)'
    BY <1>1, <1>3, <1>4 DEF Returns, AfterNgrok, Deploys, Ended, Stuck, NoRelease
  <2>2. QED
    BY <1>3, <1>4, <2>1, ReturnsCause
<1>10. QED
  BY <1>3, <1>5, <1>6, <1>7, <1>8, <1>9 DEF HelmInv

\* The namespace is given up by a destroy only, whose run left no release in it.
LEMMA RemoveNamespaceInv ==
  ASSUME HelmInv, RemoveNamespace
  PROVE  HelmInv'
<1>1. /\ UNCHANGED <<walkVars, runVars, stage, release>>
      /\ pc = "removeNamespace" /\ pc' \in {"ok", "err"}
      /\ namespace' \in {namespace, "terminating"}
      /\ pc' = "ok" /\ ~dryRun /\ project.removeNamespace => namespace' # "active"
      /\ Fault \/ NoFault
      /\ pc' = "err" => faulted' \/ interrupted
  BY DEF RemoveNamespace, Goto, Fault, NoFault
<1>2. /\ UNCHANGED <<run, cmd, project, dryRun, clean, release, stage>> /\ UNCHANGED walkVars
      /\ UNCHANGED <<graph, direction, status, failed, phase, interrupted>>
      /\ Node' = Node /\ cmd = "destroy"
  BY <1>1 DEF runVars, walkVars, Node, HelmInv, PlaceInv
<1>3. HelmTypeOK'
  BY <1>1, <1>2, WalkKept, FaultTypes, Zenon DEF HelmInv, HelmTypeOK
<1>4. PlaceInv'
  BY <1>1, <1>2, WalkKept DEF HelmInv, PlaceInv, BeforeWalk, AfterWalk, WalkSucceeded
<1>5. StageInv'
  BY <1>1, <1>2, NothingUnderway DEF StageInv
<1>6. ValuesInv'
  BY <1>1, <1>2 DEF HelmInv, ValuesInv, Exists, AfterWalk, BeforeWalk
<1>7. VisitedInv' /\ AgentInv'
  BY <1>1, <1>2 DEF HelmInv, VisitedInv, AgentInv, Exists, AfterWalk
<1>8. CauseInv'
  BY <1>1, <1>2, NothingUnderway, FaultTypes
     DEF HelmInv, CauseInv, Cause, FailureHasCause, Stuck, Ended
<1>9. QED
  BY <1>3, <1>4, <1>5, <1>6, <1>7, <1>8 DEF HelmInv

\* An interrupt is itself a cause.
LEMMA SignalInv ==
  ASSUME HelmInv, Signal
  PROVE  HelmInv'
<1>1. /\ UNCHANGED <<run, cmd, project, dryRun, clean, release, stage, namespace, pc, faulted>>
      /\ UNCHANGED <<graph, direction, status, failed, phase>>
      /\ ~Ended /\ Interrupt /\ interrupted' = TRUE /\ cancelled' = TRUE
      /\ faults < MaxFaults /\ faults' = faults + 1
  BY DEF Signal, Interrupt, runVars, clusterVars
<1>2. Node' = Node /\ faults' \in 0..MaxFaults
  BY <1>1, HelmBoundsAssumption DEF Node, HelmInv, HelmTypeOK
<1>3. WalkInv'
  BY <1>1, QuietInv DEF HelmInv, PlaceInv, Ended
<1>4. HelmTypeOK'
  BY <1>1, <1>2, <1>3, Zenon DEF HelmInv, HelmTypeOK, WalkInv
<1>5. PlaceInv'
  BY <1>1, <1>3 DEF HelmInv, PlaceInv, WalkSucceeded
<1>6. StageInv'
  BY <1>1, <1>2 DEF HelmInv, StageInv, Visiting, Deploys, Skipped
<1>7. ValuesInv'
  BY <1>1, <1>2 DEF HelmInv, ValuesInv, Exists
<1>8. VisitedInv' /\ AgentInv'
  BY <1>1, <1>2 DEF HelmInv, VisitedInv, AgentInv, Exists, Current
<1>9. CauseInv'
  BY <1>1 DEF HelmInv, CauseInv, Cause, FailureHasCause, Stuck, Exists, Ended
<1>10. QED
  BY <1>4, <1>5, <1>6, <1>7, <1>8, <1>9 DEF HelmInv

\* A killed run leaves its walk and its operations; the cluster stays as it is.
LEMMA KillInv ==
  ASSUME HelmInv, Kill
  PROVE  HelmInv'
<1>1. /\ UNCHANGED <<run, cmd, project, dryRun, clean, release, namespace>>
      /\ ~Ended /\ pc' = "killed" /\ stage' = [n \in Release |-> "none"]
      /\ LeaveWalk /\ Fault /\ UNCHANGED <<interrupted, cancelled>>
  BY DEF Kill, runVars, clusterVars
<1>2. TypeOK'
  <2>1. interrupted' \in BOOLEAN /\ cancelled' \in BOOLEAN
    BY <1>1, Zenon DEF HelmInv, HelmTypeOK, TypeOK
  <2>2. QED
    BY <1>1, <2>1, LeaveWalkInv
<1>3. HelmTypeOK'
  <2>1. stage' \in [Release -> {"none", "install", "upgrade", "installing", "upgrading",
                                "uninstalling"}]
    BY <1>1
  <2>2. QED
    BY <1>1, <1>2, <2>1, FaultTypes, Zenon DEF HelmInv, HelmTypeOK
<1>4. PlaceInv'
  BY <1>1 DEF HelmInv, PlaceInv, LeaveWalk, BeforeWalk, AfterWalk, Ended
<1>5. StageInv'
  BY <1>1 DEF StageInv
<1>6. ValuesInv'
  BY <1>1 DEF HelmInv, ValuesInv, Exists, AfterWalk, BeforeWalk
<1>7. VisitedInv' /\ AgentInv'
  BY <1>1 DEF VisitedInv, AgentInv, AfterWalk
<1>8. CauseInv'
  BY <1>1 DEF HelmInv, CauseInv, FailureHasCause, LeaveWalk, Ended
<1>9. QED
  BY <1>3, <1>4, <1>5, <1>6, <1>7, <1>8 DEF HelmInv

\* When the namespace goes no release in it had this run's values: the run that gave it
\* up was a destroy, and what a later deploy began found it terminating.
LEMMA NamespaceGoneInv ==
  ASSUME HelmInv, NamespaceGone
  PROVE  HelmInv'
<1>1. /\ UNCHANGED <<run, cmd, project, dryRun, clean, stage, pc>> /\ UNCHANGED walkVars
      /\ UNCHANGED <<graph, direction, status, failed, phase, interrupted, faulted>>
      /\ namespace = "terminating" /\ namespace' = "absent" /\ NoFault
      /\ \A n \in Release : release'[n] = NoRelease
      /\ release' \in [Release -> {NoRelease}]
  BY DEF NamespaceGone, runVars, walkVars, NoFault
<1>2. Node' = Node /\ \A n \in Release : ~Exists(n)' /\ ~Stuck(n)'
  BY <1>1 DEF Node, Exists, Stuck, NoRelease
<1>3. \A n \in Release : ~Current(n)
  BY <1>1 DEF HelmInv, ValuesInv, Current, Exists, NoRelease
<1>4. HelmTypeOK'
  <2>1. release' \in [Release -> [status : {"none", "pending", "deployed", "failed",
                                            "uninstalling"}, run : 0..MaxRuns]]
    BY <1>1, HelmBoundsAssumption DEF NoRelease
  <2>2. QED
    BY <1>1, <2>1, WalkKept, FaultTypes, Zenon DEF HelmInv, HelmTypeOK
<1>5. PlaceInv'
  BY <1>1, WalkKept DEF HelmInv, PlaceInv, WalkSucceeded
<1>6. StageInv'
  BY <1>1, <1>2 DEF HelmInv, StageInv, Visiting, Deploys, Skipped
<1>7. pc \in AfterWalk \union {"walk"} => Node \subseteq Release
  BY ServicesAreReleases DEF HelmInv, PlaceInv, Node
<1>8. NgrokRelease \in Release
  BY DEF Release
<1>9. ValuesInv'
  <2>1. 0 <= run
    BY DEF HelmInv, HelmTypeOK
  <2>2. QED
    BY <1>1, <1>2, <1>7, <2>1 DEF HelmInv, ValuesInv, NoRelease
<1>10. VisitedInv'
  BY <1>1, <1>2, <1>3, <1>7 DEF HelmInv, VisitedInv
<1>11. AgentInv'
  BY <1>1, <1>2, <1>3, <1>8 DEF HelmInv, AgentInv
<1>12. CauseInv'
  <2>1. ~(cmd = "deploy" /\ clean)
    BY <1>1 DEF HelmInv, CauseInv
  <2>2. \A n \in Release : stage'[n] = "upgrade" => ~clean'
    BY <1>1, <2>1 DEF HelmInv, StageInv, Deploys
  <2>3. QED
    BY <1>1, <1>2, <2>1, <2>2 DEF HelmInv, CauseInv, Cause, FailureHasCause, Ended
<1>13. QED
  BY <1>4, <1>5, <1>6, <1>9, <1>10, <1>11, <1>12 DEF HelmInv

\* Another program's create is a fault to the run that was about to.
LEMMA OtherCreatesNamespaceInv ==
  ASSUME HelmInv, OtherCreatesNamespace
  PROVE  HelmInv'
<1>1. /\ UNCHANGED <<run, cmd, project, dryRun, clean, stage, pc, release>> /\ UNCHANGED walkVars
      /\ UNCHANGED <<graph, direction, status, failed, phase, interrupted>>
      /\ pc = "createNamespace" /\ namespace' = "active" /\ Fault /\ faulted' = TRUE
  BY DEF OtherCreatesNamespace, runVars, walkVars, Fault
<1>2. HelmTypeOK'
  BY <1>1, WalkKept, FaultTypes, Zenon DEF HelmInv, HelmTypeOK
<1>3. PlaceInv'
  BY <1>1, WalkKept DEF HelmInv, PlaceInv, WalkSucceeded
<1>4. StageInv'
  BY <1>1, NothingUnderway DEF StageInv
<1>5. ValuesInv'
  BY <1>1 DEF HelmInv, ValuesInv, Exists, AfterWalk, BeforeWalk
<1>6. VisitedInv' /\ AgentInv'
  BY <1>1 DEF VisitedInv, AgentInv, AfterWalk
<1>7. CauseInv'
  BY <1>1, NothingUnderway DEF HelmInv, CauseInv, Cause, FailureHasCause, Stuck, Ended
<1>8. QED
  BY <1>2, <1>3, <1>4, <1>5, <1>6, <1>7 DEF HelmInv

\* Every Helm operation keeps the invariant.
LEMMA OperationInv ==
  ASSUME HelmInv, NEW n \in Release, Operation(n)
  PROVE  HelmInv'
BY PassOverInv, RefuseChartInv, LookupReleaseInv, BeginInstallInv, BeginUpgradeInv, AppliedInv,
   UndoneInv, BeginUninstallInv, EndUninstallInv DEF Operation

\* Every step keeps the invariant.
LEMMA HelmNextInv == HelmInv /\ [HelmNext]_vars => HelmInv'
<1> SUFFICES ASSUME HelmInv, [HelmNext]_vars PROVE HelmInv'
  OBVIOUS
<1>1. CASE Step
  BY <1>1, BuildImagesInv, LookupNamespaceInv, CreateNamespaceInv, WalkBeginsInv, StepWalkInv,
     WalkReturnedInv, OperationInv, RemoveNamespaceInv DEF Step
<1>2. CASE NewRun
  BY <1>2, StartRunInv DEF NewRun
<1>3. CASE World
  BY <1>3, SignalInv, KillInv, NamespaceGoneInv, OtherCreatesNamespaceInv DEF World
<1>4. CASE UNCHANGED vars
  <2>1. /\ UNCHANGED <<run, cmd, project, dryRun, clean, stage, pc, release, namespace>>
        /\ UNCHANGED walkVars /\ NoFault
        /\ UNCHANGED <<graph, direction, status, failed, phase, interrupted, faulted>>
    BY <1>4 DEF vars, runVars, clusterVars, walkVars, NoFault
  <2>2. Node' = Node
    BY <2>1 DEF Node
  <2>3. HelmTypeOK'
    BY <2>1, WalkKept, FaultTypes, Zenon DEF HelmInv, HelmTypeOK
  <2>4. PlaceInv'
    BY <2>1, WalkKept DEF HelmInv, PlaceInv, WalkSucceeded
  <2>5. StageInv' /\ ValuesInv'
    BY <2>1, <2>2 DEF HelmInv, StageInv, ValuesInv, Visiting, Deploys, Skipped, Exists
  <2>6. VisitedInv' /\ AgentInv'
    BY <2>1, <2>2 DEF HelmInv, VisitedInv, AgentInv, Exists, Current
  <2>7. CauseInv'
    BY <2>1 DEF HelmInv, CauseInv, Cause, FailureHasCause, Stuck, Exists, Ended
  <2>8. QED
    BY <2>3, <2>4, <2>5, <2>6, <2>7 DEF HelmInv
<1>5. QED
  BY <1>1, <1>2, <1>3, <1>4 DEF HelmNext, Finished

\* The invariant holds in every behaviour.
LEMMA HelmInvariance == HelmSpec => []HelmInv
  BY HelmInitInv, HelmNextInv, PTL DEF HelmSpec

\* What the walk's completeness gives the runs: a walk nobody interrupted has visited
\* every service of the project, and none of the visits failed.
LEMMA AllVisited ==
  ASSUME HelmInv, pc \in AfterWalk
  PROVE  /\ Node = DOMAIN project.deps /\ Node \subseteq Release /\ failed = {}
         /\ \A n \in Release : stage[n] = "none" \/ pc = "ngrok"
         /\ ~interrupted => \A s \in Node : status[s] \in {"visited", "returned"}
<1>1. WalkInv /\ WalkSucceeded /\ Node = DOMAIN project.deps
  BY DEF HelmInv, PlaceInv, AfterWalk, Node
<1>2. Node \subseteq Release
  BY <1>1, ServicesAreReleases DEF HelmInv
<1>3. ~interrupted => reported = Node
  BY <1>1 DEF WalkInv, WalkSucceeded
<1>4. QED
  BY <1>1, <1>2, <1>3, NothingUnderway DEF WalkInv, WalkSucceeded, AfterWalk
-----------------------------------------------------------------------------
(* Every variable stays in its type: in particular no release's status and  *)
(* no operation is one Helm does not know, and runs and faults are counted  *)
(* within their bounds.                                                     *)
THEOREM HelmTypeCorrect == HelmSpec => []HelmTypeOK
  BY HelmInvariance, PTL DEF HelmInv

(* Services go up in depends_on order and come down in reverse: in a real   *)
(* run, while no visit of its walk has failed, a service whose visit has    *)
(* begun finds every release it waits for with this run's values, or gone,  *)
(* whatever the interleaving of the visits. A failed visit ends this order. *)
THEOREM DependenciesHeld == HelmSpec => []DependenciesInPlace
<1>1. ASSUME HelmInv PROVE DependenciesInPlace
  <2> SUFFICES ASSUME pc = "walk", failed = {}, ~dryRun,
                      NEW s \in Node, status[s] \in {"running", "visited", "returned"},
                      NEW t \in Predecessors(s)
               PROVE  IF cmd = "deploy" THEN t \in project.skip \/ Current(t) ELSE ~Exists(t)
    BY DEF DependenciesInPlace
  <2>1. WalkInv
    BY <1>1 DEF HelmInv, PlaceInv
  <2>2. t \in Node
    BY <2>1 DEF WalkInv, TypeOK, Predecessors, WaitsFor, Node
  <2>3. status[t] \in {"visited", "returned"}
    BY <2>1 DEF WalkInv, Ready
  <2>4. QED
    BY <1>1, <2>2, <2>3 DEF HelmInv, VisitedInv
<1>2. QED
  BY <1>1, HelmInvariance, PTL

(* core.Deploy's nil error means what the README promises: every service    *)
(* that is not skipped runs this run's values, and the agent's release is   *)
(* there exactly when something is published. No compose service may share  *)
(* the agent's release.                                                     *)
THEOREM DeployIsDelivered ==
  ASSUME NgrokRelease \notin Service
  PROVE  HelmSpec => []DeployDelivers
<1>1. ASSUME HelmInv PROVE DeployDelivers
  <2> SUFFICES ASSUME pc = "ok", cmd = "deploy", ~dryRun
               PROVE  /\ IF project.publishes THEN Current(NgrokRelease)
                                              ELSE ~Exists(NgrokRelease)
                      /\ \A s \in DOMAIN project.deps \ project.skip :
                            IF interrupted THEN release[s].run = run => Current(s)
                                           ELSE Current(s)
    BY DEF DeployDelivers
  <2>1. IF project.publishes THEN Current(NgrokRelease) ELSE ~Exists(NgrokRelease)
    BY <1>1 DEF HelmInv, AgentInv
  <2>2. ASSUME NEW s \in DOMAIN project.deps \ project.skip
        PROVE  IF interrupted THEN release[s].run = run => Current(s) ELSE Current(s)
    <3>1. /\ s \in Node \ failed /\ s \in Release /\ stage[s] = "none"
          /\ ~interrupted => status[s] \in {"visited", "returned"}
      BY <1>1, AllVisited DEF AfterWalk
    <3>2. s # NgrokRelease
      BY <1>1 DEF HelmInv, HelmTypeOK, Service
    <3>3. status[s] \in {"visited", "returned"} => Current(s)
      BY <1>1, <3>1, <3>2 DEF HelmInv, VisitedInv, AfterWalk
    <3>4. release[s].run = run => status[s] \in {"visited", "returned"}
      <4>1. run > 0
        BY <1>1 DEF HelmInv, PlaceInv
      <4>2. release[s].run = run => Exists(s)
        BY <4>1 DEF Exists, NoRelease
      <4>3. QED
        BY <1>1, <3>1, <3>2, <4>2 DEF HelmInv, ValuesInv, AfterWalk
    <3>5. QED
      BY <3>1, <3>3, <3>4
  <2>3. QED
    BY <2>1, <2>2
<1>2. QED
  BY <1>1, HelmInvariance, PTL

(* core.Destroy's nil error: no agent, no active namespace if it was to be  *)
(* removed, and no release of the project, whatever earlier runs, failed or *)
(* killed, had left half done.                                              *)
THEOREM DestroyIsDelivered == HelmSpec => []DestroyDelivers
<1>1. ASSUME HelmInv PROVE DestroyDelivers
  <2> SUFFICES ASSUME pc = "ok", cmd = "destroy", ~dryRun
               PROVE  /\ ~Exists(NgrokRelease)
                      /\ project.removeNamespace => namespace # "active"
                      /\ ~interrupted => \A s \in DOMAIN project.deps : ~Exists(s)
    BY DEF DestroyDelivers
  <2>1. ~interrupted => \A s \in DOMAIN project.deps : ~Exists(s)
    BY <1>1, AllVisited DEF HelmInv, VisitedInv, AfterWalk
  <2>2. QED
    BY <1>1, <2>1 DEF HelmInv, AgentInv
<1>2. QED
  BY <1>1, HelmInvariance, PTL

(* A run that fails has a reason outside the code, a cycle, or, if it       *)
(* deploys, an operation that a killed run never ended. A destroy is never  *)
(* stopped by what earlier runs left.                                       *)
THEOREM FailuresHaveCauses == HelmSpec => []FailureHasCause
  BY HelmInvariance, PTL DEF HelmInv, CauseInv

(* No step of a dry run changes the namespace or a release.                 *)
THEOREM DryRunsChangeNothing == HelmSpec => DryRunChangesNothing
<1> DEFINE A == (dryRun /\ <<pc, walkVars, stage>>' # <<pc, walkVars, stage>>)
                  => UNCHANGED clusterVars
<1>1. ASSUME HelmInv, [HelmNext]_vars PROVE [A]_vars
  <2> SUFFICES ASSUME HelmNext, dryRun, <<pc, walkVars, stage>>' # <<pc, walkVars, stage>>
               PROVE  UNCHANGED clusterVars
    BY <1>1
  <2>1. ASSUME NEW n \in Release, Operation(n) PROVE UNCHANGED clusterVars
    <3>1. \A st : At(n, st) => st = "none"
      BY <1>1, UnderwayAt
    <3>2. QED
      BY <2>1, <3>1 DEF Operation, PassOver, RefuseChart, LookupRelease, BeginInstall, BeginUpgrade,
                        Applied, Undone, BeginUninstall, EndUninstall
  <2>2. CASE Step
    <3>1. ~CreateNamespace
      BY <1>1 DEF HelmInv, PlaceInv, CreateNamespace
    <3>2. QED
      BY <2>1, <2>2, <3>1 DEF Step, BuildImages, LookupNamespace, Walk, StepWalk, WalkReturned,
                              RemoveNamespace, clusterVars
  <2>3. CASE NewRun
    BY <2>3 DEF NewRun, StartRun
  <2>4. CASE World
    BY <2>4 DEF World, Signal, Kill, NamespaceGone, OtherCreatesNamespace
  <2>5. QED
    BY <2>2, <2>3, <2>4 DEF HelmNext, Finished, vars
<1>2. QED
  BY <1>1, HelmInvariance, PTL DEF HelmSpec, DryRunChangesNothing

(* The namespace goes last: no release of the project is in it any more     *)
(* when a run gives it up, and only a destroy that was told to does.        *)
THEOREM NamespaceIsLast == HelmSpec => NamespaceLast
<1> DEFINE A == (namespace' = "terminating" /\ namespace = "active") =>
                  /\ cmd = "destroy" /\ project.removeNamespace
                  /\ \A n \in DOMAIN project.deps \union {NgrokRelease} : ~Exists(n)
<1>1. ASSUME HelmInv, [HelmNext]_vars PROVE [A]_vars
  <2> SUFFICES ASSUME HelmNext, namespace' = "terminating", namespace = "active"
               PROVE  /\ cmd = "destroy" /\ project.removeNamespace
                      /\ \A n \in DOMAIN project.deps \union {NgrokRelease} : ~Exists(n)
    BY <1>1
  <2>1. ASSUME NEW n \in Release, Operation(n) PROVE FALSE
    BY <2>1 DEF Operation, PassOver, RefuseChart, LookupRelease, BeginInstall, BeginUpgrade, Applied,
                Undone, BeginUninstall, EndUninstall, SetRelease, Remove, clusterVars
  <2>2. RemoveNamespace
    BY <2>1 DEF HelmNext, Step, NewRun, World, Finished, BuildImages, LookupNamespace, CreateNamespace,
                Walk, StepWalk, WalkReturned, StartRun, Signal, Kill, NamespaceGone,
                OtherCreatesNamespace, clusterVars, vars
  <2>3. /\ pc = "removeNamespace" /\ cmd = "destroy" /\ ~interrupted /\ ~dryRun
        /\ project.removeNamespace
    BY <1>1, <2>2 DEF RemoveNamespace, HelmInv, PlaceInv
  <2>4. ~Exists(NgrokRelease)
    BY <1>1, <2>3 DEF HelmInv, AgentInv
  <2>5. \A s \in DOMAIN project.deps : ~Exists(s)
    BY <1>1, <2>3, AllVisited DEF HelmInv, VisitedInv, AfterWalk
  <2>6. QED
    BY <2>3, <2>4, <2>5
<1>2. QED
  BY <1>1, HelmInvariance, PTL DEF HelmSpec, NamespaceLast
=============================================================================
