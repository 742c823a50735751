--------------------------- MODULE DependencyWalk ---------------------------
(***************************************************************************)
(* The concurrent walk over the depends_on graph that helm.go drives to     *)
(* deploy a project (dependencies first) and to destroy it (dependents      *)
(* first). deployInDependencyOrder and destroyInReverseDependencyOrder hand *)
(* compose-go's graph package the project, a visitor, a direction and a     *)
(* concurrency limit; the goroutines below are that package's. The package  *)
(* is outside src/ and is modelled from how helm.go and deploy_test.go use  *)
(* it, so those definitions are marked external in the map.                 *)
(*                                                                          *)
(* One goroutine, main, offers the nodes that wait for nothing; another,    *)
(* the reader, takes finished nodes off a channel and offers the nodes next *)
(* to them. Either may claim a node and then block until a slot is free. A  *)
(* worker runs the visitor, marks its node visited and puts it on the       *)
(* channel, and only then returns its error, which cancels the context: the *)
(* reader may dispatch the node's successors in between.                    *)
(***************************************************************************)
EXTENDS Integers, FiniteSets

CONSTANTS
    Graphs,           \* the projects: a graph maps each service to those it depends on
    MaxConcurrency,   \* maxDeployConcurrency
    NoNode            \* held by a dispatcher that is not blocked on a slot

\* The loader drops a dependency on an undefined service or refuses the project,
\* so a graph never leaves its own services.
ASSUME GraphsAssumption ==
    \A g \in Graphs :
        /\ IsFiniteSet(DOMAIN g)
        /\ NoNode \notin DOMAIN g
        /\ \A s \in DOMAIN g : g[s] \subseteq DOMAIN g

ASSUME ConcurrencyAssumption == MaxConcurrency \in Nat \ {0}

Dispatcher == {"main", "reader"}

VARIABLES
    phase,        \* "idle", "walking", "rejected" (a cycle) or "returned"
    graph,        \* the depends_on graph of the walk's project
    direction,    \* "forward" to deploy, "reverse" to destroy
    status,       \* status[s]: how far the visit of s has come
    failed,       \* the services whose visitor returned an error
    finished,     \* visited services on the channel, not yet taken by the reader
    reported,     \* visited services the reader has taken (its countdown's complement)
    todo,         \* todo[d]: nodes dispatcher d has still to offer
    held,         \* held[d]: the node d has claimed and waits to start
    reading,      \* the reader goroutine is running, and occupies a slot
    cancelled,    \* the walk's context is done
    interrupted   \* the caller's context is done: SIGINT or SIGTERM

walkVars == <<phase, graph, direction, status, failed, finished, reported,
              todo, held, reading, cancelled, interrupted>>

-----------------------------------------------------------------------------
Node == DOMAIN graph

WaitsFor(g, dir) ==
    [s \in DOMAIN g |-> IF dir = "forward" THEN g[s]
                                           ELSE {t \in DOMAIN g : s \in g[t]}]

Predecessors(s) == WaitsFor(graph, direction)[s]

Workers == {s \in Node : status[s] \in {"running", "visited"}}

\* Mutants: one follows the walk's direction only when deploying; a dispatcher is
\* handed the whole project; a predecessor counts as soon as its visitor runs; the
\* limit is one too high.
SuccessorsForward(s) == {t \in Node : s \in graph[t]}
ExtremitiesAll(g, dir) == DOMAIN g
ReadyWhenRunning(s) ==
    \A t \in Predecessors(s) : status[t] \in {"running", "visited", "returned"}
SlotFreeOneMore == Cardinality(Workers) + (IF reading THEN 1 ELSE 0) <= MaxConcurrency + 1

Successors(s) == {t \in Node : s \in Predecessors(t)}

Extremities(g, dir) == {s \in DOMAIN g : WaitsFor(g, dir)[s] = {}}

\* A set of services each of which depends on another of the set.
HasCycle(g) ==
    \E S \in SUBSET DOMAIN g : S # {} /\ \A s \in S : g[s] \intersect S # {}

Ready(s) == \A t \in Predecessors(s) : status[t] \in {"visited", "returned"}

\* errgroup.SetLimit(maxConcurrency + 1): the reader is one of the group.
SlotFree == Cardinality(Workers) + (IF reading THEN 1 ELSE 0) <= MaxConcurrency

Selecting == reading /\ todo["reader"] = {} /\ held["reader"] = NoNode

-----------------------------------------------------------------------------
WalkInit ==
    /\ phase = "idle"
    /\ graph = [s \in {} |-> {}]
    /\ direction = "forward"
    /\ status = [s \in {} |-> "unvisited"]
    /\ failed = {} /\ finished = {} /\ reported = {}
    /\ todo = [d \in Dispatcher |-> {}]
    /\ held = [d \in Dispatcher |-> NoNode]
    /\ reading = FALSE /\ cancelled = FALSE /\ interrupted = FALSE

\* Mutant of BeginWalk: the statuses of an earlier walk are kept.
BeginWalkKeepsStatus(g, dir) ==
    LET walks == ~HasCycle(g) /\ DOMAIN g # {} IN
    /\ phase' = IF HasCycle(g) THEN "rejected" ELSE IF walks THEN "walking" ELSE "returned"
    /\ graph' = g /\ direction' = dir /\ reading' = walks /\ cancelled' = interrupted
    /\ todo' = [d \in Dispatcher |-> IF walks /\ d = "main" THEN Extremities(g, dir) ELSE {}]
    /\ held' = [d \in Dispatcher |-> NoNode]
    /\ failed' = {} /\ finished' = {} /\ reported' = {}
    /\ UNCHANGED <<status, interrupted>>

\* checkDependencyGraph, then InDependencyOrder: a cycle is refused before any
\* service is visited, and a project without services has nothing to walk.
BeginWalk(g, dir) ==
    LET walks == ~HasCycle(g) /\ DOMAIN g # {} IN
    /\ phase' = IF HasCycle(g) THEN "rejected"
                ELSE IF walks THEN "walking" ELSE "returned"
    /\ graph' = g
    /\ direction' = dir
    /\ status' = [s \in DOMAIN g |-> "unvisited"]
    /\ failed' = {} /\ finished' = {} /\ reported' = {}
    /\ todo' = [d \in Dispatcher |-> IF walks /\ d = "main" THEN Extremities(g, dir)
                                                            ELSE {}]
    /\ held' = [d \in Dispatcher |-> NoNode]
    /\ reading' = walks
    /\ cancelled' = interrupted
    /\ UNCHANGED interrupted

\* A dispatcher offers a node: it is claimed if its predecessors are all visited
\* and nobody claimed it before.
Offer(d, s) ==
    LET claims == status[s] = "unvisited" /\ Ready(s) IN
    /\ phase = "walking"
    /\ held[d] = NoNode
    /\ s \in todo[d]
    /\ todo' = [todo EXCEPT ![d] = @ \ {s}]
    /\ status' = IF claims THEN [status EXCEPT ![s] = "entered"] ELSE status
    /\ held' = IF claims THEN [held EXCEPT ![d] = s] ELSE held
    /\ UNCHANGED <<phase, graph, direction, failed, finished, reported, reading,
                   cancelled, interrupted>>

\* A slot is free: the claimed node's worker starts. The context is not looked at.
Start(d) ==
    /\ phase = "walking"
    /\ held[d] # NoNode
    /\ SlotFree
    /\ status' = [status EXCEPT ![held[d]] = "running"]
    /\ held' = [held EXCEPT ![d] = NoNode]
    /\ UNCHANGED <<phase, graph, direction, failed, finished, reported, todo,
                   reading, cancelled, interrupted>>

\* The visitor returns. Visited and on the channel, whether or not it failed.
Finish(s, ok) ==
    /\ phase = "walking"
    /\ status[s] = "running"
    /\ status' = [status EXCEPT ![s] = "visited"]
    /\ finished' = finished \union {s}
    /\ failed' = IF ok THEN failed ELSE failed \union {s}
    /\ UNCHANGED <<phase, graph, direction, reported, todo, held, reading,
                   cancelled, interrupted>>

\* The worker hands its error to the group, which cancels the context, and
\* gives up its slot.
Return(s) ==
    /\ phase = "walking"
    /\ status[s] = "visited"
    /\ status' = [status EXCEPT ![s] = "returned"]
    /\ cancelled' = (cancelled \/ s \in failed)
    /\ UNCHANGED <<phase, graph, direction, failed, finished, reported, todo,
                   held, reading, interrupted>>

\* The reader takes a finished node; the last one ends it.
Receive(s) ==
    /\ phase = "walking"
    /\ Selecting
    /\ s \in finished
    /\ finished' = finished \ {s}
    /\ reported' = reported \union {s}
    /\ reading' = (reported' # Node)
    /\ todo' = [todo EXCEPT !["reader"] = IF reading' THEN Successors(s) ELSE {}]
    /\ UNCHANGED <<phase, graph, direction, status, failed, held, cancelled,
                   interrupted>>

\* The reader's select sees the context done, even with nodes on the channel.
StopReading ==
    /\ phase = "walking"
    /\ Selecting
    /\ cancelled
    /\ reading' = FALSE
    /\ UNCHANGED <<phase, graph, direction, status, failed, finished, reported,
                   todo, held, cancelled, interrupted>>

\* The group's Wait: nothing left to offer, no worker, no reader.
EndWalk ==
    /\ phase = "walking"
    /\ todo["main"] = {} /\ held["main"] = NoNode
    /\ ~reading
    /\ \A s \in Node : status[s] \in {"unvisited", "returned"}
    /\ phase' = "returned"
    /\ UNCHANGED <<graph, direction, status, failed, finished, reported, todo,
                   held, reading, cancelled, interrupted>>

\* root.go's signal context, from which the walk's is derived.
Interrupt ==
    /\ ~interrupted
    /\ interrupted' = TRUE
    /\ cancelled' = TRUE
    /\ UNCHANGED <<phase, graph, direction, status, failed, finished, reported,
                   todo, held, reading>>

\* Mutant of WalkSucceeded: the visitors' errors are not returned.
WalkSucceededAnyway == phase = "returned"

WalkSucceeded == phase = "returned" /\ failed = {}

-----------------------------------------------------------------------------
Call == phase = "idle" /\ \E g \in Graphs, dir \in {"forward", "reverse"} : BeginWalk(g, dir)

\* Steps the group takes by itself.
WalkStep ==
    \/ \E d \in Dispatcher : Start(d) \/ \E s \in todo[d] : Offer(d, s)
    \/ \E s \in Node : Return(s) \/ Receive(s)
    \/ StopReading
    \/ EndWalk

Visitor == \E s \in Node, ok \in BOOLEAN : Finish(s, ok)

Done == phase \in {"rejected", "returned"} /\ UNCHANGED walkVars

Next == Call \/ WalkStep \/ Visitor \/ (phase = "walking" /\ Interrupt) \/ Done

\* Goroutines are scheduled fairly and every visitor returns: helm.go gives each
\* release a timeout. The interrupt and the call are the user's and may never come.
Spec == WalkInit /\ [][Next]_walkVars /\ WF_walkVars(WalkStep) /\ WF_walkVars(Visitor)

-----------------------------------------------------------------------------
StatusKind == {"unvisited", "entered", "running", "visited", "returned"}

TypeOK ==
    /\ phase \in {"idle", "walking", "rejected", "returned"}
    /\ IsFiniteSet(Node) /\ NoNode \notin Node
    /\ \A s \in Node : graph[s] \subseteq Node
    /\ direction \in {"forward", "reverse"}
    /\ status \in [Node -> StatusKind]
    /\ failed \subseteq Node /\ finished \subseteq Node /\ reported \subseteq Node
    /\ todo \in [Dispatcher -> SUBSET Node]
    /\ held \in [Dispatcher -> Node \union {NoNode}]
    /\ reading \in BOOLEAN /\ cancelled \in BOOLEAN /\ interrupted \in BOOLEAN

\* A walk that returns without an error, and that nobody interrupted, visited
\* every service to its end: none is lost between the two dispatchers, whichever
\* of them finds it ready first.
CompleteWhenSuccessful ==
    (WalkSucceeded /\ ~interrupted) => \A s \in Node : status[s] = "returned"

\* At most MaxConcurrency releases are in flight. Once the reader has left the
\* group its slot can be used too, by the dispatcher that never looks at the context.
ConcurrencyBound ==
    Cardinality(Workers) <= MaxConcurrency + (IF reading THEN 0 ELSE 1)

\* Once the reader has seen the cancelled context no service that waits for
\* another is claimed any more.
CancelStopsSuccessors ==
    [][\A s \in Node :
        (phase = "walking" /\ ~reading /\ status[s] = "unvisited" /\ status'[s] # "unvisited")
            => Predecessors(s) = {}]_walkVars

\* The order OrderedVisit promises, in both directions and under any interleaving.
Order == INSTANCE OrderedVisit WITH
    waits <- WaitsFor(graph, direction),
    began <- {s \in Node : status[s] \in {"running", "visited", "returned"}},
    ended <- {s \in Node : status[s] \in {"visited", "returned"}}

OrderSpec == Order!Spec

\* A walk that was started comes to its end: no dispatcher waits for a slot or for
\* a node that never comes.
Terminates == (phase = "walking") ~> (phase = "returned")
=============================================================================
