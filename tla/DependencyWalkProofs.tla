------------------------ MODULE DependencyWalkProofs ------------------------
(***************************************************************************)
(* Proofs about DependencyWalk, for every project graph and every limit:    *)
(* the walk implements OrderedVisit, keeps to the concurrency bound, and    *)
(* leaves no service out when it succeeds.                                  *)
(***************************************************************************)
EXTENDS DependencyWalk, FiniteSetTheorems, TLAPS

\* What the walk's variables say of each other. The node a dispatcher holds is
\* claimed and not started, and the two never hold the same one; a node on the
\* channel, or taken from it, or failed, has been visited; a reader that left
\* has either taken every node or seen the context done, which only an interrupt
\* or a returned failure brings about.
WalkInv ==
    /\ TypeOK
    /\ \A d \in Dispatcher : held[d] # NoNode => status[held[d]] = "entered"
    /\ held["main"] # NoNode => held["main"] # held["reader"]
    /\ \A s \in Node : status[s] # "unvisited" => Ready(s)
    /\ \A s \in finished \union reported \union failed : status[s] \in {"visited", "returned"}
    /\ cancelled => (interrupted \/ failed # {})
    /\ (phase \in {"walking", "returned"} /\ ~reading) => (reported = Node \/ cancelled)
    /\ phase = "idle" => Node = {}
    /\ phase = "returned" => ~reading /\ \A s \in Node : status[s] \in {"unvisited", "returned"}

\* Before the first walk there is no service the invariant could fail for.
LEMMA InitInv == WalkInit => WalkInv
  BY FS_EmptySet DEF WalkInit, WalkInv, TypeOK, Node, Dispatcher, StatusKind

\* A graph of the constants starts a walk in a state of the invariant, whatever was before.
LEMMA BeginWalkInv ==
  ASSUME interrupted \in BOOLEAN, NEW g \in Graphs, NEW dir \in {"forward", "reverse"},
         BeginWalk(g, dir)
  PROVE  WalkInv'
<1>1. /\ IsFiniteSet(DOMAIN g) /\ NoNode \notin DOMAIN g
      /\ \A s \in DOMAIN g : g[s] \subseteq DOMAIN g
  BY GraphsAssumption
<1>2. Extremities(g, dir) \subseteq DOMAIN g
  BY DEF Extremities
<1>3. TypeOK'
  BY <1>1, <1>2, Zenon DEF TypeOK, BeginWalk, Node, Dispatcher, StatusKind
<1>4. QED
  BY <1>1, <1>3 DEF WalkInv, BeginWalk, Node, Dispatcher, TypeOK

\* So does a call of the walk by itself.
LEMMA CallInv ==
  ASSUME WalkInv, Call
  PROVE  WalkInv'
BY BeginWalkInv DEF Call, WalkInv, TypeOK

\* A dispatcher claims a node only when it is unvisited and its predecessors are visited,
\* so the other dispatcher does not hold it.
LEMMA OfferInv ==
  ASSUME WalkInv, NEW d \in Dispatcher, NEW s \in todo[d], Offer(d, s)
  PROVE  WalkInv'
<1> USE DEF Dispatcher
<1>1. s \in Node
  BY DEF WalkInv, TypeOK
<1>2. TypeOK'
  BY <1>1 DEF WalkInv, TypeOK, Offer, Node, StatusKind
<1>3. CASE status[s] = "unvisited" /\ Ready(s)
  <2>1. /\ status' = [status EXCEPT ![s] = "entered"]
        /\ held' = [held EXCEPT ![d] = s]
        /\ UNCHANGED <<phase, graph, direction, failed, finished, reported, reading,
                       cancelled, interrupted>>
        /\ phase = "walking" /\ held[d] = NoNode
    BY <1>3 DEF Offer
  <2>2. \A t \in Node : Predecessors(t) \subseteq Node /\ Predecessors(t)' = Predecessors(t)
    BY <2>1 DEF Predecessors, WaitsFor, Node, WalkInv, TypeOK
  <2>3. \A t \in Node : status'[t] # "unvisited" => Ready(t)'
    BY <1>1, <1>3, <2>1, <2>2 DEF WalkInv, TypeOK, Ready, Node
  <2>4. QED
    BY <1>1, <1>2, <1>3, <2>1, <2>3 DEF WalkInv, TypeOK, Node
<1>4. CASE ~(status[s] = "unvisited" /\ Ready(s))
  BY <1>2, <1>4 DEF WalkInv, Offer, Node, Ready, Predecessors
<1>5. QED
  BY <1>3, <1>4

\* A step that only moves a claimed node on keeps every predecessor visited.
LEMMA ReadyKept ==
  ASSUME WalkInv, UNCHANGED <<graph, direction>>,
         NEW t \in Node, NEW st \in {"running", "visited", "returned"},
         status' = [status EXCEPT ![t] = st],
         status[t] # "unvisited",
         status[t] \in {"visited", "returned"} => st \in {"visited", "returned"}
  PROVE  \A s \in Node' : status'[s] # "unvisited" => Ready(s)'
<1>1. Node' = Node
  BY DEF Node
<1>2. \A s \in Node : Predecessors(s) \subseteq Node /\ Predecessors(s)' = Predecessors(s)
  BY DEF Predecessors, WaitsFor, Node, WalkInv, TypeOK
<1>3. QED
  BY <1>1, <1>2 DEF WalkInv, TypeOK, Ready

\* A started node was claimed, and its dispatcher lets go of it.
LEMMA StartInv ==
  ASSUME WalkInv, NEW d \in Dispatcher, Start(d)
  PROVE  WalkInv'
<1> USE DEF Dispatcher
<1>1. held[d] \in Node /\ status[held[d]] = "entered"
  BY DEF WalkInv, TypeOK, Start
<1>2. TypeOK'
  BY <1>1 DEF WalkInv, TypeOK, Start, Node, StatusKind
<1>3. \A s \in Node' : status'[s] # "unvisited" => Ready(s)'
  BY <1>1, ReadyKept DEF Start
<1>4. QED
  BY <1>1, <1>2, <1>3 DEF WalkInv, TypeOK, Start, Node

\* A visitor that returns puts its own node on the channel, failed or not.
LEMMA FinishInv ==
  ASSUME WalkInv, NEW s \in Node, NEW ok \in BOOLEAN, Finish(s, ok)
  PROVE  WalkInv'
<1> USE DEF Dispatcher
<1>1. TypeOK'
  BY DEF WalkInv, TypeOK, Finish, Node, StatusKind
<1>2. \A t \in Node' : status'[t] # "unvisited" => Ready(t)'
  BY ReadyKept DEF Finish
<1>3. QED
  BY <1>1, <1>2 DEF WalkInv, TypeOK, Finish, Node

\* Only a failed visitor cancels the context.
LEMMA ReturnInv ==
  ASSUME WalkInv, NEW s \in Node, Return(s)
  PROVE  WalkInv'
<1> USE DEF Dispatcher
<1>1. TypeOK'
  BY DEF WalkInv, TypeOK, Return, Node, StatusKind
<1>2. \A t \in Node' : status'[t] # "unvisited" => Ready(t)'
  BY ReadyKept DEF Return
<1>3. QED
  BY <1>1, <1>2 DEF WalkInv, TypeOK, Return, Node

\* The reader leaves when every node has been reported.
LEMMA ReceiveInv ==
  ASSUME WalkInv, NEW s \in Node, Receive(s)
  PROVE  WalkInv'
<1> USE DEF Dispatcher
<1>1. Successors(s) \subseteq Node
  BY DEF Successors
<1>2. TypeOK'
  BY <1>1 DEF WalkInv, TypeOK, Receive, Node, StatusKind
<1>3. \A t \in Node' : status'[t] # "unvisited" => Ready(t)'
  BY DEF WalkInv, Receive, Ready, Predecessors, Node
<1>4. QED
  BY <1>2, <1>3 DEF WalkInv, TypeOK, Receive, Selecting, Node

\* The steps that touch no node: the reader leaving, the end, an interrupt, a stutter.
LEMMA QuietInv ==
  ASSUME WalkInv, StopReading \/ EndWalk \/ Interrupt \/ UNCHANGED walkVars
  PROVE  WalkInv'
<1>1. UNCHANGED <<graph, direction, status, failed, finished, reported, todo, held>>
  BY DEF StopReading, EndWalk, Interrupt, walkVars
<1>2. TypeOK'
  BY <1>1 DEF WalkInv, TypeOK, StopReading, EndWalk, Interrupt, walkVars, Node
<1>3. \A s \in Node' : status'[s] # "unvisited" => Ready(s)'
  BY <1>1 DEF WalkInv, Ready, Predecessors, Node
<1>4. QED
  BY <1>1, <1>2, <1>3 DEF WalkInv, StopReading, EndWalk, Interrupt, walkVars, Node

\* Every step keeps the invariant.
LEMMA NextInv == WalkInv /\ [Next]_walkVars => WalkInv'
<1> SUFFICES ASSUME WalkInv, [Next]_walkVars PROVE WalkInv'
  OBVIOUS
<1>1. CASE Call
  BY <1>1, CallInv
<1>2. CASE WalkStep
  BY <1>2, OfferInv, StartInv, ReturnInv, ReceiveInv, QuietInv DEF WalkStep
<1>3. CASE Visitor
  BY <1>3, FinishInv DEF Visitor
<1>4. CASE (phase = "walking" /\ Interrupt) \/ Done \/ UNCHANGED walkVars
  BY <1>4, QuietInv DEF Done
<1>5. QED
  BY <1>1, <1>2, <1>3, <1>4 DEF Next

\* The invariant holds in every behaviour.
LEMMA Invariance == Spec => []WalkInv
  BY InitInv, NextInv, PTL DEF Spec
-----------------------------------------------------------------------------
(* Every variable stays in its type, in particular every node a dispatcher  *)
(* offers or holds belongs to the project being walked.                     *)
THEOREM TypeCorrect == Spec => []TypeOK
<1>1. WalkInv => TypeOK
  BY DEF WalkInv
<1>2. QED
  BY <1>1, Invariance, PTL

(* deployInDependencyOrder returning nil, uninterrupted, means that every   *)
(* service of the project was visited to its end.                           *)
THEOREM Completeness == Spec => []CompleteWhenSuccessful
<1>1. WalkInv => CompleteWhenSuccessful
  BY DEF WalkInv, TypeOK, CompleteWhenSuccessful, WalkSucceeded
<1>2. QED
  BY <1>1, Invariance, PTL
-----------------------------------------------------------------------------
\* The workers of a walk can be counted.
LEMMA WorkersFinite ==
  ASSUME TypeOK
  PROVE  IsFiniteSet(Workers) /\ Cardinality(Workers) \in Nat
BY FS_Subset, FS_CardinalityType DEF Workers, TypeOK

\* A step that starts no worker, brings in no reader and keeps the graph keeps the bound.
LEMMA NoWorkerAdded ==
  ASSUME TypeOK, ConcurrencyBound, Workers' \subseteq Workers,
         reading' \in BOOLEAN, reading' => reading
  PROVE  ConcurrencyBound'
<1>1. /\ Cardinality(Workers) \in Nat /\ Cardinality(Workers') \in Nat
      /\ Cardinality(Workers') <= Cardinality(Workers)
  BY WorkersFinite, FS_Subset, FS_CardinalityType
<1>2. Cardinality(Workers)' = Cardinality(Workers')
  OBVIOUS
<1>3. QED
  BY <1>1, <1>2, ConcurrencyAssumption DEF ConcurrencyBound, TypeOK

\* A worker starts only in a free slot.
LEMMA StartBound ==
  ASSUME WalkInv, ConcurrencyBound, NEW d \in Dispatcher, Start(d)
  PROVE  ConcurrencyBound'
<1>1. held[d] \in Node
  BY DEF Start, WalkInv, TypeOK
<1>2. Workers' = Workers \union {held[d]}
  BY <1>1 DEF Workers, Start, Node, WalkInv, TypeOK
<1>3. Cardinality(Workers') \in Nat /\ Cardinality(Workers') <= Cardinality(Workers) + 1
  <2>1. IsFiniteSet(Workers) /\ Cardinality(Workers) \in Nat
    BY WorkersFinite DEF WalkInv
  <2>2. Cardinality(Workers \union {held[d]})
          = IF held[d] \in Workers THEN Cardinality(Workers) ELSE Cardinality(Workers) + 1
    BY <2>1, FS_AddElement
  <2>3. QED
    BY <1>2, <2>1, <2>2
<1>4. QED
  BY <1>3, WorkersFinite, ConcurrencyAssumption
     DEF ConcurrencyBound, Start, SlotFree, WalkInv, TypeOK

\* No step takes the workers over the limit.
LEMMA NextBound ==
  ASSUME WalkInv, ConcurrencyBound, [Next]_walkVars
  PROVE  ConcurrencyBound'
<1>0. TypeOK
  BY DEF WalkInv
<1>1. CASE Call
  <2>1. PICK g \in Graphs, dir \in {"forward", "reverse"} : BeginWalk(g, dir)
    BY <1>1 DEF Call
  <2>2. Workers' = {}
    BY <2>1 DEF Workers, BeginWalk, Node
  <2>3. Cardinality(Workers') = 0 /\ reading' \in BOOLEAN
    BY <2>1, <2>2, FS_EmptySet DEF BeginWalk
  <2>4. QED
    BY <2>3, ConcurrencyAssumption DEF ConcurrencyBound
<1>2. CASE \E d \in Dispatcher : Start(d)
  BY <1>2, StartBound
<1>3. CASE \/ \E d \in Dispatcher, s \in Node : s \in todo[d] /\ Offer(d, s)
           \/ \E s \in Node : Return(s) \/ Receive(s) \/ Finish(s, TRUE) \/ Finish(s, FALSE)
           \/ StopReading \/ EndWalk \/ Interrupt \/ UNCHANGED walkVars
  <2>1. Workers' \subseteq Workers
    BY <1>0, <1>3 DEF Workers, Node, TypeOK, Offer, Return, Receive, Finish, StopReading, EndWalk,
                Interrupt, walkVars
  <2>2. reading' \in BOOLEAN /\ (reading' => reading)
    <3>1. CASE \E s \in Node : Receive(s)
      <4>1. reading /\ reading' = (reported' # Node)
        BY <3>1 DEF Receive, Selecting
      <4>2. QED
        BY <4>1, Zenon
    <3>2. CASE reading' = reading
      <4>1. reading \in BOOLEAN
        BY <1>0 DEF TypeOK
      <4>2. QED
        BY <3>2, <4>1
    <3>3. CASE StopReading
      BY <3>3 DEF StopReading
    <3>4. QED
      BY <1>3, <3>1, <3>2, <3>3 DEF Offer, Return, Finish, EndWalk, Interrupt, walkVars
  <2>3. QED
    BY <1>0, <2>1, <2>2, NoWorkerAdded
<1>4. QED
  <2>1. \A d \in Dispatcher : \A s \in todo[d] : s \in Node
    BY <1>0 DEF TypeOK
  <2>2. QED
    BY <1>1, <1>2, <1>3, <2>1 DEF Next, WalkStep, Visitor, Done

(* At most maxDeployConcurrency releases are in flight, one more once the   *)
(* reader has left the group (helm.go:33).                                  *)
THEOREM BoundKept == Spec => []ConcurrencyBound
<1>1. WalkInit => ConcurrencyBound
  <2>1. WalkInit => Workers = {} /\ reading = FALSE
    BY DEF WalkInit, Workers, Node
  <2>2. QED
    BY <2>1, FS_EmptySet, ConcurrencyAssumption DEF ConcurrencyBound
<1>2. WalkInv /\ ConcurrencyBound /\ [Next]_walkVars => ConcurrencyBound'
  BY NextBound
<1>3. QED
  BY <1>1, <1>2, Invariance, PTL DEF Spec
-----------------------------------------------------------------------------
(* The walk implements OrderedVisit: in either direction no service is      *)
(* visited twice, or before all it waits for has been visited to its end.   *)
Waits == WaitsFor(graph, direction)
BeganVisits == {s \in Node : status[s] \in {"running", "visited", "returned"}}
EndedVisits == {s \in Node : status[s] \in {"visited", "returned"}}

\* Before the first walk nothing waits, has begun or has ended.
LEMMA OrderInit == WalkInit => Order!Init
BY DEF WalkInit, Order!Init, Order!Nothing, WaitsFor, Node

\* Handing over a project begins and ends no visit.
LEMMA OrderCall ==
  ASSUME WalkInv, Call
  PROVE  Order!Next
<1>1. PICK g \in Graphs, dir \in {"forward", "reverse"} : BeginWalk(g, dir)
  BY DEF Call
<1>2. Node = {}
  BY DEF Call, WalkInv
<1>3. Waits = Order!Nothing /\ BeganVisits = {} /\ EndedVisits = {}
  BY <1>2 DEF Waits, BeganVisits, EndedVisits, Order!Nothing, WaitsFor, Node
<1>4. BeganVisits' = {} /\ EndedVisits' = {}
  BY <1>1 DEF BeganVisits, EndedVisits, BeginWalk, Node
<1>5. \A s \in DOMAIN Waits' : Waits'[s] \subseteq DOMAIN Waits'
  BY <1>1, GraphsAssumption DEF Waits, BeginWalk, WaitsFor
<1>6. QED
  BY <1>3, <1>4, <1>5 DEF Order!Next, Order!Accept, Waits, BeganVisits, EndedVisits

\* A visit begins when everything its service waits for has ended.
LEMMA OrderStart ==
  ASSUME WalkInv, NEW d \in Dispatcher, Start(d)
  PROVE  Order!Next
<1> DEFINE s == held[d]
<1>1. s \in Node /\ status[s] = "entered"
  BY DEF Start, WalkInv, TypeOK
<1>2. s \notin BeganVisits /\ Waits[s] \subseteq EndedVisits
  BY <1>1 DEF BeganVisits, EndedVisits, Waits, WalkInv, TypeOK, Ready, Predecessors, WaitsFor, Node
<1>3. BeganVisits' = BeganVisits \union {s} /\ EndedVisits' = EndedVisits /\ Waits' = Waits
  BY <1>1 DEF BeganVisits, EndedVisits, Waits, Start, Node, WalkInv, TypeOK
<1>4. s \in DOMAIN Waits
  BY <1>1 DEF Waits, WaitsFor, Node
<1>5. QED
  BY <1>2, <1>3, <1>4 DEF Order!Next, Order!Begin, Waits, BeganVisits, EndedVisits

\* A visitor's return ends a visit that had begun.
LEMMA OrderFinish ==
  ASSUME WalkInv, NEW s \in Node, NEW ok \in BOOLEAN, Finish(s, ok)
  PROVE  Order!Next
<1>1. s \in BeganVisits \ EndedVisits
  BY DEF BeganVisits, EndedVisits, Finish
<1>2. EndedVisits' = EndedVisits \union {s} /\ BeganVisits' = BeganVisits /\ Waits' = Waits
  BY DEF BeganVisits, EndedVisits, Waits, Finish, Node, WalkInv, TypeOK
<1>3. s \in DOMAIN Waits
  BY DEF Waits, WaitsFor, Node
<1>4. QED
  BY <1>1, <1>2, <1>3 DEF Order!Next, Order!End, Waits, BeganVisits, EndedVisits

\* The goroutines' other steps begin and end no visit.
LEMMA OrderStutter ==
  ASSUME WalkInv,
         \/ \E d \in Dispatcher, s \in Node : s \in todo[d] /\ Offer(d, s)
         \/ \E s \in Node : Return(s) \/ Receive(s)
         \/ StopReading \/ EndWalk \/ Interrupt \/ UNCHANGED walkVars
  PROVE  UNCHANGED Order!vars
<1>1. UNCHANGED <<graph, direction>>
  BY DEF Offer, Return, Receive, StopReading, EndWalk, Interrupt, walkVars
<1>2. BeganVisits' = BeganVisits /\ EndedVisits' = EndedVisits
  BY DEF BeganVisits, EndedVisits, Node, WalkInv, TypeOK, Offer, Return, Receive, StopReading, EndWalk,
         Interrupt, walkVars
<1>3. Waits' = Waits
  BY <1>1 DEF Waits
<1>4. QED
  BY <1>2, <1>3 DEF Order!vars, Waits, BeganVisits, EndedVisits

\* Every step of the walk is a step of OrderedVisit or none.
LEMMA OrderStep == WalkInv /\ [Next]_walkVars => [Order!Next]_(Order!vars)
<1> SUFFICES ASSUME WalkInv, [Next]_walkVars PROVE Order!Next \/ UNCHANGED Order!vars
  OBVIOUS
<1>1. \A d \in Dispatcher : \A s \in todo[d] : s \in Node
  BY DEF WalkInv, TypeOK
<1>2. QED
  BY <1>1, OrderCall, OrderStart, OrderFinish, OrderStutter
     DEF Next, WalkStep, Visitor, Done

(* InDependencyOrder as helm.go:367-418 calls it, with any interleaving of  *)
(* its goroutines, implements OrderedVisit in both directions.              *)
THEOREM WalkImplementsOrder == Spec => OrderSpec
<1>1. QED
  BY OrderInit, OrderStep, Invariance, PTL DEF Spec, OrderSpec, Order!Spec
-----------------------------------------------------------------------------
\* What the dispatchers have left to offer: the main one only nodes that wait for
\* nothing, and the reader none once it has stopped.
LeftToOffer ==
    /\ \A s \in todo["main"] : Predecessors(s) = {}
    /\ phase = "walking" /\ ~reading => todo["reader"] = {}

\* A walk starts with its extremities in the hands of the main dispatcher.
LEMMA CallLeft ==
  ASSUME WalkInv, Call
  PROVE  LeftToOffer'
<1>1. PICK g \in Graphs, dir \in {"forward", "reverse"} : BeginWalk(g, dir)
  BY DEF Call
<1> DEFINE walks == ~HasCycle(g) /\ DOMAIN g # {}
<1>2. /\ graph' = g /\ direction' = dir /\ reading' = walks
      /\ todo' = [d \in Dispatcher |-> IF walks /\ d = "main" THEN Extremities(g, dir) ELSE {}]
  BY <1>1 DEF BeginWalk
<1>3. todo'["main"] \subseteq Extremities(g, dir) /\ todo'["reader"] = {}
  BY <1>2 DEF Dispatcher
<1>4. \A s \in Extremities(g, dir) : WaitsFor(graph', direction')[s] = {}
  BY <1>2 DEF Extremities
<1> QED BY <1>3, <1>4 DEF LeftToOffer, Predecessors

\* Only the reader's own steps hand it nodes or stop it, and it stops with none left.
LEMMA StepLeft ==
  ASSUME WalkInv, LeftToOffer, phase = "walking", WalkStep \/ Visitor \/ Interrupt
  PROVE  LeftToOffer'
<1> USE DEF Dispatcher
<1>1. /\ todo \in [Dispatcher -> SUBSET Node]
      /\ \A s \in todo["main"] : Predecessors(s) = {}
      /\ ~reading => todo["reader"] = {}
  BY DEF WalkInv, TypeOK, LeftToOffer
<1>2. UNCHANGED <<graph, direction>>
  BY DEF WalkStep, Visitor, Start, Offer, Return, Receive, StopReading, EndWalk, Finish, Interrupt
<1>3. \A s : Predecessors(s)' = Predecessors(s)
  BY <1>2 DEF Predecessors
<1>4. todo'["main"] \subseteq todo["main"] /\ (~reading' => todo'["reader"] = {})
  <2>1. CASE \E d \in Dispatcher : \E s \in todo[d] : Offer(d, s)
    BY <1>1, <2>1 DEF Offer
  <2>2. CASE \E s \in Node : Receive(s)
    BY <1>1, <2>2 DEF Receive
  <2>3. CASE StopReading
    BY <1>1, <2>3 DEF StopReading, Selecting
  <2>4. CASE \/ \E d \in Dispatcher : Start(d)
             \/ \E s \in Node : Return(s)
             \/ EndWalk \/ Visitor \/ Interrupt
    BY <1>1, <2>4 DEF Start, Return, EndWalk, Visitor, Finish, Interrupt
  <2> QED BY <2>1, <2>2, <2>3, <2>4 DEF WalkStep
<1> QED BY <1>1, <1>3, <1>4 DEF LeftToOffer

\* A node that is claimed was offered by one of the dispatchers.
LEMMA ClaimsAreOffers ==
  ASSUME WalkInv, LeftToOffer, [Next]_walkVars, phase = "walking", ~reading,
         NEW s \in Node, status[s] = "unvisited", status'[s] # "unvisited"
  PROVE  Predecessors(s) = {}
<1> USE DEF Dispatcher
<1>1. /\ todo \in [Dispatcher -> SUBSET Node] /\ held \in [Dispatcher -> Node \union {NoNode}]
      /\ status \in [Node -> StatusKind]
      /\ \A d \in Dispatcher : held[d] # NoNode => status[held[d]] = "entered"
  BY DEF WalkInv, TypeOK
<1>2. ~Call /\ ~Done
  BY DEF Call, Done
<1>3. CASE \E d \in Dispatcher : \E t \in todo[d] : Offer(d, t)
  <2>1. PICK d \in Dispatcher : \E t \in todo[d] : Offer(d, t)
    BY <1>3
  <2>2. PICK t \in todo[d] : Offer(d, t)
    BY <2>1
  <2>3. t = s
    BY <1>1, <2>2 DEF Offer
  <2>4. d = "main"
    BY <2>2 DEF LeftToOffer
  <2> QED BY <2>2, <2>3, <2>4 DEF LeftToOffer
<1>4. CASE \E d \in Dispatcher : Start(d)
  BY <1>1, <1>4 DEF Start
<1>5. CASE \E t \in Node : Return(t) \/ Receive(t)
  BY <1>1, <1>5 DEF Return, Receive
<1>6. CASE Visitor
  BY <1>1, <1>6 DEF Visitor, Finish
<1>7. CASE StopReading \/ EndWalk \/ Interrupt \/ UNCHANGED walkVars
  BY <1>7 DEF StopReading, EndWalk, Interrupt, walkVars
<1> QED BY <1>2, <1>3, <1>4, <1>5, <1>6, <1>7 DEF Next, WalkStep

\* The invariant of what is left to offer, on top of the walk's.
LEMMA LeftInvariance == Spec => [](WalkInv /\ LeftToOffer)
<1>1. WalkInit => LeftToOffer
  BY DEF WalkInit, LeftToOffer, Dispatcher
<1>2. WalkInv /\ LeftToOffer /\ [Next]_walkVars => LeftToOffer'
  <2> SUFFICES ASSUME WalkInv, LeftToOffer, [Next]_walkVars PROVE LeftToOffer'
    OBVIOUS
  <2>1. CASE UNCHANGED walkVars
    BY <2>1 DEF LeftToOffer, Predecessors, walkVars
  <2>2. CASE Done
    BY <2>2 DEF Done, LeftToOffer, Predecessors, walkVars
  <2>3. CASE WalkStep \/ Visitor
    <3>1. phase = "walking"
      BY <2>3 DEF WalkStep, Visitor, Start, Offer, Return, Receive, StopReading, EndWalk, Finish
    <3> QED BY <2>3, <3>1, StepLeft
  <2> QED BY <2>1, <2>2, <2>3, CallLeft, StepLeft DEF Next
<1> QED BY <1>1, <1>2, Invariance, PTL DEF Spec

\* Once the reader of InDependencyOrder has left, the walk claims no service that waits
\* for another: a failed or interrupted walk goes on with independent services only.
THEOREM CancelEndsClaims == Spec => CancelStopsSuccessors
<1>1. WalkInv /\ LeftToOffer /\ [Next]_walkVars
        => [\A s \in Node :
              (phase = "walking" /\ ~reading /\ status[s] = "unvisited" /\ status'[s] # "unvisited")
                => Predecessors(s) = {}]_walkVars
  BY ClaimsAreOffers
<1> QED BY <1>1, LeftInvariance, PTL DEF Spec, CancelStopsSuccessors
=============================================================================
