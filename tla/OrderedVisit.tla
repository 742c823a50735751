---------------------------- MODULE OrderedVisit ----------------------------
(***************************************************************************)
(* What deployInDependencyOrder and destroyInReverseDependencyOrder promise *)
(* of a walk over a compose project, whatever its concurrency: a service is *)
(* visited at most once, and only after every service it waits for has been *)
(* visited to its end. Which services are visited at all is left open: a    *)
(* failure or an interrupt may stop the walk anywhere.                      *)
(***************************************************************************)
VARIABLES
    waits,   \* waits[s]: the services whose visits must end before s is visited
    began,   \* the services whose visit has begun
    ended    \* the services whose visit has ended, in success or in error

vars == <<waits, began, ended>>

Nothing == [s \in {} |-> {}]

Init ==
    /\ waits = Nothing
    /\ began = {}
    /\ ended = {}

\* The walk is handed an acyclic project; one it refuses leaves nothing to do.
Accept ==
    /\ waits = Nothing
    /\ \A s \in DOMAIN waits' : waits'[s] \subseteq DOMAIN waits'
    /\ UNCHANGED <<began, ended>>

Begin(s) ==
    /\ s \notin began
    /\ waits[s] \subseteq ended
    /\ began' = began \union {s}
    /\ UNCHANGED <<waits, ended>>

End(s) ==
    /\ s \in began \ ended
    /\ ended' = ended \union {s}
    /\ UNCHANGED <<waits, began>>

Next == Accept \/ \E s \in DOMAIN waits : Begin(s) \/ End(s)

Spec == Init /\ [][Next]_vars
=============================================================================
