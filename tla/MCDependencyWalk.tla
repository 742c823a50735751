-------------------------- MODULE MCDependencyWalk --------------------------
(* Every depends_on graph over up to three services, cycles included. *)
EXTENDS DependencyWalk

CONSTANTS a, b, c

MCGraphs == UNION {[S -> SUBSET S] : S \in SUBSET {a, b, c}}
=============================================================================
