---------------------------- MODULE MCDAGExecutor ---------------------------
(* Every pipeline of three nodes: all dependency functions without a       *)
(* self-dependency, which are chains, forks, joins, cycles of two and      *)
(* three nodes, and nodes behind a cycle.                                  *)
EXTENDS DAGExecutor

CONSTANTS a, b, c

AllPipelines == {d \in [Nodes -> SUBSET Nodes] : \A n \in Nodes : n \notin d[n]}
=============================================================================
