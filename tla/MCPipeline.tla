-------------------------- MODULE MCPipeline -----------------------
(* Constants for TLC. *)
EXTENDS Pipeline, TLC

(* The external call alone. *)
CallGraph == [external_call |-> {}]
CallInputs == CallGraph

Symmetry == Permutations(Workers) \cup Permutations(Hooks) \cup Permutations(Jobs)

====
