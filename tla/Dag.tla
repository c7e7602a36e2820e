---------------------------- MODULE Dag ----------------------------
(* The dependency graph that drives the pipeline: DependencyGraph in    *)
(* app/pipeline/dag.py. A graph is the function Predecessors from each  *)
(* step to the set of steps that must be DONE before it may start.      *)
EXTENDS FiniteSets

CONSTANT Predecessors

Steps == DOMAIN Predecessors

(* The step whose outcome arrives later, on the partner's webhook. *)
ExternalCall == "external_call"

(* What _validate accepts: every edge leads to a declared node, and in  *)
(* every set of steps one waits for none of the others, so Kahn's       *)
(* algorithm orders them all.                                           *)
ASSUME DagAssumption ==
    /\ IsFiniteSet(Steps)
    /\ ExternalCall \in Steps
    /\ \A s \in Steps : Predecessors[s] \subseteq Steps
    /\ \A S \in SUBSET Steps :
          S # {} => \E s \in S : Predecessors[s] \cap S = {}

(* PREDECESSORS, the graph the program is built with. *)
PREDECESSORS ==
    [ocr |-> {}, metadata |-> {"ocr"}, chunking |-> {"ocr"},
     external_call |-> {"metadata", "chunking"}]

EntryNodes == {s \in Steps : Predecessors[s] = {}}

(* Mutant: one predecessor is enough. *)
ReadyAfterAny(done) ==
    {s \in Steps \ done : Predecessors[s] \cap done # {} \/ Predecessors[s] = {}}

ReadySuccessors(done) ==
    {s \in Steps \ done : Predecessors[s] \subseteq done}

====
