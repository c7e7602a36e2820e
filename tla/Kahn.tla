---------------------------- MODULE Kahn ----------------------------
(* DependencyGraph._validate in app/pipeline/dag.py: the check that a   *)
(* graph handed to the constructor has no edge to an undeclared node    *)
(* and no cycle, by Kahn's algorithm. Dag assumes of its constant what  *)
(* this module shows the check to establish.                            *)
EXTENDS FiniteSets, Naturals

CONSTANTS
    Nodes,          \* the declared nodes of the graphs
    Names           \* what an edge may lead to, declared or not

ASSUME KahnAssumption == IsFiniteSet(Nodes) /\ Nodes \subseteq Names

VARIABLES
    predecessors,   \* self._predecessors
    pc,             \* "edges", then "sort", or the result
    indegree,       \* predecessors that are not ordered yet, by node
    ready,          \* the nodes on the deque
    ordered,        \* how many nodes were taken off it
    popped          \* which ones (history, the code does not keep it)

vars == <<predecessors, pc, indegree, ready, ordered, popped>>

SuccessorsOf(node) == {m \in Nodes : node \in predecessors[m]}

Init ==
    /\ predecessors \in [Nodes -> SUBSET Names]
    /\ pc = "edges"
    /\ indegree = [n \in Nodes |-> 0]
    /\ ready = {}
    /\ ordered = 0
    /\ popped = {}

(* Mutant: the deque is not set up from the counters. *)
StartSortAnywhere ==
    /\ pc = "edges"
    /\ \A n \in Nodes : predecessors[n] \subseteq Nodes
    /\ pc' = "sort"
    /\ indegree' = [n \in Nodes |-> Cardinality(predecessors[n])]
    /\ ready' = Nodes
    /\ UNCHANGED <<predecessors, ordered, popped>>

(* The loop over the edges, which stops at the first dangling one. *)
FindDangling ==
    /\ pc = "edges"
    /\ \E n \in Nodes : predecessors[n] \ Nodes # {}
    /\ pc' = "dangling"
    /\ UNCHANGED <<predecessors, indegree, ready, ordered, popped>>

(* No edge is dangling: the counters and the deque are set up. *)
StartSort ==
    /\ pc = "edges"
    /\ \A n \in Nodes : predecessors[n] \subseteq Nodes
    /\ pc' = "sort"
    /\ indegree' = [n \in Nodes |-> Cardinality(predecessors[n])]
    /\ ready' = {n \in Nodes : indegree'[n] = 0}
    /\ UNCHANGED <<predecessors, ordered, popped>>

(* Mutant: a node is appended although it still waits for another one. *)
PopAndAppendAll(node) ==
    /\ pc = "sort"
    /\ ordered' = ordered + 1
    /\ popped' = popped \cup {node}
    /\ indegree' = [m \in Nodes |->
          IF m \in SuccessorsOf(node) /\ indegree[m] > 0
          THEN indegree[m] - 1 ELSE indegree[m]]
    /\ ready' = (ready \ {node}) \cup (SuccessorsOf(node) \ popped')
    /\ UNCHANGED <<predecessors, pc>>

(* One turn of the while loop. A node comes on the deque when its       *)
(* counter reaches zero, so once; in which order they leave it does not *)
(* matter to the result.                                                *)
Pop(node) ==
    /\ pc = "sort"
    /\ ordered' = ordered + 1
    /\ popped' = popped \cup {node}
    /\ indegree' = [m \in Nodes |->
          IF m \in SuccessorsOf(node) THEN indegree[m] - 1 ELSE indegree[m]]
    /\ ready' = (ready \ {node}) \cup {m \in SuccessorsOf(node) : indegree'[m] = 0}
    /\ UNCHANGED <<predecessors, pc>>

(* Mutant: the nodes left over are waited for. *)
ConcludeWhenOrdered ==
    /\ pc = "sort" /\ ready = {} /\ ordered = Cardinality(Nodes)
    /\ pc' = "valid"
    /\ UNCHANGED <<predecessors, indegree, ready, ordered, popped>>

(* The deque is empty: were all nodes ordered? *)
Conclude ==
    /\ pc = "sort" /\ ready = {}
    /\ pc' = IF ordered # Cardinality(Nodes) THEN "cycle" ELSE "valid"
    /\ UNCHANGED <<predecessors, indegree, ready, ordered, popped>>

Next == FindDangling \/ StartSort \/ (\E node \in ready : Pop(node)) \/ Conclude

Spec == Init /\ [][Next]_vars

(* The constructor runs to its end. *)
FairSpec == Spec /\ WF_vars(Next)

----
Dangling == \E n \in Nodes : predecessors[n] \ Nodes # {}

(* Steps that wait for one another: each has a predecessor among them.  *)
Cyclic ==
    \E S \in SUBSET Nodes : S # {} /\ \A s \in S : predecessors[s] \cap S # {}

(* Every variable keeps its type: no counter falls below zero. *)
TypeOK ==
    /\ predecessors \in [Nodes -> SUBSET Names]
    /\ pc \in {"edges", "sort", "dangling", "cycle", "valid"}
    /\ indegree \in [Nodes -> Nat]
    /\ ordered \in Nat
    /\ ready \subseteq Nodes /\ popped \subseteq Nodes

(* The result is right, whatever graph is passed: it is rejected        *)
(* exactly if an edge dangles, or steps wait for one another in a ring. *)
ResultRight ==
    /\ pc = "dangling" => Dangling
    /\ pc = "cycle" => ~Dangling /\ Cyclic
    /\ pc = "valid" => ~Dangling /\ ~Cyclic

(* The constructor raises or returns. *)
Terminates == <>(pc \in {"dangling", "cycle", "valid"})

====
