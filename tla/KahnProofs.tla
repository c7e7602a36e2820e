------------------------- MODULE KahnProofs -------------------------
(* The validation of a dependency graph is right for every number of    *)
(* nodes. The invariant relates the counters to the nodes popped so far *)
(* and says that no ring of nodes meets them.                           *)
EXTENDS Kahn, FiniteSetTheorems, TLAPS

(* Every set of nodes that meets the popped ones has a member that      *)
(* waits for none of the others.                                        *)
PoppedGrounded ==
    \A S \in SUBSET Nodes :
        S \cap popped # {} => \E s \in S : predecessors[s] \cap S = {}

(* The counters count, the deque has the nodes whose counter is zero    *)
(* and that were not popped yet.                                        *)
CountersAgree ==
    /\ \A n \in Nodes : predecessors[n] \subseteq Nodes
    /\ ready \cap popped = {}
    /\ ordered = Cardinality(popped)
    /\ \A n \in Nodes : indegree[n] = Cardinality(predecessors[n] \ popped)
    /\ \A n \in Nodes : n \in ready \cup popped <=> predecessors[n] \subseteq popped

(* What holds throughout the sort. *)
SortInv ==
    /\ TypeOK
    /\ pc = "edges" => popped = {} /\ ordered = 0
    /\ pc \in {"sort", "cycle", "valid"} => CountersAgree /\ PoppedGrounded
    /\ ResultRight

(* The set of nodes is finite, and so are its subsets. *)
LEMMA NodesFinite == \A S \in SUBSET Nodes : IsFiniteSet(S) /\ Cardinality(S) \in Nat
    BY KahnAssumption, FS_Subset, FS_CardinalityType

(* A counter is zero exactly when nothing is left to wait for. *)
LEMMA NothingLeft ==
    ASSUME NEW S \in SUBSET Nodes PROVE Cardinality(S) = 0 <=> S = {}
    BY NodesFinite, FS_EmptySet

(* Before the sort nothing is counted. *)
LEMMA SortInvInit == Init => SortInv
    BY DEF Init, SortInv, TypeOK, ResultRight

(* The counters set up by StartSort are the numbers of predecessors. *)
LEMMA StartSortKeeps ==
    ASSUME SortInv, StartSort PROVE SortInv'
<1> USE DEF SortInv, StartSort
<1>1. \A n \in Nodes : /\ predecessors[n] \in SUBSET Nodes
                       /\ indegree'[n] = Cardinality(predecessors[n])
                       /\ indegree'[n] \in Nat
                       /\ indegree'[n] = 0 <=> predecessors[n] = {}
    BY NodesFinite, NothingLeft DEF TypeOK
<1>2. TypeOK'
    BY <1>1 DEF TypeOK
<1>3. popped' = {} /\ ordered' = 0 /\ pc' = "sort" /\ predecessors' = predecessors
    OBVIOUS
<1>4. \A n \in Nodes : predecessors[n] \ popped' = predecessors[n]
    BY <1>3
<1>5. CountersAgree'
    <2>1. ordered' = Cardinality(popped')
        BY <1>3, FS_EmptySet
    <2>2. \A n \in Nodes : n \in ready' \cup popped' <=> predecessors'[n] \subseteq popped'
        BY <1>1, <1>3
    <2>3. \A n \in Nodes : indegree'[n] = Cardinality(predecessors'[n] \ popped')
        BY <1>1, <1>3, <1>4
    <2> QED
        BY <1>1, <1>3, <2>1, <2>2, <2>3 DEF CountersAgree
<1>6. PoppedGrounded'
    BY <1>3 DEF PoppedGrounded
<1> QED
    BY <1>2, <1>3, <1>5, <1>6 DEF ResultRight

(* One turn of the loop keeps the counters, and the new popped node     *)
(* waits for popped ones only.                                          *)
LEMMA PopKeeps ==
    ASSUME SortInv, NEW node \in ready, Pop(node) PROVE SortInv'
<1> USE DEF SortInv
<1>1. /\ pc = "sort" /\ pc' = "sort" /\ predecessors' = predecessors
      /\ popped' = popped \cup {node} /\ ordered' = ordered + 1
      /\ node \in Nodes /\ node \notin popped
      /\ popped \in SUBSET Nodes /\ popped' \in SUBSET Nodes
    BY DEF Pop, TypeOK, CountersAgree
<1>2. CountersAgree /\ PoppedGrounded
    BY <1>1
<1>3. predecessors[node] \subseteq popped
    BY <1>1, <1>2 DEF CountersAgree
<1>4. ordered' = Cardinality(popped')
    BY <1>1, <1>2, NodesFinite, FS_AddElement DEF CountersAgree
<1>5. ASSUME NEW n \in Nodes
      PROVE  /\ indegree'[n] = Cardinality(predecessors[n] \ popped')
             /\ indegree'[n] = 0 <=> predecessors[n] \subseteq popped'
    <2> DEFINE left == predecessors[n] \ popped
               now == predecessors[n] \ popped'
    <2>1. left \in SUBSET Nodes /\ now \in SUBSET Nodes /\ now = left \ {node}
        BY <1>1, <1>2 DEF CountersAgree
    <2>2. indegree[n] = Cardinality(left) /\ indegree[n] \in Nat
        BY <1>2, <2>1, NodesFinite DEF CountersAgree
    <2>3. indegree'[n] = IF node \in predecessors[n] THEN indegree[n] - 1 ELSE indegree[n]
        BY DEF Pop, SuccessorsOf
    <2>4. node \in left <=> node \in predecessors[n]
        BY <1>1
    <2>5. Cardinality(now) = IF node \in left THEN Cardinality(left) - 1
                                              ELSE Cardinality(left)
        <3>1. IsFiniteSet(left)
            BY <2>1, NodesFinite
        <3>2. Cardinality(left \ {node}) = IF node \in left THEN Cardinality(left) - 1
                                                            ELSE Cardinality(left)
            BY ONLY <3>1, FS_RemoveElement
        <3> QED
            BY <2>1, <3>2
    <2>6. indegree'[n] = Cardinality(now)
        BY ONLY <2>2, <2>3, <2>4, <2>5
    <2>7. Cardinality(now) = 0 <=> now = {}
        BY ONLY <2>1, NothingLeft
    <2> QED
        BY <2>6, <2>7
<1>6. TypeOK'
    <2>1. \A n \in Nodes : predecessors[n] \ popped' \in SUBSET Nodes
        BY <1>2 DEF CountersAgree
    <2>2. \A n \in Nodes : indegree'[n] \in Nat
        BY ONLY <1>5, <2>1, NodesFinite
    <2>3. indegree' \in [Nodes -> Nat]
        BY <2>2 DEF Pop
    <2> QED
        BY <1>1, <2>3 DEF TypeOK, Pop, SuccessorsOf
<1>7. \A n \in Nodes : n \in ready' \cup popped' <=> predecessors[n] \subseteq popped'
    <2> SUFFICES ASSUME NEW n \in Nodes
                 PROVE  n \in ready' \cup popped' <=> predecessors[n] \subseteq popped'
        OBVIOUS
    <2>1. n \in ready \cup popped <=> predecessors[n] \subseteq popped
        BY <1>2 DEF CountersAgree
    <2>2. ready' = (ready \ {node}) \cup {m \in SuccessorsOf(node) : indegree'[m] = 0}
        BY DEF Pop
    <2>3. n \in SuccessorsOf(node) <=> node \in predecessors[n]
        BY DEF SuccessorsOf
    <2>4. CASE node \in predecessors[n]
        BY <1>1, <1>3, <1>5, <2>1, <2>2, <2>3, <2>4
    <2>5. CASE node \notin predecessors[n]
        BY <1>1, <1>5, <2>1, <2>2, <2>3, <2>5
    <2> QED
        BY <2>4, <2>5
<1>8. ready' \cap popped' = {}
    <2>1. SUFFICES ASSUME NEW m \in ready', m \in popped' PROVE FALSE
        OBVIOUS
    <2>2. m \in Nodes /\ (m = node \/ m \in popped)
        BY <1>1, <2>1
    <2>3. predecessors[m] \subseteq popped
        BY <1>2, <1>3, <2>2 DEF CountersAgree
    <2>4. node \notin predecessors[m]
        BY <1>1, <2>3
    <2>5. m \in ready \ {node}
        BY <2>1, <2>4 DEF Pop, SuccessorsOf
    <2> QED
        BY <1>2, <2>2, <2>5 DEF CountersAgree
<1>9. CountersAgree'
    BY <1>1, <1>2, <1>4, <1>5, <1>7, <1>8 DEF CountersAgree
<1>10. PoppedGrounded'
    <2> SUFFICES ASSUME NEW S \in SUBSET Nodes, S \cap popped' # {}
                 PROVE  \E s \in S : predecessors[s] \cap S = {}
        BY <1>1 DEF PoppedGrounded
    <2>1. CASE S \cap popped # {}
        BY <1>2, <2>1 DEF PoppedGrounded
    <2>2. CASE S \cap popped = {}
        BY <1>1, <1>3, <2>2
    <2> QED
        BY <2>1, <2>2
<1> QED
    BY <1>1, <1>6, <1>9, <1>10 DEF ResultRight

(* Nodes left over wait for one another; when none is left, no ring     *)
(* exists.                                                              *)
LEMMA ConcludeKeeps ==
    ASSUME SortInv, Conclude PROVE SortInv'
<1> USE DEF SortInv
<1>1. /\ pc = "sort" /\ ready = {} /\ CountersAgree /\ PoppedGrounded
      /\ UNCHANGED <<predecessors, indegree, ready, ordered, popped>>
      /\ popped \in SUBSET Nodes
    BY DEF Conclude, TypeOK
<1>2. ~Dangling
    BY <1>1 DEF CountersAgree, Dangling
<1>3. CASE ordered = Cardinality(Nodes)
    <2>1. popped = Nodes
        BY <1>1, <1>3, KahnAssumption, FS_Subset DEF CountersAgree
    <2>2. ~Cyclic
        BY <1>1, <2>1 DEF PoppedGrounded, Cyclic
    <2> QED
        BY <1>1, <1>2, <1>3, <2>2
        DEF Conclude, TypeOK, ResultRight, CountersAgree, PoppedGrounded, Dangling, Cyclic
<1>4. CASE ordered # Cardinality(Nodes)
    <2>1. popped # Nodes
        BY <1>1, <1>4 DEF CountersAgree
    <2>2. \A n \in Nodes \ popped : predecessors[n] \cap (Nodes \ popped) # {}
        BY <1>1 DEF CountersAgree
    <2>3. Nodes \ popped # {}
        BY <1>1, <2>1
    <2>4. Cyclic
        BY <2>2, <2>3 DEF Cyclic
    <2> QED
        BY <1>1, <1>2, <1>4, <2>4
        DEF Conclude, TypeOK, ResultRight, CountersAgree, PoppedGrounded, Dangling, Cyclic
<1> QED
    BY <1>3, <1>4

(* Every step of the constructor keeps the invariant. *)
LEMMA SortInvHolds == Spec => []SortInv
<1>1. SortInv /\ [Next]_vars => SortInv'
    <2> SUFFICES ASSUME SortInv, [Next]_vars PROVE SortInv'
        OBVIOUS
    <2>1. CASE FindDangling
        BY <2>1 DEF FindDangling, SortInv, TypeOK, ResultRight, Dangling
    <2>2. CASE StartSort
        BY <2>2, StartSortKeeps
    <2>3. CASE \E node \in ready : Pop(node)
        BY <2>3, PopKeeps
    <2>4. CASE Conclude
        BY <2>4, ConcludeKeeps
    <2>5. CASE UNCHANGED vars
        BY <2>5
        DEF vars, SortInv, TypeOK, ResultRight, CountersAgree, PoppedGrounded, Dangling,
            Cyclic
    <2> QED
        BY <2>1, <2>2, <2>3, <2>4, <2>5 DEF Next
<1> QED
    BY <1>1, SortInvInit, PTL DEF Spec

(* No counter falls below zero, and only declared nodes are ordered,    *)
(* for every graph: a node is decremented once for each predecessor.    *)
THEOREM CountersTyped == Spec => []TypeOK
<1>1. SortInv => TypeOK
    BY DEF SortInv
<1> QED
    BY <1>1, SortInvHolds, PTL

(* The validation accepts a graph only if no edge dangles and no steps  *)
(* wait for one another in a ring, and rejects it only if they do: what *)
(* Dag assumes of its graph is what the constructor has checked.        *)
THEOREM ValidationRight == Spec => []ResultRight
<1>1. SortInv => ResultRight
    BY DEF SortInv
<1> QED
    BY <1>1, SortInvHolds, PTL

====
