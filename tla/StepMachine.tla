------------------------- MODULE StepMachine -----------------------
(* What the pipeline promises about the steps of its documents, without *)
(* sessions, messages, workers or retries: the state machine of dive H  *)
(* in docs/DESIGN.md, with the order of the dependency graph.           *)
EXTENDS Dag

CONSTANT Docs

VARIABLE state           \* state[<<d, s>>]: where step s of document d is

Init == state = [row \in Docs \X Steps |-> "pending"]

Move(row, from, to) ==
    /\ state[row] = from
    /\ state' = [state EXCEPT ![row] = to]

(* A document enters the pipeline: its entry steps start together. *)
Enter(d) ==
    /\ \A s \in Steps : state[<<d, s>>] = "pending"
    /\ state' = [row \in Docs \X Steps |->
          IF row[1] = d /\ row[2] \in EntryNodes THEN "queued" ELSE state[row]]

(* Any other step starts once, when all its predecessors are done. *)
Start(d, s) ==
    /\ s \notin EntryNodes
    /\ \A p \in Predecessors[s] : state[<<d, p>>] = "done"
    /\ Move(<<d, s>>, "pending", "queued")

Run(row) == Move(row, "queued", "running")

Retry(row) == Move(row, "running", "queued")

GiveUp(row) == Move(row, "running", "error")

(* Success is the end of a computed step; the external call then waits. *)
Succeed(d, s) ==
    LET next == IF s = ExternalCall THEN "awaiting_callback" ELSE "done"
    IN  Move(<<d, s>>, "running", next)

(* The outcome of the external call: the partner's report, or the       *)
(* timeout. Two of them may race, and the later commit stays.           *)
Resolve(d) ==
    /\ state[<<d, ExternalCall>>] \in {"awaiting_callback", "done", "error"}
    /\ \E outcome \in {"done", "error"} :
          state' = [state EXCEPT ![<<d, ExternalCall>>] = outcome]

Next ==
    \E d \in Docs :
        \/ Enter(d) \/ Resolve(d)
        \/ \E s \in Steps :
              Start(d, s) \/ Run(<<d, s>>) \/ Retry(<<d, s>>) \/ GiveUp(<<d, s>>)
              \/ Succeed(d, s)

Spec == Init /\ [][Next]_state

====
