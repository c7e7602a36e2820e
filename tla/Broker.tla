--------------------------- MODULE Broker --------------------------
(* The step queues of app/worker/broker.py and publish_step. A queue is *)
(* a bag of copies of the message for one row; a copy is its delivery   *)
(* count, the number of times it was returned to the queue.             *)
EXTENDS Store

CONSTANTS
    MaxAttempts,    \* step_max_attempts, also the queues' x-delivery-limit
    MaxCopies,      \* bound: fresh copies of a message queued at once
    MaxLosses       \* bound: publishes that lose a message

VARIABLES
    queue,          \* queue[row][n]: copies of row's message returned n times
    losses          \* publishes that lost a message so far

brokerVars == <<queue, losses>>

ASSUME BrokerAssumption ==
    /\ MaxAttempts \in Nat \ {0}
    /\ MaxCopies \in Nat \ {0}
    /\ MaxLosses \in Nat

BrokerTypeOK ==
    /\ queue \in [Rows -> [0..MaxAttempts -> Nat]]
    /\ losses \in 0..MaxLosses

BrokerInit ==
    /\ queue = [row \in Rows |-> [n \in 0..MaxAttempts |-> 0]]
    /\ losses = 0

(* publish_step for each of rows, after their commit. There are no      *)
(* publisher confirms, so any of the messages may be lost on the way.   *)
Publish(rows) ==
    \E lost \in SUBSET rows :
        /\ \A row \in rows \ lost : queue[row][0] < MaxCopies
        /\ queue' = [row \in Rows |->
              IF row \in rows \ lost THEN [queue[row] EXCEPT ![0] = @ + 1]
                                     ELSE queue[row]]
        /\ losses' = IF lost = {} THEN losses ELSE losses + 1
        /\ losses' <= MaxLosses

(* The broker hands one copy to a consumer. *)
Take(row, n) ==
    /\ queue[row][n] > 0
    /\ queue' = [queue EXCEPT ![row][n] = @ - 1]

(* A copy comes back, by nack or because its consumer is gone. Past the *)
(* delivery limit it goes to the dead-letter queue, which nobody reads. *)
Requeue(row, n) ==
    queue' = IF n < MaxAttempts
             THEN [queue EXCEPT ![row][n + 1] = @ + 1]
             ELSE queue

Queued(row) == \E n \in 0..MaxAttempts : queue[row][n] > 0

====
