---- MODULE MCDeliveryRun ----
(* TLC instances of Delivery Run inside the server. *)
EXTENDS DeliveryRun, TLC

CONSTANTS t1, r1, e1, e2

OneRepository == [t \in Tasks |-> r1]
OneEach == [t \in Tasks |-> 1]
TwoEach == [t \in Tasks |-> 2]
NoLimit == [t \in Tasks |-> Unlimited]

\* Executions are only ever compared with one another.
ExecutionSymmetry == Permutations(Executions)

\* Everything but the history, which no guard reads.
WithoutHistory == <<task, lease, expired, runs, server, process, timers, pending, waits>>
====
