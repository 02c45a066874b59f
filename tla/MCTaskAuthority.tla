---- MODULE MCTaskAuthority ----
(***************************************************************************)
(* Two instances of Task Authority, each from the same initial rows: the   *)
(* whole life of one Task under arbitrary callers, and the first steps of  *)
(* four Tasks that compete for three Repositories and two places.          *)
(***************************************************************************)
EXTENDS TaskAuthority, TLC

CONSTANTS t1, t2, t3, t4, r1, r2, r3

VARIABLE instance

ThreeRepositories ==
    [t \in Tasks |-> CASE t \in {t1, t2} -> r1 [] t = t3 -> r2 [] t = t4 -> r3]
TwoEach == [t \in Tasks |-> 2]

\* One Task is admitted, or each has its admission and one fact.
Within(rows) ==
    \A t \in Tasks : rows[t] # Null =>
        IF instance = "life" THEN t = t1 ELSE rows[t].revision <= 2

InstanceInit == Init /\ instance \in {"life", "rivals"}
InstanceNext == Next /\ Within(task') /\ UNCHANGED instance
InstancesSpec == InstanceInit /\ [][InstanceNext]_<<vars, instance>>

\* Owners are only ever compared with one another.
OwnerSymmetry == Permutations(Owners)

\* The life is told by its history; of the rivals only the rows matter, since no guard reads the history.
Rows == <<instance, task, lease, expired, IF instance = "life" THEN events ELSE <<>>>>
====
