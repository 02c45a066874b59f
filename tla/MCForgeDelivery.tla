---- MODULE MCForgeDelivery ----
(* TLC instances of Forge Delivery. *)
EXTENDS ForgeDelivery

\* With and without authority, with every selection of gates.
EveryPolicy == Policy

\* The host's pipeline gate, and a contract without merge authority.
MergeOrReview ==
    {[merge |-> TRUE, review |-> TRUE, pipeline |-> TRUE],
     [merge |-> FALSE, review |-> FALSE, pipeline |-> FALSE]}
====
