---- MODULE DeliveryEffects ----
(***************************************************************************)
(* What Forge Delivery promises of one approved Candidate, whatever its    *)
(* process and GitHub do in between: the pull requests the Forge App       *)
(* attests, the one it may merge, those that landed with the approved head *)
(* (by anyone's merge), and the outcome Task Authority is given.           *)
(***************************************************************************)
CONSTANTS Numbers, Null

VARIABLES
    authority,  \* authorization.merge of the contract
    attested,   \* pull requests that carry the App's approval attestation
    merged,     \* pull requests the App merged
    landed,     \* pull requests merged, by anyone, with the approved head
    state,      \* of the Task: "pending", "blocked" or "delivered"
    report      \* the DeliveryEffect recorded, [pr, merged], or Null

outcome == <<state, report>>
effects == <<authority, attested, merged, landed, outcome>>

Init ==
    /\ authority \in BOOLEAN
    /\ attested = {} /\ merged = {} /\ landed = {}
    /\ state = "pending" /\ report = Null

Attest(n) ==
    /\ attested' = attested \cup {n}
    /\ UNCHANGED <<authority, merged, landed, outcome>>

\* The App merges once, with authority, what it has attested.
Merge(n) ==
    /\ authority /\ merged = {} /\ n \in attested
    /\ merged' = {n} /\ landed' = landed \cup {n}
    /\ UNCHANGED <<authority, attested, outcome>>

MergedByOthers(n) ==
    /\ landed' = landed \cup {n}
    /\ UNCHANGED <<authority, attested, merged, outcome>>

\* A delivery is reported once; with authority it is a merge that landed.
Deliver(n) ==
    /\ state = "pending" /\ n \in attested
    /\ authority => n \in landed
    /\ state' = "delivered" /\ report' = [pr |-> n, merged |-> authority]
    /\ UNCHANGED <<authority, attested, merged, landed>>

Block ==
    /\ state = "pending" /\ state' = "blocked"
    /\ UNCHANGED <<authority, attested, merged, landed, report>>

Next ==
    \/ \E n \in Numbers : Attest(n) \/ Merge(n) \/ MergedByOthers(n) \/ Deliver(n)
    \/ Block

Spec == Init /\ [][Next]_effects
====
