---- MODULE WriterLeases ----
(***************************************************************************)
(* What Task Authority promises about work in progress, with no tables:    *)
(* a Task starts once, ends once, never starts while another Task works on *)
(* its Repository, and never takes the server past its capacity            *)
(* (docs/DESIGN.md, "Work ownership").  TaskAuthority.tla implements it.   *)
(***************************************************************************)
EXTENDS Integers, FiniteSets

CONSTANTS Tasks, RepositoryOf, Capacity

VARIABLES
    working,    \* the Tasks in progress
    ended       \* the Tasks that reached a terminal state

serviceVars == <<working, ended>>

Start(t) ==
    /\ t \notin working \cup ended
    /\ \A u \in working : RepositoryOf[u] # RepositoryOf[t]
    /\ Cardinality(working) < Capacity
    /\ working' = working \cup {t}
    /\ UNCHANGED ended

End(t) ==
    /\ t \in working
    /\ working' = working \ {t}
    /\ ended' = ended \cup {t}

Init == working = {} /\ ended = {}
Next == \E t \in Tasks : Start(t) \/ End(t)
Spec == Init /\ [][Next]_serviceVars
====
