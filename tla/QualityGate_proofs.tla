---- MODULE QualityGate_proofs ----
(***************************************************************************)
(* A theorem about QualityGate.tla, for any number of executions that      *)
(* verify any candidates with any acceptance checks: a verdict is about    *)
(* the commit it names, whoever removes or adds a checkout meanwhile.      *)
(***************************************************************************)
EXTENDS QualityGate, TLAPS

Statuses ==
    {"none", "failed", "capability_blocked", "passed", "no_output", "approved",
     "changes_requested", "inconclusive", "cancelled"}
Steps ==
    {"idle", "clearing", "adding", "check", "unspawned", "acceptance", "review", "answer",
     "leaving", "checked", "reviewed", "thrown"}
CheckStatuses == {"passed", "failed", "unavailable"}
Verdicts == {"approved", "changes_requested"}
Found_ == Candidates \cup {NoCommit}
GateType ==
    [step : Steps, purpose : Purposes, sha : Candidates \cup {AnyCommit},
     result : [status : Statuses, saw : SUBSET Found_, checks : SUBSET (AcceptanceChecks \X CheckStatuses)],
     passed : BOOLEAN]

TypeOK ==
    /\ checkout \in [Purposes \X Candidates -> Found_]
    /\ gate \in [Verifiers -> GateType]

\* A path is the commit's: nothing else is ever checked out there.
SoundPaths == \A purpose \in Purposes, c \in Candidates : checkout[<<purpose, c>>] \in {c, NoCommit}

\* What a call has established by each of its steps.
SoundCall(g) ==
    /\ g.step # "idle" => g.sha \in Candidates
    /\ g.step = "idle" => g.result = NoResult
    /\ g.result.saw \subseteq {g.sha, NoCommit}
    /\ g.step = "acceptance" => g.sha \in g.result.saw
    /\ g.purpose = "review" \/ g.step \in {"review", "answer"} \/ g.result.status \in Verdicts => g.passed
    /\ g.result.status = "passed" =>
          g.sha \in g.result.saw /\ \A id \in AcceptanceChecks : <<id, "passed">> \in g.result.checks

IInv == TypeOK /\ SoundPaths /\ \A v \in Verifiers : SoundCall(gate[v])

\* A step of one call that keeps its type and its promises, and the paths.
LEMMA OneCall ==
    ASSUME IInv, NEW v \in Verifiers, NEW g \in GateType, gate' = [gate EXCEPT ![v] = g], SoundCall(g),
           checkout' \in [Purposes \X Candidates -> Found_], SoundPaths'
    PROVE  IInv'
<1>1. gate' \in [Verifiers -> GateType]
    BY DEF IInv, TypeOK
<1>2. ASSUME NEW u \in Verifiers PROVE SoundCall(gate'[u])
    BY <1>2 DEF IInv, TypeOK
<1>3. (\A u \in Verifiers : SoundCall(gate[u]))'
    BY <1>2 DEF SoundCall
<1> QED BY <1>1, <1>3 DEF IInv, TypeOK

\* What a command finds is the call's own commit, or nothing.
LEMMA FoundIsOwn ==
    ASSUME IInv, NEW v \in Verifiers, gate[v].step # "idle"
    PROVE  /\ gate[v] \in GateType /\ SoundCall(gate[v])
           /\ gate[v].sha \in Candidates
           /\ CheckoutPath(v) \in Purposes \X Candidates
           /\ Found(v) \in {gate[v].sha, NoCommit}
BY DEF IInv, TypeOK, SoundCall, SoundPaths, Found, CheckoutPath, GateType

\* Clearing a path, and adding the path's own commit, keep the paths.
LEMMA PathsKept ==
    ASSUME IInv, NEW v \in Verifiers, gate[v].step # "idle", NEW c \in {gate[v].sha, NoCommit},
           checkout' = [checkout EXCEPT ![CheckoutPath(v)] = c]
    PROVE  checkout' \in [Purposes \X Candidates -> Found_] /\ SoundPaths'
<1>1. CheckoutPath(v) = <<gate[v].purpose, gate[v].sha>> /\ CheckoutPath(v) \in Purposes \X Candidates
      /\ gate[v].sha \in Candidates
    BY FoundIsOwn DEF CheckoutPath
<1>2. c \in Found_
    BY <1>1 DEF Found_
<1>3. checkout' \in [Purposes \X Candidates -> Found_]
    BY <1>1, <1>2 DEF IInv, TypeOK
<1>4. ASSUME NEW purpose \in Purposes, NEW d \in Candidates
      PROVE  checkout'[<<purpose, d>>] \in {d, NoCommit}
    <2>1. CASE <<purpose, d>> = CheckoutPath(v)
        BY <1>1, <2>1 DEF IInv, TypeOK
    <2>2. CASE <<purpose, d>> # CheckoutPath(v)
        BY <1>1, <2>2 DEF IInv, TypeOK, SoundPaths
    <2> QED BY <2>1, <2>2
<1> QED BY <1>3, <1>4 DEF SoundPaths

\* The invariant holds initially.
LEMMA InitIsSound == GateInit => IInv
<1> SUFFICES ASSUME GateInit PROVE IInv
    OBVIOUS
<1> DEFINE g == [step |-> "idle", purpose |-> "check", sha |-> AnyCommit, result |-> NoResult, passed |-> FALSE]
<1>1. g \in GateType
    BY DEF GateType, Steps, Statuses, Purposes, NoResult
<1>2. SoundCall(g)
    BY DEF SoundCall, NoResult, Verdicts
<1>3. gate = [v \in Verifiers |-> g] /\ checkout = [p \in Purposes \X Candidates |-> NoCommit]
    BY DEF GateInit
<1> HIDE DEF g
<1>4. TypeOK
    BY <1>1, <1>3 DEF TypeOK, Found_
<1>5. SoundPaths /\ \A v \in Verifiers : SoundCall(gate[v])
    BY <1>2, <1>3 DEF SoundPaths
<1> QED BY <1>4, <1>5 DEF IInv

\* Every step of a verifier keeps the invariant.
LEMMA NextIsSound ==
    ASSUME IInv, NEW v \in Verifiers,
           \/ BeginCheck(v) \/ BeginReview(v) \/ ClearPath(v) \/ AddCheckout(v) \/ LeaveCheckout(v)
           \/ ProjectCheck(v) \/ BlamedOnShell(v) \/ AcceptanceCheck(v) \/ CheckResult(v)
           \/ Review(v) \/ ReviewerAnswers(v) \/ GateCancelled(v)
    PROVE  IInv'
<1> DEFINE g == gate[v]
<1>0. g \in GateType /\ SoundCall(g) /\ gate \in [Verifiers -> GateType]
    BY DEF IInv, TypeOK
<1>u. UNCHANGED checkout => checkout' \in [Purposes \X Candidates -> Found_] /\ SoundPaths'
    BY DEF IInv, TypeOK, SoundPaths
\* A step that goes on, and one that ends the use of the checkout with a status.
<1>n. ASSUME NEW step \in Steps \ {"idle", "acceptance"}, Next_(v, step), UNCHANGED checkout, g.step # "idle",
             step \in {"review", "answer"} => g.passed
      PROVE  IInv'
    <2> DEFINE h == [g EXCEPT !.step = step]
    <2>1. h \in GateType /\ SoundCall(h)
        BY <1>0, <1>n DEF GateType, SoundCall
    <2>2. gate' = [gate EXCEPT ![v] = h]
        BY <1>0, <1>n DEF Next_
    <2> QED BY <1>u, <1>n, <2>1, <2>2, OneCall
<1>r. ASSUME NEW status \in Statuses, Result_(v, status), UNCHANGED checkout, g.step # "idle",
             status \in Verdicts => g.passed,
             status = "passed" => g.sha \in g.result.saw /\ \A id \in AcceptanceChecks : <<id, "passed">> \in g.result.checks
      PROVE  IInv'
    <2> DEFINE h == [g EXCEPT !.step = "leaving", !.result.status = status]
    <2>1. h \in GateType
        BY <1>0, <1>r DEF GateType, Steps
    <2>2. SoundCall(h)
        BY <1>0, <1>r DEF GateType, SoundCall
    <2>3. gate' = [gate EXCEPT ![v] = h]
        BY <1>0, <1>r DEF Result_
    <2> QED BY <1>u, <1>r, <2>1, <2>2, <2>3, OneCall
<1>1. CASE BeginCheck(v)
    <2>1. PICK c \in Candidates : gate' = [gate EXCEPT ![v].step = "clearing", ![v].sha = c]
        BY <1>1 DEF BeginCheck
    <2> DEFINE h == [g EXCEPT !.step = "clearing", !.sha = c]
    <2>2. g.step = "idle" /\ g.result = NoResult
        BY <1>0, <1>1 DEF BeginCheck, In, SoundCall
    <2>3. h \in GateType
        BY <1>0 DEF GateType, Steps
    <2>4. SoundCall(h)
        BY <1>0, <2>2 DEF GateType, SoundCall, NoResult, Verdicts
    <2>5. gate' = [gate EXCEPT ![v] = h] /\ UNCHANGED checkout
        BY <1>0, <1>1, <2>1 DEF BeginCheck
    <2> QED BY <1>u, <2>3, <2>4, <2>5, OneCall
<1>2. CASE BeginReview(v)
    <2> DEFINE h == [g EXCEPT !.step = "clearing", !.purpose = "review", !.result = NoResult]
    <2>1. g.step = "checked" /\ g.passed
        BY <1>2 DEF BeginReview, In
    <2>2. h \in GateType
        BY <1>0 DEF GateType, Steps, Purposes, NoResult, Statuses
    <2>3. SoundCall(h)
        BY <1>0, <2>1 DEF GateType, SoundCall, NoResult, Verdicts
    <2>4. gate' = [gate EXCEPT ![v] = h] /\ UNCHANGED checkout
        BY <1>0, <1>2 DEF BeginReview
    <2> QED BY <1>u, <2>2, <2>3, <2>4, OneCall
<1>3. CASE ClearPath(v)
    <2> DEFINE h == [g EXCEPT !.step = "adding"]
    <2>1. g.step = "clearing"
        BY <1>3 DEF ClearPath, In
    <2>2. h \in GateType /\ SoundCall(h)
        BY <1>0, <2>1 DEF GateType, SoundCall, Steps
    <2>3. gate' = [gate EXCEPT ![v] = h] /\ checkout' = [checkout EXCEPT ![CheckoutPath(v)] = NoCommit]
        BY <1>0, <1>3 DEF ClearPath, Next_
    <2> QED BY <2>1, <2>2, <2>3, PathsKept, OneCall
<1>4. CASE AddCheckout(v)
    <2>1. g.step = "adding"
        BY <1>4 DEF AddCheckout, In
    <2>2. CASE Next_(v, "thrown") /\ UNCHANGED checkout
        BY <1>n, <2>1, <2>2 DEF Steps
    <2>3. CASE Next_(v, g.purpose) /\ checkout' = [checkout EXCEPT ![CheckoutPath(v)] = g.sha]
        <3> DEFINE h == [g EXCEPT !.step = g.purpose]
        <3>1. h \in GateType /\ SoundCall(h)
            BY <1>0, <2>1 DEF GateType, SoundCall, Steps, Purposes
        <3>2. gate' = [gate EXCEPT ![v] = h]
            BY <1>0, <2>3 DEF Next_
        <3> QED BY <2>1, <2>3, <3>1, <3>2, PathsKept, OneCall
    <2> QED BY <1>4, <2>2, <2>3 DEF AddCheckout
<1>5. CASE LeaveCheckout(v)
    <2> DEFINE step == IF g.result.status = "cancelled" THEN "thrown"
                       ELSE IF g.purpose = "check" THEN "checked" ELSE "reviewed"
               h == [g EXCEPT !.step = step, !.passed = g.passed \/ g.result.status = "passed"]
    <2>1. g.step = "leaving"
        BY <1>5 DEF LeaveCheckout, In
    <2>2. step \in {"thrown", "checked", "reviewed"}
        OBVIOUS
    <2>3. gate' = [gate EXCEPT ![v] = h] /\ checkout' = [checkout EXCEPT ![CheckoutPath(v)] = NoCommit]
        BY <1>0, <1>5 DEF LeaveCheckout
    <2> HIDE DEF step
    <2>4. h \in GateType
        BY <1>0, <2>2 DEF GateType, Steps
    <2>5. SoundCall(h)
        BY <1>0, <2>1, <2>2 DEF GateType, SoundCall
    <2> QED BY <2>1, <2>3, <2>4, <2>5, PathsKept, OneCall
\* What is found is added to what the call saw.
<1>s. ASSUME NEW step \in {"acceptance", "answer"}, g.step # "idle",
             NEW checks \in SUBSET (AcceptanceChecks \X CheckStatuses), g.result.checks \subseteq checks,
             step = "acceptance" => Found(v) # NoCommit \/ g.sha \in g.result.saw, step = "answer" => g.passed,
             gate' = [gate EXCEPT ![v] = [g EXCEPT !.step = step,
                 !.result = [g.result EXCEPT !.saw = @ \cup {Found(v)}, !.checks = checks]]],
             UNCHANGED checkout
      PROVE  IInv'
    <2> DEFINE h == [g EXCEPT !.step = step, !.result = [g.result EXCEPT !.saw = @ \cup {Found(v)}, !.checks = checks]]
    <2>1. Found(v) \in {g.sha, NoCommit} /\ g.sha \in Candidates
        BY <1>s, FoundIsOwn
    <2>2. h \in GateType
        BY <1>0, <2>1 DEF GateType, Steps, Found_
    <2>3. SoundCall(h)
        BY <1>0, <1>s, <2>1 DEF GateType, SoundCall
    <2> QED BY <1>u, <1>s, <2>2, <2>3, OneCall
<1>6. CASE ProjectCheck(v)
    <2>1. g.step = "check" /\ UNCHANGED checkout
        BY <1>6 DEF ProjectCheck, In
    <2>2. CASE Result_(v, "failed")
        BY <1>r, <2>1, <2>2 DEF Statuses, Verdicts
    <2>3. CASE Next_(v, "unspawned")
        BY <1>n, <2>1, <2>3 DEF Steps
    <2>4. CASE Found(v) # NoCommit /\ gate' = [Saw(v, gate) EXCEPT ![v].step = "acceptance"]
        <3>1. gate' = [gate EXCEPT ![v] = [g EXCEPT !.step = "acceptance",
                 !.result = [g.result EXCEPT !.saw = @ \cup {Found(v)}, !.checks = g.result.checks]]]
            BY <1>0, <2>4 DEF Saw, GateType
        <3>2. g.result.checks \in SUBSET (AcceptanceChecks \X CheckStatuses)
            BY <1>0 DEF GateType
        <3> QED BY <1>s, <2>1, <2>4, <3>1, <3>2
    <2> QED BY <1>6, <2>2, <2>3, <2>4 DEF ProjectCheck
<1>7. CASE BlamedOnShell(v)
    <2>1. g.step = "unspawned" /\ UNCHANGED checkout
          /\ \E status \in {"capability_blocked", "failed"} : Result_(v, status)
        BY <1>7 DEF BlamedOnShell, In
    <2> QED BY <1>r, <2>1 DEF Statuses, Verdicts
<1>8. CASE AcceptanceCheck(v)
    <2>1. g.step = "acceptance" /\ UNCHANGED checkout
        BY <1>8 DEF AcceptanceCheck, In
    <2>2. PICK id \in AcceptanceChecks, status \in CheckStatuses :
              gate' = [Saw(v, gate) EXCEPT ![v].result.checks = @ \cup {<<id, status>>}]
        BY <1>8 DEF AcceptanceCheck, CheckStatuses
    <2> DEFINE checks == g.result.checks \cup {<<id, status>>}
    <2>3. checks \in SUBSET (AcceptanceChecks \X CheckStatuses) /\ g.result.checks \subseteq checks
        BY <1>0 DEF GateType
    <2>4. gate' = [gate EXCEPT ![v] = [g EXCEPT !.step = "acceptance",
                 !.result = [g.result EXCEPT !.saw = @ \cup {Found(v)}, !.checks = checks]]]
        <3> DEFINE seen == [g.result EXCEPT !.saw = @ \cup {Found(v)}]
        <3>1. Saw(v, gate) = [gate EXCEPT ![v] = [g EXCEPT !.result = seen]]
            BY <1>0 DEF Saw, GateType
        <3>2. seen.checks = g.result.checks /\ [seen EXCEPT !.checks = checks] = [seen EXCEPT !.checks = @ \cup {<<id, status>>}]
            BY <1>0 DEF GateType
        <3>3. g.step = "acceptance" /\ [g EXCEPT !.result = seen].result = seen
            BY <1>0, <2>1 DEF GateType
        <3>4. gate' = [gate EXCEPT ![v] = [g EXCEPT !.result = [seen EXCEPT !.checks = checks]]]
            <4> DEFINE h == [g EXCEPT !.result = seen]
                       added == {<<id, status>>}
            <4>1. gate' = [Saw(v, gate) EXCEPT ![v].result.checks = @ \cup added]
                BY <2>2
            <4>2. [h EXCEPT !.result.checks = @ \cup added] = [g EXCEPT !.result = [seen EXCEPT !.checks = checks]]
                BY <1>0, <3>2, <3>3 DEF GateType
            <4> HIDE DEF h, added
            <4>3. gate' = [gate EXCEPT ![v] = [h EXCEPT !.result.checks = @ \cup added]]
                BY <1>0, <3>1, <4>1 DEF h
            <4> QED BY <4>2, <4>3
        <3>5. [seen EXCEPT !.checks = checks] = [g.result EXCEPT !.saw = @ \cup {Found(v)}, !.checks = checks]
            OBVIOUS
        <3> QED BY <1>0, <2>1, <3>4, <3>5 DEF GateType
    <2>5. g.sha \in g.result.saw
        BY <1>0, <2>1 DEF SoundCall
    <2> HIDE DEF checks
    <2> QED BY <1>s, <2>1, <2>3, <2>4, <2>5
<1>9. CASE CheckResult(v)
    <2>1. g.step = "acceptance" /\ UNCHANGED checkout /\ {c[1] : c \in g.result.checks} = AcceptanceChecks
          /\ Result_(v, IF \A c \in g.result.checks : c[2] = "passed" THEN "passed" ELSE "failed")
        BY <1>9 DEF CheckResult, In
    <2>2. CASE \A c \in g.result.checks : c[2] = "passed"
        <3>1. ASSUME NEW id \in AcceptanceChecks PROVE <<id, "passed">> \in g.result.checks
            <4>1. PICK c \in g.result.checks : c[1] = id
                BY <2>1
            <4>2. c \in AcceptanceChecks \X CheckStatuses
                BY <1>0 DEF GateType
            <4> QED BY <2>2, <4>1, <4>2
        <3>2. g.sha \in g.result.saw
            BY <1>0, <2>1 DEF SoundCall
        <3> QED BY <1>r, <2>1, <2>2, <3>1, <3>2 DEF Statuses, Verdicts
    <2>3. CASE ~\A c \in g.result.checks : c[2] = "passed"
        BY <1>r, <2>1, <2>3 DEF Statuses, Verdicts
    <2> QED BY <2>2, <2>3
<1>10. CASE Review(v)
    <2>1. g.step = "review" /\ UNCHANGED checkout /\ g.passed
        BY <1>0, <1>10 DEF Review, In, SoundCall
    <2>2. gate' = [gate EXCEPT ![v] = [g EXCEPT !.step = "answer",
                 !.result = [g.result EXCEPT !.saw = @ \cup {Found(v)}, !.checks = g.result.checks]]]
        BY <1>0, <1>10 DEF Review, Saw, GateType
    <2>3. g.result.checks \in SUBSET (AcceptanceChecks \X CheckStatuses)
        BY <1>0 DEF GateType
    <2> QED BY <1>s, <2>1, <2>2, <2>3
<1>11. CASE ReviewerAnswers(v)
    <2>1. g.step = "answer" /\ UNCHANGED checkout /\ g.passed
        BY <1>0, <1>11 DEF ReviewerAnswers, In, SoundCall
    <2>2. \E status \in {"no_output", "inconclusive", "approved", "changes_requested"} : Result_(v, status)
        BY <1>11 DEF ReviewerAnswers
    <2> QED BY <1>r, <2>1, <2>2 DEF Statuses, Verdicts
<1>12. CASE GateCancelled(v)
    <2>1. g.step # "idle" /\ UNCHANGED checkout
        BY <1>12 DEF GateCancelled
    <2>2. CASE Result_(v, "cancelled")
        BY <1>r, <2>1, <2>2 DEF Statuses, Verdicts
    <2>3. CASE Next_(v, "thrown")
        BY <1>n, <2>1, <2>3 DEF Steps
    <2> QED BY <1>12, <2>2, <2>3 DEF GateCancelled
<1> QED BY <1>1, <1>2, <1>3, <1>4, <1>5, <1>6, <1>7, <1>8, <1>9, <1>10, <1>11, <1>12

\* A passing check and a verdict of the review are about the commit they name: for any number
\* of executions, nothing that ran for them found another candidate in its checkout, and no
\* verdict is given before a check of the same commit has passed.
THEOREM VerdictsHold == QualityGateSpec => []VerdictsAreOfTheirCommit
<1>1. GateInit => IInv
    BY InitIsSound
<1>2. IInv /\ [QualityGateNext]_gateVars => IInv'
    <2>1. IInv /\ UNCHANGED gateVars => IInv'
        BY DEF gateVars, IInv, TypeOK, SoundPaths, SoundCall
    <2> QED BY <2>1, NextIsSound DEF QualityGateNext
<1>3. IInv => VerdictsAreOfTheirCommit
    BY DEF IInv, SoundCall, VerdictsAreOfTheirCommit, Verdicts
<1> QED BY <1>1, <1>2, <1>3, PTL DEF QualityGateSpec
====
