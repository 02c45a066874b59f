---- MODULE MCComponents ----
(***************************************************************************)
(* One run for the components that keep a state of their own and are used  *)
(* through their results only.  A behaviour is one of the component in     *)
(* part; every other stays where its Init puts it, so that the states of   *)
(* the run are the sum, not the product, of the components' states.        *)
(***************************************************************************)
EXTENDS
    CodingSession, AppServerSession, OpenCodeSession, CandidateWorkspace, QualityGate,
    TaskObservation, TaskPages, HermesBridge, ForgeGates, ProfileComparison, ProfileEvaluation

VARIABLE part

Parts ==
    {"session", "appServer", "openCode", "workspace", "gate", "observation", "pages",
     "hermes", "forge", "comparison", "evaluation"}

ComponentsInit ==
    /\ part \in Parts
    /\ SessionInit
    /\ AppInit
    /\ OpenCodeInit
    /\ WorkspaceInit
    /\ GateInit
    /\ ObservationInit
    /\ PagesInit
    /\ HermesInit
    /\ GatesInit
    /\ ComparisonInit
    /\ EvaluationInit
    /\ part # "observation" => reader.mode = "follow"

\* Nothing but the variables of the component moves.
Only(component, step) ==
    /\ part = component
    /\ step
    /\ UNCHANGED part
    /\ component = "session" \/ UNCHANGED sessionVars
    /\ component = "appServer" \/ UNCHANGED appVars
    /\ component = "openCode" \/ UNCHANGED openCodeVars
    /\ component = "workspace" \/ UNCHANGED workspaceVars
    /\ component = "gate" \/ UNCHANGED gateVars
    /\ component = "observation" \/ UNCHANGED observationVars
    /\ component = "pages" \/ UNCHANGED pageVars
    /\ component = "hermes" \/ UNCHANGED hermesVars
    /\ component = "forge" \/ UNCHANGED gatesVars
    /\ component = "comparison" \/ UNCHANGED compared
    /\ component = "evaluation" \/ UNCHANGED evaluationVars

ComponentsNext ==
    \/ Only("session", SessionNext)
    \/ Only("appServer", AppNext)
    \/ Only("openCode", OpenCodeNext)
    \/ Only("workspace", WorkspaceNext)
    \/ Only("gate", QualityGateNext)
    \/ Only("observation", ObservationNext)
    \/ Only("pages", PagesNext)
    \/ Only("hermes", HermesNext)
    \/ Only("forge", GatesNext)
    \/ Only("comparison", ComparisonNext)
    \/ Only("evaluation", EvaluationNext)

ComponentsSpec ==
    ComponentsInit /\ [][ComponentsNext]_<<part, sessionVars, appVars, openCodeVars,
        workspaceVars, gateVars, observationVars, pageVars, hermesVars, gatesVars,
        compared, evaluationVars>>

OneReport == [s \in Sessions |-> IF s = 1 THEN 1 ELSE 0]

(***************************************************************************)
(* The evidence that is compared: Tasks of one or two sessions, of which   *)
(* the second may repeat the first's activation, and reviews; what they    *)
(* spent varies where it was they who did it.                              *)
(***************************************************************************)
Spends(time, tokens) ==
    [m \in SessionMetricKeys |->
        CASE m = "elapsedMs" -> time [] m = "inputTokens" -> tokens [] OTHER -> 0]
Session(profile, activation, effort) ==
    [profile |-> profile, activation |-> activation, effort |-> effort]
TaskOf(relation, required, batches, implementer, reviewer) ==
    [relation |-> relation, reviewRequired |-> required, repairBatches |-> batches,
     implementer |-> implementer, reviewer |-> reviewer]

Relations == {"accepted_exact_sha", "blocked", "not_yet_accepted"}
Reviewed == <<Session("reviewer", 1, Spends(1, 1))>>

SessionLists ==
    {<<>>} \cup {<<Session(p, a, Spends(1, 1))>> : p \in Sides \cup {Unknown}, a \in {1, Unknown}}
        \cup {<<Session(p, 1, Spends(1, 1)), Session(q, a, Spends(1, 1))>> :
                p \in Sides, q \in Sides, a \in {1, 2}}
AttributionTasks ==
    {TaskOf(relation, required, 0, implementer, reviewer) :
        relation \in Relations, required \in BOOLEAN, implementer \in SessionLists,
        reviewer \in {<<>>, Reviewed, <<Session(Unknown, 1, Spends(1, 1))>>}}

Efforts ==
    {Spends(time, tokens) : time \in {1, 2}, tokens \in {1, 2, Unknown}}
        \cup {[Spends(1, 1) EXCEPT !["interruptions"] = 1]}
EffortTasks(batches, relations) ==
    {TaskOf(relation, TRUE, n, <<Session(p, 1, e)>>, Reviewed) :
        relation \in relations, n \in batches, p \in Sides, e \in Efforts}

SomeTaskEvaluations ==
    [Sides -> {<<t>> : t \in AttributionTasks \cup EffortTasks({0, 1, Unknown}, {"accepted_exact_sha"})}]
        \cup {[s \in Sides |-> IF s = "baseline" THEN <<a, b>> ELSE <<c, d>>] :
                a, b \in EffortTasks({0}, Relations \ {"blocked"}),
                c, d \in {TaskOf(relation, TRUE, n, <<Session("candidate", 1, Spends(2, e))>>, Reviewed) :
                            relation \in Relations, n \in {0}, e \in {1, 2}}}

ReviewsOf(label, protected, efforts) ==
    {[sha |-> seen[1], verdict |-> seen[2], label |-> label, protected |-> protected,
      failed |-> seen[3], profile |-> profile, effort |-> effort, archive |-> archive] :
        seen \in {<<"candidate", "approved", FALSE>>, <<"candidate", "changes_requested", FALSE>>,
                  <<"candidate", "inconclusive", FALSE>>, <<"other", "approved", FALSE>>,
                  <<Unknown, Unknown, FALSE>>, <<Unknown, Unknown, TRUE>>},
        profile \in Sides \cup {Unknown}, effort \in efforts, archive \in {"complete", "partial"}}

Judged(time, tokens) == [m \in ReviewMetricKeys |-> Spends(time, tokens)[m]]

SomeReviewEvaluations ==
    UNION {[Sides -> {<<r>> : r \in
                ReviewsOf(label, protected, {Judged(1, 2), Judged(2, 1), Judged(2, 2), Judged(1, Unknown)})}] :
            label \in {"approved", "changes_requested"}, protected \in BOOLEAN}
        \cup {[s \in Sides |-> IF s = "baseline" THEN <<a, b>> ELSE <<c, d>>] :
                a, b \in {r \in ReviewsOf("approved", TRUE, {Judged(1, 1), Judged(1, 2)}) :
                            r.profile = "baseline" /\ r.archive = "complete"},
                c, d \in {r \in ReviewsOf("approved", TRUE, {Judged(1, 1)}) :
                            r.profile = "candidate" /\ r.archive = "complete"}}
====
