---- MODULE ProfileComparison ----
(***************************************************************************)
(* The recommendations of the two profile evaluations, from the evidence   *)
(* of both sides: compareProfileEvaluation over the Tasks that implementer *)
(* profiles did (apps/cli/src/profile-evaluation.ts) and                   *)
(* compareReviewerProfileEvaluation over the reviews that reviewer         *)
(* profiles gave (apps/cli/src/reviewer-profile-evaluation.ts).            *)
(*                                                                         *)
(* Abstractions.  A session's identity is that of the profile it ran       *)
(* under: the expected one, another, or one that is not all known.  The    *)
(* reasons of a report are the set of their kinds.                         *)
(***************************************************************************)
EXTENDS Integers, FiniteSets, SequencesExt

CONSTANTS
    Unknown,            \* null: not observed
    TaskEvaluations,    \* the Tasks that are compared, of both sides
    ReviewEvaluations   \* the reviews that are compared, of both sides

Sides == {"baseline", "candidate"}
Identities == Sides \cup {"reviewer"}

\* EvaluationMetricSet, of which a session reports all but the first two, and a review
\* all but the first three.
ReviewMetricKeys == {"elapsedMs", "inputTokens", "outputTokens", "toolFailures"}
SessionMetricKeys == ReviewMetricKeys \cup {"interruptions"}
MetricKeys == SessionMetricKeys \cup {"implementerActivations", "repairBatches"}

Measured == Nat \cup {Unknown}
SessionEvidence ==
    [profile : Identities \cup {Unknown}, activation : Measured, effort : [SessionMetricKeys -> Measured]]
TaskEvidence ==
    [relation : {"accepted_exact_sha", "not_yet_accepted", "blocked"}, reviewRequired : BOOLEAN,
     repairBatches : Measured, implementer : Seq(SessionEvidence), reviewer : Seq(SessionEvidence)]
ReviewEvidence ==
    [sha : {"candidate", "other", Unknown},
     verdict : {"approved", "changes_requested", "inconclusive", Unknown},
     label : {"approved", "changes_requested"}, protected : BOOLEAN, failed : BOOLEAN,
     profile : Identities \cup {Unknown}, effort : [ReviewMetricKeys -> Measured],
     archive : {"complete", "partial", Unknown}]

\* A review that failed gave no observation; a commit comes with its verdict; both
\* profiles review the same cases.
ASSUME EvidenceAssumption ==
    /\ Unknown \notin Nat \cup Identities \cup {"other", "inconclusive"}
    /\ \A sides \in TaskEvaluations :
          DOMAIN sides = Sides /\ \A s \in Sides : sides[s] \in Seq(TaskEvidence)
    /\ \A sides \in ReviewEvaluations :
          /\ DOMAIN sides = Sides
          /\ Len(sides["baseline"]) = Len(sides["candidate"])
          /\ \A s \in Sides :
                /\ sides[s] \in Seq(ReviewEvidence)
                /\ \A i \in DOMAIN sides[s] :
                      LET r == sides[s][i] IN
                      /\ r.label = sides["baseline"][i].label
                      /\ r.protected = sides["baseline"][i].protected
                      /\ r.failed => r.sha = Unknown
                      /\ r.sha = Unknown <=> r.verdict = Unknown

VARIABLE compared   \* the comparison made: [role, sides, verdict]

Other(side) == IF side = "baseline" THEN "candidate" ELSE "baseline"

\* Sums and order of metrics, of which one unknown value makes the whole unknown.
Added(values) ==
    LET upTo[k \in 0..Len(values)] == IF k = 0 THEN 0 ELSE upTo[k - 1] + values[k]
    IN  upTo[Len(values)]
Total(values) == IF Unknown \in ToSet(values) THEN Unknown ELSE Added(values)
AtMost(left, right) == left # Unknown /\ right # Unknown /\ left <= right

(***************************************************************************)
(* profileReport of the implementer's evaluation, over the Tasks of a side *)
(* and the sessions of each.                                               *)
(***************************************************************************)
\* stableImplementerIdentity: activations are known and distinct, and one identity did them.
Stable(runs) ==
    /\ \A i \in DOMAIN runs : runs[i].activation # Unknown
    /\ \A i, j \in DOMAIN runs : i # j => runs[i].activation # runs[j].activation
    /\ \A i \in DOMAIN runs : runs[i].profile # Unknown /\ runs[i].profile = runs[1].profile

\* Fault: a session counts whatever profile it ran under.
Evidenced_ByAnyone(runs, expected) == \A i \in DOMAIN runs : runs[i].profile # Unknown
Evidenced(runs, expected) == \A i \in DOMAIN runs : runs[i].profile = expected

TaskReasons(t, profile, reviewer) ==
    {why \in {"hard_correctness_gate", "implementer", "reviewer"} :
        CASE why = "hard_correctness_gate" -> t.relation # "accepted_exact_sha"
          [] why = "implementer" -> ~(/\ t.implementer # <<>>
                                      /\ Evidenced(t.implementer, profile)
                                      /\ Stable(t.implementer))
          [] why = "reviewer" -> ~(/\ Evidenced(t.reviewer, reviewer)
                                   /\ t.reviewRequired => t.reviewer # <<>>)}

SideReasons(tasks, profile, reviewer) ==
    IF tasks = <<>> THEN {"missing_tasks"}
    ELSE UNION {TaskReasons(tasks[i], profile, reviewer) : i \in DOMAIN tasks}

Correctness(tasks, reasons) ==
    IF \E i \in DOMAIN tasks : tasks[i].relation = "blocked" THEN "failed"
    ELSE IF reasons = {} THEN "passed" ELSE "unknown"

\* What a Task spent of each; without a session the activations are unknown.
Spent(t, m) ==
    CASE m = "implementerActivations" -> IF t.implementer = <<>> THEN Unknown ELSE Len(t.implementer)
      [] m = "repairBatches" -> t.repairBatches
      [] OTHER -> Total([j \in DOMAIN t.implementer |-> t.implementer[j].effort[m]])

\* aggregateMetrics.
Metrics(tasks) ==
    [m \in MetricKeys |->
        IF \A i \in DOMAIN tasks : tasks[i].implementer = <<>> THEN Unknown
        ELSE Total([i \in DOMAIN tasks |-> Spent(tasks[i], m)])]

(***************************************************************************)
(* What both evaluations conclude from the correctness of the sides, the   *)
(* reasons against a conclusion and the metrics, the less the better.      *)
(***************************************************************************)
\* strictlyLessOrEqual.
NoWorse(left, right) == \A m \in DOMAIN left : AtMost(left[m], right[m])

Recommended(correctness, reasons, gates, metrics) ==
    LET passed == \A s \in Sides : correctness[s] = "passed"
        known == \A s \in Sides : \A m \in DOMAIN metrics[s] : metrics[s][m] # Unknown
        chosen == {s \in Sides :
            \/ /\ reasons \ gates = {}
               /\ correctness[s] = "passed" /\ correctness[Other(s)] = "failed"
            \/ /\ passed /\ reasons = {} /\ known
               /\ NoWorse(metrics[s], metrics[Other(s)]) /\ ~NoWorse(metrics[Other(s)], metrics[s])}
    IN  IF chosen = {} THEN "inconclusive" ELSE CHOOSE s \in Sides : s \in chosen

\* compareProfileEvaluation.
CompareProfiles(sides, reviewer) ==
    LET reasons == [s \in Sides |-> SideReasons(sides[s], s, reviewer)]
    IN  Recommended([s \in Sides |-> Correctness(sides[s], reasons[s])],
                    UNION {reasons[s] : s \in Sides}, {"hard_correctness_gate"},
                    [s \in Sides |-> Metrics(sides[s])])

(***************************************************************************)
(* The reviewer's evaluation, over the runs of a side, with archive the    *)
(* completeness of the Session Archive as it was read again when all the   *)
(* runs were over (revalidateArchiveEvidence).                             *)
(***************************************************************************)
HasVerdict(r) == r.sha = "candidate" /\ r.verdict # "inconclusive"

RunReason(r) == r.failed \/ r.sha = "other" \/ r.verdict = "inconclusive" \/ r.archive # "complete"
RunCorrectness(r) ==
    IF ~HasVerdict(r) \/ r.failed \/ r.archive # "complete" THEN "inconclusive"
    ELSE IF r.verdict = r.label THEN "correct" ELSE "incorrect"

HardRegression(r) ==
    r.sha = "candidate" /\ r.protected /\ r.verdict = "approved" /\ r.label # "approved"

ReviewReasons(runs, profile) ==
    IF runs = <<>> THEN {"missing_runs"} ELSE
    {why \in {"run", "protected_false_approval", "profile"} :
        \E i \in DOMAIN runs :
            CASE why = "run" -> RunReason(runs[i])
              [] why = "protected_false_approval" -> HardRegression(runs[i])
              [] why = "profile" -> runs[i].profile # profile}

ReviewCorrectness(runs, profile) ==
    IF \E i \in DOMAIN runs : RunCorrectness(runs[i]) = "incorrect" THEN "failed"
    ELSE IF /\ runs # <<>>
            /\ \A i \in DOMAIN runs : RunCorrectness(runs[i]) = "correct" /\ runs[i].profile = profile
    THEN "passed" ELSE "unknown"

\* The counts of right and wrong verdicts are equal on two sides that passed.
ReviewMetrics(runs) ==
    [m \in ReviewMetricKeys |-> Total([i \in DOMAIN runs |-> runs[i].effort[m]])]

CompareReviewers(sides) ==
    Recommended([s \in Sides |-> ReviewCorrectness(sides[s], s)],
                UNION {ReviewReasons(sides[s], s) : s \in Sides}, {"protected_false_approval"},
                [s \in Sides |-> ReviewMetrics(sides[s])])

(***************************************************************************)
(* One comparison.                                                          *)
(***************************************************************************)
ComparisonInit == compared = [role |-> "none"]

CompareImplementers ==
    /\ compared.role = "none"
    /\ \E sides \in TaskEvaluations :
          compared' = [role |-> "implementer", sides |-> sides,
                       verdict |-> CompareProfiles(sides, "reviewer")]

CompareReviews ==
    /\ compared.role = "none"
    /\ \E sides \in ReviewEvaluations :
          compared' = [role |-> "reviewer", sides |-> sides, verdict |-> CompareReviewers(sides)]

ComparisonNext == CompareImplementers \/ CompareReviews

ComparisonSpec == ComparisonInit /\ [][ComparisonNext]_compared

(***************************************************************************)
(* Properties.                                                              *)
(***************************************************************************)
\* One side spent no more of anything than the other and less of something, all of it known:
\* sides of which each spent more of something are not comparable.
Dominates(mine, theirs) ==
    /\ \A m \in DOMAIN mine : mine[m] # Unknown /\ theirs[m] # Unknown /\ mine[m] <= theirs[m]
    /\ \E m \in DOMAIN mine : mine[m] < theirs[m]

\* All that was done for a Task is known and was done by its side, once per activation.
Attributed(side, t) ==
    /\ Len(t.implementer) = Cardinality({t.implementer[i].activation : i \in DOMAIN t.implementer})
    /\ t.implementer # <<>> /\ \A r \in ToSet(t.implementer) : r.activation # Unknown
    /\ t.reviewRequired => t.reviewer # <<>>
    /\ {r.profile : r \in ToSet(t.implementer)} = {side}
    /\ {r.profile : r \in ToSet(t.reviewer)} \subseteq {"reviewer"}

TasksWin(side, mine, theirs) ==
    /\ mine # <<>> /\ \A t \in ToSet(mine) : Attributed(side, t) /\ t.relation = "accepted_exact_sha"
    /\ theirs # <<>> /\ \A t \in ToSet(theirs) : Attributed(Other(side), t)
    /\ \/ \E t \in ToSet(theirs) : t.relation = "blocked"
       \/ /\ \A t \in ToSet(theirs) : t.relation = "accepted_exact_sha"
          /\ Dominates(Metrics(mine), Metrics(theirs))

\* A review of the case by its side, or a session of its side that gave none.
Credible(side, r) ==
    /\ r.profile = side /\ r.archive = "complete"
    /\ \/ r.sha = "candidate" /\ r.verdict \in {"approved", "changes_requested"}
       \/ r.sha = Unknown /\ ~r.failed
Right(r) == r.sha = "candidate" /\ r.verdict = r.label
Wrong(r) == r.sha = "candidate" /\ r.verdict # r.label

ReviewsWin(side, mine, theirs) ==
    /\ mine # <<>> /\ \A r \in ToSet(mine) : Credible(side, r) /\ Right(r)
    /\ theirs # <<>> /\ \A r \in ToSet(theirs) : Credible(Other(side), r)
    /\ \/ \E r \in ToSet(theirs) : Wrong(r)
       \/ /\ \A r \in ToSet(theirs) : Right(r)
          /\ Dominates(ReviewMetrics(mine), ReviewMetrics(theirs))

\* A side is recommended exactly when all that both did is known and theirs, all of its own
\* was right, and the other was wrong somewhere, or was right as well and is dominated.
\* A blocked Task makes its side wrong here, and so the other side recommended; the document
\* (docs/AGENT_QUICKSTART.md:636) says inconclusive, the tests what this property says.
RecommendationsAreEarned ==
    compared.role # "none" =>
        \A side \in Sides :
            LET mine == compared.sides[side]
                theirs == compared.sides[Other(side)]
            IN  (compared.verdict = side) <=>
                    IF compared.role = "implementer" THEN TasksWin(side, mine, theirs)
                    ELSE ReviewsWin(side, mine, theirs)
====
