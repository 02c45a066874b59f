---- MODULE TaskAuthority ----
(***************************************************************************)
(* Task Authority: the durable owner of every Task (packages/task-authority).*)
(*                                                                         *)
(* One SQLite row per Task holds its TaskResult; one row per Repository    *)
(* holds the writer lease; an append-only table holds the Task's history.  *)
(* Every operation below is one immediate transaction of                   *)
(* task-authority.ts, so it is one atomic step here.  Callers are          *)
(* arbitrary: any operation may be called at any time, with any input that *)
(* the callers' own types allow; the reducer has to refuse what is stale.  *)
(* DeliveryRun.tla restricts the callers to the real ones.                 *)
(*                                                                         *)
(* Abstractions.  A commit of a Task's branch is its position in ancestry  *)
(* order (freeze only returns a strict descendant of the commit it started *)
(* from); 0 is the null SHA and the null activation.  An event is its      *)
(* identity.  The TaskResult keeps every field a guard reads.              *)
(***************************************************************************)
EXTENDS Integers, Sequences, FiniteSets

CONSTANTS
    Tasks,              \* Task identifiers
    Repositories,       \* writer identities (owner/name)
    RepositoryOf,       \* [Tasks -> Repositories]: the contract's Repository
    MergeAuthorized,    \* the Tasks whose contract has authorization.merge
    Deadlined,          \* the Tasks whose contract has an elapsed budget
    ReviewLimit,        \* [Tasks -> Nat or Unlimited]: maxReviewCycles
    ActivationLimit,    \* [Tasks -> Nat or Unlimited]: maxImplementerActivations
    Unlimited,          \* the null CountBudget
    Capacity,           \* activeTaskCapacity of the server
    Owners,             \* execution owner IDs (one per server process)
    PrNumbers,          \* pull request numbers
    Blockers,           \* why a Task may be blocked
    MaxCommit,          \* bound: commits on a Task's branch
    MaxRevision,        \* bound: revisions of one Task
    Null                \* the null of every nullable field

ASSUME TasksAssumption ==
    /\ RepositoryOf \in [Tasks -> Repositories]
    /\ MergeAuthorized \subseteq Tasks
    /\ Deadlined \subseteq Tasks
    /\ Null \notin Tasks \cup Owners \cup Repositories

ASSUME BudgetsAssumption ==
    /\ ReviewLimit \in [Tasks -> Nat \cup {Unlimited}]
    /\ ActivationLimit \in [Tasks -> Nat \cup {Unlimited}]
    /\ Unlimited \notin Nat
    /\ Capacity \in Nat
    /\ MaxCommit \in Nat
    /\ MaxRevision \in Nat
    /\ "elapsed_budget" \in Blockers

VARIABLES
    task,       \* [Tasks -> TaskResult or Null]: task_runs.result, Null before admission
    lease,      \* [Repositories -> Tasks or Null]: repository_leases
    expired,    \* the admitted Tasks whose deadline has passed
    events      \* [Tasks -> Seq(EventId)]: task_events, in sequence order

vars == <<task, lease, expired, events>>

(***************************************************************************)
(* Task state (task-state.ts)                                              *)
(***************************************************************************)

TerminalStates == {"reviewed_pr", "merged", "blocked"}
ResumeStates == {"admitted", "candidate", "checked", "reviewing", "reviewed"}
States == ResumeStates \cup {"waiting"} \cup TerminalStates

RetryReasons ==
    {"network_interruption", "project_check_capability", "delivery_reconciliation",
     "external_review", "pipeline_checks"}
WaitingReasons == RetryReasons \cup {"review_interruption"}
DeliveryReasons == {"delivery_reconciliation", "external_review", "pipeline_checks"}

Commits == 1..MaxCommit
Verdicts == {"approved", "changes_requested", "inconclusive"}
FailureClasses == {"transient", "deterministic"}

\* quality-gate.ts: a check with an unavailable acceptance check is never passed.
CheckResult ==
    {c \in [sha : Commits, status : {"passed", "failed"}, unavailable : BOOLEAN] :
        c.status = "passed" => ~c.unavailable}
ReviewVerdict == [sha : Commits, verdict : Verdicts]
MergeEffect == [approvedHeadSha : Commits, prNumber : PrNumbers]
DeliveryEffect ==
    [sha : Commits, prNumber : PrNumbers, merge : MergeEffect \cup {Null}]
TaskWaiting ==
    [reason : WaitingReasons, resumeState : ResumeStates, activation : Nat,
     failureClass : FailureClasses \cup {Null}]

TaskResult ==
    [revision : Nat,
     state : States,
     mergeAuthorized : BOOLEAN,
     candidateSha : Nat,
     candidateFence : Nat,
     check : CheckResult \cup {Null},
     review : ReviewVerdict \cup {Null},
     repairBatchRecorded : BOOLEAN,
     reviewAttempt : Owners \cup {Null},
     delivery : DeliveryEffect \cup {Null},
     blocker : Blockers \cup {Null},
     waiting : TaskWaiting \cup {Null},
     activeActivation : Nat,
     implementerActivations : Nat,
     reviewCycles : Nat,
     changesRequestedBatches : Nat,
     restartRecoveries : Nat]

\* The null of a nullable field is none of that field's values.
ASSUME NullAssumption ==
    /\ Null \notin CheckResult \cup ReviewVerdict \cup MergeEffect \cup DeliveryEffect
    /\ Null \notin TaskWaiting \cup Blockers
    /\ Null \notin TaskResult

\* The transitions table, one row per state.
CanTransition(from, to) ==
    \/ from = "admitted"  /\ to \in {"admitted", "candidate", "waiting", "blocked"}
    \/ from = "waiting"   /\ to \in {"waiting", "reviewing", "blocked"}
    \/ from = "candidate" /\ to \in {"candidate", "checked", "waiting", "blocked"}
    \/ from = "checked"   /\ to \in {"checked", "candidate", "reviewing", "reviewed",
                                     "waiting", "blocked"}
    \/ from = "reviewing" /\ to \in {"reviewing", "checked", "reviewed", "waiting",
                                     "blocked"}
    \/ from = "reviewed"  /\ to \in {"reviewed", "candidate", "reviewed_pr", "merged",
                                     "waiting", "blocked"}
    \/ from \in TerminalStates /\ to = from

IsTerminalState(s) == s \in TerminalStates
CountBudgetExhausted(limit, used) == limit # Unlimited /\ used >= limit

Admitted(t) == task[t] # Null
Active(t) == Admitted(t) /\ ~IsTerminalState(task[t].state)

\* The check that review and delivery stand on: passed, for the current candidate.
PassingCheck(r) ==
    /\ r.candidateSha # 0
    /\ r.check # Null
    /\ r.check.status = "passed"
    /\ r.check.sha = r.candidateSha

ApprovedReview(r) ==
    r.review # Null /\ r.review.verdict = "approved" /\ r.review.sha = r.candidateSha

UnavailableCheck(r) == r.check # Null /\ r.check.unavailable

(***************************************************************************)
(* applyTaskFact: for each fact, the condition under which the reducer      *)
(* accepts it and the TaskResult it returns.  A rejected fact throws, the   *)
(* transaction rolls back and nothing changes.                              *)
(***************************************************************************)

\* Fault: the fence is not compared with the active reservation.
AcceptsCandidate_AnyFence(r, sha, baseSha, fence) ==
    /\ CanTransition(r.state, "candidate")
    /\ fence > 0
    /\ r.candidateSha # 0 => baseSha = r.candidateSha

AcceptsCandidate(r, sha, baseSha, fence) ==
    /\ CanTransition(r.state, "candidate")
    /\ fence > 0 /\ fence = r.activeActivation
    /\ r.candidateSha # 0 => baseSha = r.candidateSha

\* Fault: the previous candidate's check is kept.
ApplyCandidate_KeepsCheck(r, sha, fence) ==
    [r EXCEPT !.state = "candidate",
              !.candidateSha = sha,
              !.candidateFence = fence,
              !.review = Null,
              !.repairBatchRecorded = FALSE,
              !.delivery = Null,
              !.activeActivation = 0]

ApplyCandidate(r, sha, fence) ==
    [r EXCEPT !.state = "candidate",
              !.candidateSha = sha,
              !.candidateFence = fence,
              !.check = Null,
              !.review = Null,
              !.repairBatchRecorded = FALSE,
              !.delivery = Null,
              !.blocker = Null,
              !.activeActivation = 0]

AcceptsCheck(r, check) ==
    /\ CanTransition(r.state, "checked")
    /\ r.candidateSha # 0 /\ check.sha = r.candidateSha

ApplyCheck(r, check) ==
    [r EXCEPT !.state = "checked",
              !.check = check,
              !.review = Null,
              !.repairBatchRecorded = FALSE,
              !.delivery = Null]

OwnsReview(r, owner) == r.reviewAttempt # Null /\ r.reviewAttempt = owner

AcceptsReview(r, review, owner) ==
    /\ r.state = "reviewing"
    /\ OwnsReview(r, owner)
    /\ PassingCheck(r)
    /\ review.sha = r.candidateSha

ApplyReview(r, review) ==
    [r EXCEPT !.state = "reviewed",
              !.review = review,
              !.repairBatchRecorded = FALSE,
              !.reviewAttempt = Null,
              !.delivery = Null]

AcceptsReviewStarted(r, takeover) ==
    /\ CanTransition(r.state, "reviewing")
    /\ takeover <=> r.state = "reviewing"
    /\ PassingCheck(r)
    /\ r.state = "waiting" =>
          /\ r.waiting # Null
          /\ r.waiting.reason = "review_interruption"
          /\ r.waiting.activation = r.candidateFence
    /\ ~takeover => r.reviewAttempt = Null

ApplyReviewStarted(r, owner) ==
    [r EXCEPT !.state = "reviewing",
              !.waiting = Null,
              !.review = Null,
              !.repairBatchRecorded = FALSE,
              !.reviewAttempt = owner,
              !.delivery = Null,
              !.blocker = Null,
              !.reviewCycles = @ + 1]

AcceptsReviewReleased(r, owner) ==
    /\ CanTransition(r.state, "checked")
    /\ PassingCheck(r)
    /\ OwnsReview(r, owner)

ApplyReviewReleased(r) ==
    [r EXCEPT !.state = "checked",
              !.waiting = Null,
              !.review = Null,
              !.repairBatchRecorded = FALSE,
              !.reviewAttempt = Null,
              !.delivery = Null,
              !.blocker = Null,
              !.reviewCycles = IF @ > 0 THEN @ - 1 ELSE 0]

AcceptsReviewInterrupted(r, sha, owner) ==
    /\ r.state = "reviewing"
    /\ OwnsReview(r, owner)
    /\ PassingCheck(r)
    /\ sha = r.candidateSha
    /\ r.candidateFence # 0

ApplyReviewInterrupted(r, failureClass) ==
    [r EXCEPT !.state = "waiting",
              !.review = Null,
              !.repairBatchRecorded = FALSE,
              !.reviewAttempt = Null,
              !.waiting = [reason |-> "review_interruption",
                           resumeState |-> "reviewing",
                           activation |-> r.candidateFence,
                           failureClass |-> failureClass],
              !.activeActivation = 0]

DeliveredState(delivery) == IF delivery.merge # Null THEN "merged" ELSE "reviewed_pr"

AcceptsDelivery(r, delivery) ==
    /\ CanTransition(r.state, DeliveredState(delivery))
    /\ r.candidateSha # 0 /\ r.check # Null /\ r.check.status = "passed"
    /\ r.review # Null /\ r.review.verdict = "approved"
    /\ delivery.sha = r.candidateSha
    /\ delivery.sha = r.review.sha
    /\ r.mergeAuthorized <=> delivery.merge # Null
    /\ delivery.merge # Null =>
          /\ delivery.merge.approvedHeadSha = delivery.sha
          /\ delivery.merge.prNumber = delivery.prNumber

ApplyDelivery(r, delivery) ==
    [r EXCEPT !.state = DeliveredState(delivery),
              !.delivery = delivery]

AcceptsRepairBatch(r) ==
    r.state = "reviewed" /\ r.review # Null /\ r.review.verdict = "changes_requested"

ApplyRepairBatch(r) ==
    [r EXCEPT !.repairBatchRecorded = TRUE,
              !.changesRequestedBatches = @ + 1]

\* Where a wait may be entered, and the fence it must name, by its reason.
NetworkWait(r, activation) == r.activeActivation = activation

CapabilityWait(r, activation) ==
    /\ r.activeActivation = 0
    /\ r.candidateFence = activation
    /\ r.candidateSha # 0
    /\ \/ r.state = "candidate" /\ r.check = Null
       \/ /\ r.state = "checked"
          /\ UnavailableCheck(r)
          /\ r.check.sha = r.candidateSha

\* Fault: the review's verdict is not looked at.
DeliveryWait_AnyVerdict(r, activation) ==
    /\ r.state = "reviewed"
    /\ r.activeActivation = 0
    /\ r.candidateFence = activation
    /\ PassingCheck(r)

DeliveryWait(r, activation) ==
    /\ r.state = "reviewed"
    /\ r.activeActivation = 0
    /\ r.candidateFence = activation
    /\ PassingCheck(r)
    /\ ApprovedReview(r)

ValidActivation(r, reason, activation) ==
    /\ activation > 0
    /\ \/ reason = "network_interruption" /\ NetworkWait(r, activation)
       \/ reason = "project_check_capability" /\ CapabilityWait(r, activation)
       \/ reason \in DeliveryReasons /\ DeliveryWait(r, activation)

AcceptsWaiting(r, reason, resumeState, activation) ==
    /\ CanTransition(r.state, "waiting")
    /\ ValidActivation(r, reason, activation)
    /\ \/ resumeState = r.state
       \/ /\ reason = "project_check_capability"
          /\ r.state = "checked"
          /\ resumeState = "candidate"
          /\ UnavailableCheck(r)

ApplyWaiting(r, reason, resumeState, activation) ==
    [r EXCEPT !.state = "waiting",
              !.waiting = [reason |-> reason,
                           resumeState |-> resumeState,
                           activation |-> activation,
                           failureClass |-> Null],
              !.activeActivation = 0]

\* Fault: a delivery wait resumes before its review.
ApplyRetry_FromChecked(r) ==
    [r EXCEPT !.state = IF r.waiting.reason \in DeliveryReasons THEN "checked"
                                                             ELSE r.waiting.resumeState,
              !.waiting = Null]

ApplyRetry(r) ==
    [r EXCEPT !.state = r.waiting.resumeState,
              !.waiting = Null,
              !.activeActivation = 0,
              !.check = IF /\ r.waiting.reason = "project_check_capability"
                           /\ r.waiting.resumeState = "candidate"
                           /\ UnavailableCheck(r)
                        THEN Null ELSE @]

ApplyBlocked(r, blocker) ==
    [r EXCEPT !.state = "blocked",
              !.blocker = blocker,
              !.waiting = Null,
              !.activeActivation = 0,
              !.reviewAttempt = Null]

\* The next activation; a reservation found active belongs to a writer that
\* never finished.
ApplyActivation(r) ==
    [r EXCEPT !.implementerActivations = @ + 1,
              !.restartRecoveries = @ + (IF r.activeActivation # 0 THEN 1 ELSE 0),
              !.activeActivation = r.implementerActivations + 1]

(***************************************************************************)
(* History: appendEvent drops an event whose identity the Task already has.*)
(***************************************************************************)

HasEvent(h, id) == \E i \in DOMAIN h : h[i] = id
AppendEvent(h, id) == IF HasEvent(h, id) THEN h ELSE Append(h, id)

\* Fault: the terminal event comes first.
AppendFactEvents_TerminalFirst(h, id, state) ==
    IF IsTerminalState(state)
    THEN AppendEvent(AppendEvent(h, <<"terminal", state>>), id)
    ELSE AppendEvent(h, id)

\* The fact's own event, then the terminal event of a fact that ends the Task.
AppendFactEvents(h, id, state) ==
    IF IsTerminalState(state)
    THEN AppendEvent(AppendEvent(h, id), <<"terminal", state>>)
    ELSE AppendEvent(h, id)

(***************************************************************************)
(* Operations                                                              *)
(***************************************************************************)

HoldsLease(t) == lease[RepositoryOf[t]] = t

\* Fault: the lease outlives the Task.
ReleaseIfTerminal_Never(t, state) == UNCHANGED lease

ReleaseIfTerminal(t, state) ==
    lease' = IF IsTerminalState(state)
             THEN [lease EXCEPT ![RepositoryOf[t]] = Null]
             ELSE lease

\* The row update every operation ends with: the next revision of the result.
Save(t, next, id) ==
    /\ task[t].revision < MaxRevision
    /\ task' = [task EXCEPT ![t] = [next EXCEPT !.revision = task[t].revision + 1]]
    /\ events' = [events EXCEPT ![t] = AppendFactEvents(@, id, next.state)]
    /\ ReleaseIfTerminal(t, next.state)
    /\ UNCHANGED expired

\* persistFact's own checks: the compare-and-set on the revision, then the lease.
CanPersist(t, rev) ==
    /\ Admitted(t)
    /\ rev = task[t].revision
    /\ HoldsLease(t)

NewTask(t) ==
    [revision |-> 0, state |-> "admitted", mergeAuthorized |-> t \in MergeAuthorized,
     candidateSha |-> 0, candidateFence |-> 0, check |-> Null, review |-> Null,
     repairBatchRecorded |-> FALSE, reviewAttempt |-> Null, delivery |-> Null,
     blocker |-> Null, waiting |-> Null, activeActivation |-> 0,
     implementerActivations |-> 0, reviewCycles |-> 0, changesRequestedBatches |-> 0,
     restartRecoveries |-> 0]

\* Fault: the lease row is not looked at.
CanAdmit_AnyWriter(t) ==
    ~Admitted(t) /\ Cardinality({u \in Tasks : Active(u)}) < Capacity

\* A second admission of the same contract returns the row and changes nothing.
CanAdmit(t) ==
    /\ ~Admitted(t)
    /\ Cardinality({u \in Tasks : Active(u)}) < Capacity
    /\ lease[RepositoryOf[t]] = Null

Admit(t) ==
    /\ CanAdmit(t)
    /\ lease' = [lease EXCEPT ![RepositoryOf[t]] = t]
    /\ task' = [task EXCEPT ![t] = NewTask(t)]
    /\ events' = [events EXCEPT ![t] = <<<<"task-admitted">>>>]
    /\ UNCHANGED expired

CanRecordCandidate(t, rev, sha, baseSha, fence) ==
    CanPersist(t, rev) /\ AcceptsCandidate(task[t], sha, baseSha, fence)

RecordCandidate(t, rev, sha, baseSha, fence) ==
    /\ CanRecordCandidate(t, rev, sha, baseSha, fence)
    /\ Save(t, ApplyCandidate(task[t], sha, fence), <<"candidate", sha>>)

CanRecordCheck(t, rev, check) == CanPersist(t, rev) /\ AcceptsCheck(task[t], check)

RecordCheck(t, rev, check) ==
    /\ CanRecordCheck(t, rev, check)
    /\ Save(t, ApplyCheck(task[t], check), <<"check", rev>>)

CanRecordReview(t, rev, review, owner) ==
    CanPersist(t, rev) /\ AcceptsReview(task[t], review, owner)

RecordReview(t, rev, review, owner) ==
    /\ CanRecordReview(t, rev, review, owner)
    /\ Save(t, ApplyReview(task[t], review), <<"review", rev>>)

CanRecordReviewInterruption(t, rev, sha, owner) ==
    CanPersist(t, rev) /\ AcceptsReviewInterrupted(task[t], sha, owner)

RecordReviewInterruption(t, rev, sha, failureClass, owner) ==
    /\ CanRecordReviewInterruption(t, rev, sha, owner)
    /\ Save(t, ApplyReviewInterrupted(task[t], failureClass), <<"review", rev>>)

CanReleaseReviewAttempt(t, rev, owner) ==
    CanPersist(t, rev) /\ AcceptsReviewReleased(task[t], owner)

ReleaseReviewAttempt(t, rev, owner) ==
    /\ CanReleaseReviewAttempt(t, rev, owner)
    /\ Save(t, ApplyReviewReleased(task[t]), <<"review-released", rev>>)

\* reserveReviewAttempt reads the row itself: no compare-and-set.
CanReserveReviewAttempt(t) ==
    /\ Admitted(t)
    /\ \/ task[t].state = "checked"
       \/ task[t].state = "waiting" /\ task[t].waiting.reason = "review_interruption"
    /\ ~CountBudgetExhausted(ReviewLimit[t], task[t].reviewCycles)
    /\ HoldsLease(t)
    /\ AcceptsReviewStarted(task[t], FALSE)

ReserveReviewAttempt(t, owner) ==
    /\ CanReserveReviewAttempt(t)
    /\ Save(t, ApplyReviewStarted(task[t], owner), <<"review-started", task[t].revision>>)

CanTakeOverReviewAttempt(t) ==
    /\ Admitted(t)
    /\ task[t].state = "reviewing"
    /\ HoldsLease(t)
    /\ ~CountBudgetExhausted(ReviewLimit[t], task[t].reviewCycles)
    /\ AcceptsReviewStarted(task[t], TRUE)

TakeOverReviewAttempt(t, owner) ==
    /\ CanTakeOverReviewAttempt(t)
    /\ Save(t, ApplyReviewStarted(task[t], owner), <<"review-started", task[t].revision>>)

CanRecordDelivery(t, rev, delivery) ==
    CanPersist(t, rev) /\ AcceptsDelivery(task[t], delivery)

RecordDelivery(t, rev, delivery) ==
    /\ CanRecordDelivery(t, rev, delivery)
    /\ Save(t, ApplyDelivery(task[t], delivery), <<"delivery", delivery.sha>>)

CanRecordRepairBatch(t, rev) == CanPersist(t, rev) /\ AcceptsRepairBatch(task[t])

\* Fault: a batch found recorded is counted again.
RecordRepairBatch_Again(t, rev) ==
    /\ CanRecordRepairBatch(t, rev)
    /\ Save(t, ApplyRepairBatch(task[t]), <<"repair", rev>>)

\* A batch already recorded is returned as it is, with no new revision.
RecordRepairBatch(t, rev) ==
    /\ CanRecordRepairBatch(t, rev)
    /\ \/ /\ ~task[t].repairBatchRecorded
          /\ Save(t, ApplyRepairBatch(task[t]), <<"repair", rev>>)
       \/ /\ task[t].repairBatchRecorded
          /\ UNCHANGED vars

CanRecordWaiting(t, rev, reason, resumeState, activation) ==
    CanPersist(t, rev) /\ AcceptsWaiting(task[t], reason, resumeState, activation)

RecordWaiting(t, rev, reason, resumeState, activation) ==
    /\ CanRecordWaiting(t, rev, reason, resumeState, activation)
    /\ Save(t, ApplyWaiting(task[t], reason, resumeState, activation),
            <<"waiting", reason, activation>>)

CanBlock(t, rev) == CanPersist(t, rev) /\ CanTransition(task[t].state, "blocked")

Block(t, rev, blocker) ==
    /\ CanBlock(t, rev)
    /\ Save(t, ApplyBlocked(task[t], blocker), <<"blocked", rev>>)

CanReserveActivation(t) ==
    /\ Active(t)
    /\ HoldsLease(t)
    /\ ~CountBudgetExhausted(ActivationLimit[t], task[t].implementerActivations)

ReserveActivation(t) ==
    /\ CanReserveActivation(t)
    /\ LET next == ApplyActivation(task[t]) IN
       Save(t, next, <<"activation", next.implementerActivations>>)

\* retryTask with the caller's CountBudget.
CanRetry(t, budget) ==
    /\ Admitted(t)
    /\ task[t].state = "waiting"
    /\ task[t].waiting.reason # "review_interruption"
    /\ HoldsLease(t)
    /\ \/ t \in expired
       \/ task[t].waiting.reason # "network_interruption"
       \/ ~CountBudgetExhausted(budget, task[t].implementerActivations)

RetryTask(t, budget) ==
    /\ CanRetry(t, budget)
    /\ \/ /\ t \in expired
          /\ Save(t, ApplyBlocked(task[t], "elapsed_budget"),
                  <<"blocked", task[t].revision>>)
       \/ /\ t \notin expired
          /\ Save(t, ApplyRetry(task[t]), <<"retry", task[t].revision>>)

\* The clock passes the Task's deadline (deadlineEpochMs never moves).
PassDeadline(t) ==
    /\ t \in Deadlined /\ t \notin expired
    /\ Active(t)
    /\ expired' = expired \cup {t}
    /\ UNCHANGED <<task, lease, events>>

(***************************************************************************)
(* The authority under arbitrary callers                                   *)
(***************************************************************************)

Init ==
    /\ task = [t \in Tasks |-> Null]
    /\ lease = [r \in Repositories |-> Null]
    /\ expired = {}
    /\ events = [t \in Tasks |-> <<>>]

\* The activation numbers reserved so far (0: none).
Issued(t) == 0..task[t].implementerActivations

\* The facts of a caller whose observation has the row's revision; any other
\* revision is rejected (CanPersist), which DeliveryRun's stale callers meet.
CandidateFact(t, rev) ==
    \E sha \in Commits, baseSha \in 0..MaxCommit, fence \in Issued(t) :
        baseSha < sha /\ RecordCandidate(t, rev, sha, baseSha, fence)
CheckFact(t, rev) == \E check \in CheckResult : RecordCheck(t, rev, check)
ReviewFact(t, rev) ==
    \E review \in ReviewVerdict, owner \in Owners : RecordReview(t, rev, review, owner)
ReviewInterruptionFact(t, rev) ==
    \E sha \in Commits, c \in FailureClasses, owner \in Owners :
        RecordReviewInterruption(t, rev, sha, c, owner)
ReviewReleaseFact(t, rev) == \E owner \in Owners : ReleaseReviewAttempt(t, rev, owner)
DeliveryFact(t, rev) == \E delivery \in DeliveryEffect : RecordDelivery(t, rev, delivery)
WaitingFact(t, rev) ==
    \E reason \in RetryReasons, s \in ResumeStates, activation \in Issued(t) :
        RecordWaiting(t, rev, reason, s, activation)
BlockedFact(t, rev) == \E blocker \in Blockers : Block(t, rev, blocker)
ReviewReservation(t) ==
    \E owner \in Owners : ReserveReviewAttempt(t, owner) \/ TakeOverReviewAttempt(t, owner)

\* The operator's retry has the Task's budget, resumePipelineChecks has none.
Retry(t) == \E budget \in {ActivationLimit[t], Unlimited} : RetryTask(t, budget)

Fact(t, rev) ==
    \/ CandidateFact(t, rev)
    \/ CheckFact(t, rev)
    \/ ReviewFact(t, rev)
    \/ ReviewInterruptionFact(t, rev)
    \/ ReviewReleaseFact(t, rev)
    \/ RecordRepairBatch(t, rev)
    \/ DeliveryFact(t, rev)
    \/ WaitingFact(t, rev)
    \/ BlockedFact(t, rev)

Next ==
    \E t \in Tasks :
        \/ Admit(t)
        \/ Admitted(t) /\ Fact(t, task[t].revision)
        \/ ReviewReservation(t)
        \/ ReserveActivation(t)
        \/ Retry(t)
        \/ PassDeadline(t)

Spec == Init /\ [][Next]_vars

(***************************************************************************)
(* Properties                                                              *)
(***************************************************************************)

EventIds ==
    {<<"task-admitted">>} \cup
    ({"candidate", "check", "review", "review-started", "review-released", "delivery",
      "repair", "blocked", "activation", "retry"} \X Nat) \cup
    ({"waiting"} \X WaitingReasons \X Nat) \cup
    ({"terminal"} \X TerminalStates)

\* Every row, lease and event has its type.
TypeOK ==
    /\ task \in [Tasks -> TaskResult \cup {Null}]
    /\ lease \in [Repositories -> Tasks \cup {Null}]
    /\ expired \subseteq Tasks
    /\ events \in [Tasks -> Seq(EventIds)]

\* A Repository's writer lease is held exactly by its one Task that has not
\* ended: no Task works without the lease, none keeps it after its end, and two
\* Tasks of one Repository are never in progress together (DESIGN, "one writer
\* lease per registered Repository").
LeaseMatchesActive ==
    /\ \A t \in Tasks : Active(t) <=> HoldsLease(t)
    /\ \A r \in Repositories : lease[r] # Null => RepositoryOf[lease[r]] = r

\* The row and lease tables together implement the writer service: the lease row
\* alone keeps a second Task of the Repository out, and it disappears exactly
\* when the Task ends.
Service == INSTANCE WriterLeases
    WITH working <- {t \in Tasks : Active(t)},
         ended <- {t \in Tasks : Admitted(t) /\ ~Active(t)}

ImplementsWriterLeases == Service!Spec

\* Admission never lets more Tasks be in progress than the server's capacity,
\* although the count and the insertion read different tables.
WithinCapacity == Cardinality({t \in Tasks : Active(t)}) <= Capacity

SoundEvidence(t, r) ==
    /\ r.check # Null => r.candidateSha # 0 /\ r.check.sha = r.candidateSha
    /\ r.review # Null => PassingCheck(r) /\ r.review.sha = r.candidateSha
    /\ r.delivery # Null =>
          /\ ApprovedReview(r)
          /\ r.delivery.sha = r.candidateSha
          /\ r.state = DeliveredState(r.delivery)
          /\ r.delivery.merge # Null =>
                /\ r.delivery.merge.approvedHeadSha = r.candidateSha
                /\ r.delivery.merge.prNumber = r.delivery.prNumber
    /\ r.state = "merged" => r.delivery # Null /\ t \in MergeAuthorized
    /\ r.state = "reviewed_pr" => r.delivery # Null /\ t \notin MergeAuthorized

\* All the evidence a Task holds is about its current candidate: a check of that
\* commit, a review only of a passed check of it, a delivery only of an approved
\* review of it, and a merge exactly when the contract authorizes one.
EvidenceChain == \A t \in Tasks : Admitted(t) => SoundEvidence(t, task[t])

SoundWait(r) ==
    /\ r.state = "waiting" <=> r.waiting # Null
    /\ r.waiting # Null =>
          /\ r.waiting.reason # "network_interruption" =>
                r.waiting.activation = r.candidateFence
          /\ r.waiting.reason \in DeliveryReasons =>
                r.waiting.resumeState = "reviewed" /\ PassingCheck(r) /\ ApprovedReview(r)
          /\ r.waiting.reason = "review_interruption" =>
                r.waiting.resumeState = "reviewing" /\ PassingCheck(r)
          /\ r.waiting.reason = "project_check_capability" =>
                r.candidateSha # 0 /\ (r.check = Null \/ UnavailableCheck(r))

\* A wait keeps what its resumption will rely on: a delivery wait the approved
\* bundle, a review interruption the passing check, a capability wait the
\* unchecked candidate, each under the fence it was entered with; and only a
\* waiting Task has a wait.
AwaitedEvidence == \A t \in Tasks : Admitted(t) => SoundWait(task[t])

\* The review asks for changes that are not yet a repair batch.
PendingBatch(r) ==
    r.review # Null /\ r.review.verdict = "changes_requested" /\ ~r.repairBatchRecorded

SoundAccounts(t, r) ==
    /\ r.changesRequestedBatches + (IF PendingBatch(r) THEN 1 ELSE 0)
           + (IF r.reviewAttempt # Null THEN 1 ELSE 0) <= r.reviewCycles
    /\ ReviewLimit[t] # Unlimited => r.reviewCycles <= ReviewLimit[t]

\* Review cycles pay for everything reviews produce: each repair batch, the
\* changes_requested verdict not yet turned into one and the attempt in progress
\* stand for different cycles, so a restart cannot count one batch twice and a
\* released attempt gives back only its own cycle.
ReviewAccounting == \A t \in Tasks : Admitted(t) => SoundAccounts(t, task[t])

\* A candidate is published only by the newest reservation, whose number exceeds
\* every earlier candidate's fence: a writer superseded by a later reservation
\* (after a crash, or a retry) can never publish.
NewestWriterPublishes ==
    [][\A t \in Tasks :
        Admitted(t) /\ task'[t].candidateSha # task[t].candidateSha =>
            /\ task'[t].candidateFence = task[t].implementerActivations
            /\ task'[t].candidateFence > task[t].candidateFence
            /\ task'[t].candidateSha > task[t].candidateSha]_vars

\* A Task that ended keeps its result and its history for ever.
TerminalIsFinal ==
    [][\A t \in Tasks :
        Admitted(t) /\ IsTerminalState(task[t].state) =>
            task'[t] = task[t] /\ events'[t] = events[t]]_vars

\* The last event of the history is the terminal one exactly when the Task ended.
HistoryEndsWithTheTask ==
    \A t \in Tasks : Admitted(t) =>
        \A i \in DOMAIN events[t] :
            events[t][i][1] = "terminal" <=>
                i = Len(events[t]) /\ IsTerminalState(task[t].state)
====
