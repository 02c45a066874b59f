---- MODULE DeliveryRun_proofs ----
(***************************************************************************)
(* Delivery Run and the server only ever take steps of Task Authority, so  *)
(* the authority's theorems hold of the whole; and theorems of their own.  *)
(***************************************************************************)
EXTENDS DeliveryRun, TaskAuthority_proofs

(***************************************************************************)
(* Calls of the authority are steps of the authority                       *)
(***************************************************************************)

\* A fact with the row's revision is a step.
LEMMA FactIsStep ==
    ASSUME NEW t \in Tasks, Admitted(t), Fact(t, task[t].revision)
    PROVE  Next
  BY DEF Next

\* The types of the row an accepted call reads, and the range of its fences.
LEMMA RowOfAdmitted ==
    ASSUME IInv, NEW t \in Tasks, Admitted(t)
    PROVE  /\ task[t] \in TaskResult
           /\ SoundFences(task[t])
           /\ task[t].candidateFence \in Issued(t)
           /\ task[t].activeActivation \in Issued(t)
<1>1. task[t] \in TaskResult /\ SoundFences(task[t])
  BY DEF IInv, Rows, RowInv
<1>2. /\ task[t].candidateFence \in Nat
      /\ task[t].activeActivation \in Nat
      /\ task[t].implementerActivations \in Nat
  BY <1>1 DEF TaskResult
<1> QED BY <1>1, <1>2 DEF SoundFences, Issued

\* A candidate that continues the commit its writer started from.
LEMMA CandidateIsStep ==
    ASSUME IInv, NEW t \in Tasks, NEW rev, NEW sha \in Commits, NEW base \in Nat, NEW fence,
           sha = base + 1, RecordCandidate(t, rev, sha, base, fence)
    PROVE  Next
<1>1. Admitted(t) /\ rev = task[t].revision /\ fence = task[t].activeActivation
  BY DEF RecordCandidate, CanRecordCandidate, CanPersist, AcceptsCandidate
<1>2. fence \in Issued(t)
  BY <1>1, RowOfAdmitted
<1>3. base \in 0..MaxCommit /\ base < sha
  BY BudgetsAssumption DEF Commits
<1>4. CandidateFact(t, task[t].revision)
  BY <1>1, <1>2, <1>3 DEF CandidateFact
<1> QED BY <1>1, <1>4, FactIsStep DEF Fact

\* A check is a step.
LEMMA CheckIsStep ==
    ASSUME NEW t \in Tasks, NEW rev, NEW check \in CheckResult, RecordCheck(t, rev, check)
    PROVE  Next
<1>1. Admitted(t) /\ rev = task[t].revision
  BY DEF RecordCheck, CanRecordCheck, CanPersist
<1> QED BY <1>1, FactIsStep DEF Fact, CheckFact

\* The commit of a passing check is a commit.
LEMMA CheckedCommit ==
    ASSUME IInv, NEW t \in Tasks, Admitted(t), PassingCheck(task[t])
    PROVE  task[t].candidateSha \in Commits
  BY RowOfAdmitted DEF PassingCheck, TaskResult, CheckResult

\* A review of the candidate is a step.
LEMMA ReviewIsStep ==
    ASSUME IInv, NEW t \in Tasks, NEW rev, NEW sha, NEW verdict \in Verdicts, NEW owner \in Owners,
           RecordReview(t, rev, [sha |-> sha, verdict |-> verdict], owner)
    PROVE  Next
<1> DEFINE review == [sha |-> sha, verdict |-> verdict]
<1>1. /\ Admitted(t) /\ rev = task[t].revision
      /\ PassingCheck(task[t]) /\ review.sha = task[t].candidateSha
  BY DEF RecordReview, CanRecordReview, CanPersist, AcceptsReview
<1>2. sha \in Commits
  BY <1>1, CheckedCommit
<1>3. review \in ReviewVerdict
  BY <1>2 DEF ReviewVerdict
<1>4. ReviewFact(t, task[t].revision)
  BY <1>1, <1>3 DEF ReviewFact
<1> QED BY <1>1, <1>4, FactIsStep DEF Fact

\* A review's interruption is a step.
LEMMA InterruptionIsStep ==
    ASSUME IInv, NEW t \in Tasks, NEW rev, NEW sha, NEW c \in FailureClasses, NEW owner \in Owners,
           RecordReviewInterruption(t, rev, sha, c, owner)
    PROVE  Next
<1>1. /\ Admitted(t) /\ rev = task[t].revision
      /\ PassingCheck(task[t]) /\ sha = task[t].candidateSha
  BY DEF RecordReviewInterruption, CanRecordReviewInterruption, CanPersist,
     AcceptsReviewInterrupted
<1>2. sha \in Commits
  BY <1>1, CheckedCommit
<1>3. ReviewInterruptionFact(t, task[t].revision)
  BY <1>1, <1>2 DEF ReviewInterruptionFact
<1> QED BY <1>1, <1>3, FactIsStep DEF Fact

\* A release of a review attempt is a step.
LEMMA ReleaseIsStep ==
    ASSUME NEW t \in Tasks, NEW rev, NEW owner \in Owners, ReleaseReviewAttempt(t, rev, owner)
    PROVE  Next
<1>1. Admitted(t) /\ rev = task[t].revision
  BY DEF ReleaseReviewAttempt, CanReleaseReviewAttempt, CanPersist
<1> QED BY <1>1, FactIsStep DEF Fact, ReviewReleaseFact

\* A delivery of the candidate, merged or not, is a step.
LEMMA DeliveryIsStep ==
    ASSUME IInv, NEW t \in Tasks, NEW rev, NEW sha, NEW pr \in PrNumbers, NEW merge,
           merge \in {Null, [approvedHeadSha |-> sha, prNumber |-> pr]},
           RecordDelivery(t, rev, [sha |-> sha, prNumber |-> pr, merge |-> merge])
    PROVE  Next
<1> DEFINE delivery == [sha |-> sha, prNumber |-> pr, merge |-> merge]
<1>1. /\ Admitted(t) /\ rev = task[t].revision
      /\ ApprovedReview(task[t]) /\ delivery.sha = task[t].candidateSha
  BY DEF RecordDelivery, CanRecordDelivery, CanPersist, AcceptsDelivery, ApprovedReview
<1>0. PassingCheck(task[t])
  BY <1>1 DEF IInv, Rows, RowInv, SoundEvidence, ApprovedReview
<1>2. sha \in Commits
  BY <1>0, <1>1, CheckedCommit
<1>3. merge \in MergeEffect \cup {Null}
  BY <1>2 DEF MergeEffect
<1>4. delivery \in DeliveryEffect
  BY <1>2, <1>3 DEF DeliveryEffect
<1>5. DeliveryFact(t, task[t].revision)
  BY <1>1, <1>4 DEF DeliveryFact
<1> QED BY <1>1, <1>5, FactIsStep DEF Fact

\* A wait for the operator, under the fence the row has, is a step.
LEMMA WaitIsStep ==
    ASSUME IInv, NEW t \in Tasks, NEW rev, NEW reason \in RetryReasons, NEW s \in ResumeStates,
           NEW activation, RecordWaiting(t, rev, reason, s, activation)
    PROVE  Next
<1>1. /\ Admitted(t) /\ rev = task[t].revision
      /\ \/ activation = task[t].activeActivation
         \/ activation = task[t].candidateFence
  BY DEF RecordWaiting, CanRecordWaiting, CanPersist, AcceptsWaiting, ValidActivation,
     NetworkWait, CapabilityWait, DeliveryWait
<1>2. activation \in Issued(t)
  BY <1>1, RowOfAdmitted
<1>3. WaitingFact(t, task[t].revision)
  BY <1>1, <1>2 DEF WaitingFact
<1> QED BY <1>1, <1>3, FactIsStep DEF Fact

\* A repair batch and a blocker are steps.
LEMMA BatchIsStep ==
    ASSUME NEW t \in Tasks, NEW rev, RecordRepairBatch(t, rev)
    PROVE  Next
<1>1. Admitted(t) /\ rev = task[t].revision
  BY DEF RecordRepairBatch, CanRecordRepairBatch, CanPersist
<1> QED BY <1>1, FactIsStep DEF Fact

\* So is a blocker.
LEMMA BlockIsStep ==
    ASSUME NEW t \in Tasks, NEW rev, NEW blocker \in Blockers, Block(t, rev, blocker)
    PROVE  Next
<1>1. Admitted(t) /\ rev = task[t].revision
  BY DEF Block, CanBlock, CanPersist
<1> QED BY <1>1, FactIsStep DEF Fact, BlockedFact

\* The operations that read the row themselves are steps.
LEMMA OperationIsStep ==
    ASSUME NEW t \in Tasks,
           \/ Admit(t) \/ PassDeadline(t) \/ ReserveActivation(t)
           \/ RetryTask(t, ActivationLimit[t]) \/ RetryTask(t, Unlimited)
           \/ \E owner \in Owners : ReserveReviewAttempt(t, owner) \/ TakeOverReviewAttempt(t, owner)
    PROVE  Next
  BY DEF Next, Retry, ReviewReservation

\* A Task once admitted stays admitted, with a row of its type.
LEMMA AdmittedStays ==
    ASSUME IInv, [Next]_vars, NEW t \in Tasks, Admitted(t)
    PROVE  task'[t] # Null /\ task'[t] \in TaskResult
<1>1. IInv'
  BY Inductive
<1>2. task'[t] # Null
  <2>1. CASE UNCHANGED vars
    BY <2>1 DEF vars, Admitted
  <2>2. ASSUME NEW u \in Tasks, Admit(u) \/ PassDeadline(u) PROVE task'[t] # Null
    BY <2>2 DEF Admit, CanAdmit, PassDeadline, Admitted, IInv, Types
  <2>3. ASSUME NEW u \in Tasks, NEW next, NEW id, SavesFact(u, next, id) PROVE task'[t] # Null
    <3>1. task'[u] \in TaskResult
      BY <2>3, SavedRow DEF RowInv
    <3>2. CASE t = u
      BY <3>1, <3>2, NullAssumption
    <3>3. CASE t # u
      BY <2>3, <3>3 DEF SavesFact, Save, Admitted, IInv, Types
    <3> QED BY <3>2, <3>3
  <2> QED BY <2>1, <2>2, <2>3, StepShape
<1> QED BY <1>1, <1>2 DEF IInv, Types

(***************************************************************************)
(* Every step of an execution or of the server                             *)
(***************************************************************************)

\* What the steps rely on: the authority's invariant, the types, owners left for
\* the next process, and work only for Tasks that were admitted.
RunInv ==
    /\ IInv
    /\ RunTypeOK
    /\ server # "up" => process < Processes
    /\ \A e \in Executions : ~Idle(e) => Admitted(T(e))
    /\ \A t \in Tasks : pending[t] # "none" \/ t \in timers => Admitted(t)

\* What a working execution has.
LEMMA Working ==
    ASSUME RunInv, NEW e \in Executions, ~Idle(e)
    PROVE  /\ runs \in [Executions -> Run]
           /\ runs[e] \in Run
           /\ T(e) \in Tasks
           /\ Admitted(T(e))
           /\ process \in Owners
           /\ runs[e].cause \in Blockers
           /\ runs[e].stage \notin {"prelude", "failed", "rejected"} => Seen(e) \in TaskResult
  BY DEF RunInv, RunTypeOK, Idle, T, Seen, Run

\* The blockers Delivery Run records.
LEMMA Causes == {"failure", "conflict", "elapsed_budget"} \subseteq Blockers
  BY BudgetsAssumption, RunBlockersAssumption

\* blockTask is a step of the authority, or throws.
LEMMA BlockTaskIsStep ==
    ASSUME RunInv, NEW e \in Executions, ~Idle(e), NEW rev, NEW cause \in Blockers,
           BlockTask(e, rev, cause)
    PROVE  [Next]_vars
  BY Working, BlockIsStep DEF BlockTask, Call

\* So is reserveReviewAttempt.
LEMMA ReserveReviewIsStep ==
    ASSUME RunInv, NEW e \in Executions, ~Idle(e), ReserveReview(e)
    PROVE  [Next]_vars
  BY Working, OperationIsStep DEF ReserveReview

\* The steps that only move the execution.
LEMMA QuietSteps ==
    ASSUME NEW e \in Executions,
           \/ Lookup(e) \/ PolicyFails(e) \/ VerificationFails(e) \/ ReadAdmission(e)
           \/ ReturnResult(e) \/ ResumePipeline(e) \/ StartImplementing(e)
           \/ RepairFailedCheck(e) \/ PreparationFails(e) \/ CodingAborted(e) \/ StartCheck(e)
           \/ CheckAborted(e) \/ BeginReview(e) \/ StartDelivery(e) \/ DeliveryAborted(e)
           \/ CatchError(e)
    PROVE  UNCHANGED vars
  BY DEF Lookup, PolicyFails, VerificationFails, ReadAdmission, ReturnResult, ResumePipeline,
     StartImplementing, RepairFailedCheck, PreparationFails, CodingAborted, StartCheck,
     CheckAborted, BeginReview, StartDelivery, DeliveryAborted, CatchError

\* The steps that may block the Task and do nothing else to it.
LEMMA BlockingSteps ==
    ASSUME RunInv, NEW e \in Executions, ~Idle(e),
           \/ ReachDeadline(e) \/ BlockUnprepared(e) \/ CheckThrows(e) \/ ReviewFails(e)
           \/ EndInconclusive(e) \/ DeliveryFails(e) \/ BlockFailed(e)
    PROVE  [Next]_vars
<1>1. CASE BlockFailed(e)
  BY <1>1, Working, BlockIsStep DEF BlockFailed
<1>2. CASE ~BlockFailed(e)
  <2>1. \E rev, cause : cause \in Blockers /\ BlockTask(e, rev, cause)
    BY <1>2, Causes DEF ReachDeadline, BlockUnprepared, CheckThrows, ReviewFails,
       EndInconclusive, DeliveryFails
  <2> QED BY <2>1, BlockTaskIsStep
<1> QED BY <1>1, <1>2

\* The steps of the coding activation.
LEMMA CodingSteps ==
    ASSUME RunInv, NEW e \in Executions, ~Idle(e),
           Reserve(e) \/ CodingFails(e) \/ CodingSucceeds(e)
    PROVE  [Next]_vars
<1>1. IInv /\ T(e) \in Tasks
  BY Working DEF RunInv
<1>2. CASE Reserve(e)
  BY <1>1, <1>2, OperationIsStep DEF Reserve
<1>3. CASE CodingFails(e)
  <2>1. CASE BlockTask(e, Rev(e), "failure")
    BY <2>1, Causes, BlockTaskIsStep
  <2>2. CASE ~BlockTask(e, Rev(e), "failure")
    <3> DEFINE n == Seen(e).implementerActivations
               s == Seen(e).state
    <3>1. s \in ResumeStates
      BY <1>3, <2>2 DEF CodingFails, ResumeStates
    <3>2. UNCHANGED vars \/ RecordWaiting(T(e), Rev(e), "network_interruption", s, n)
      BY <1>3, <2>2 DEF CodingFails, Call
    <3>3. "network_interruption" \in RetryReasons
      BY DEF RetryReasons
    <3> HIDE DEF n, s
    <3> QED BY <1>1, <3>1, <3>2, <3>3, WaitIsStep
  <2> QED BY <2>1, <2>2
<1>4. CASE CodingSucceeds(e)
  <2> DEFINE base == Seen(e).candidateSha
             fence == Seen(e).implementerActivations
  <2>1. PICK sha \in Commits :
          /\ sha = base + 1
          /\ UNCHANGED vars \/ RecordCandidate(T(e), Rev(e), sha, base, fence)
    BY <1>4 DEF CodingSucceeds, Call
  <2>2. base \in Nat
    BY <1>4, Working DEF CodingSucceeds, At, TaskResult
  <2> HIDE DEF base, fence
  <2> QED BY <1>1, <2>1, <2>2, CandidateIsStep
<1> QED BY <1>2, <1>3, <1>4

\* The steps of the check and its waits.
LEMMA CheckSteps ==
    ASSUME RunInv, NEW e \in Executions, ~Idle(e),
           \/ CheckCompletes(e) \/ CheckCapabilityMissing(e) \/ RecordUnavailable(e)
           \/ DeliveryPending(e)
    PROVE  [Next]_vars
<1>1. IInv /\ T(e) \in Tasks
  BY Working DEF RunInv
<1>2. CASE CheckCompletes(e)
  <2>1. PICK check \in CheckResult :
          UNCHANGED vars \/ RecordCheck(T(e), Rev(e), check)
    BY <1>2 DEF CheckCompletes, Call
  <2> QED BY <1>1, <2>1, CheckIsStep
<1>3. CASE ~CheckCompletes(e)
  <2>1. PICK reason \in RetryReasons, s \in ResumeStates :
          UNCHANGED vars
            \/ RecordWaiting(T(e), Rev(e), reason, s, Seen(e).candidateFence)
    BY <1>3 DEF CheckCapabilityMissing, RecordUnavailable, DeliveryPending, WaitFor, Call,
       RetryReasons, DeliveryReasons, ResumeStates
  <2> QED BY <1>1, <2>1, WaitIsStep
<1> QED BY <1>2, <1>3

\* The steps of the review.
LEMMA ReviewSteps ==
    ASSUME RunInv, NEW e \in Executions, ~Idle(e),
           \/ StartReview(e) \/ RecoverReview(e) \/ TakeOverReview(e) \/ ReviewAborted(e)
           \/ ReviewCompletes(e) \/ ReviewInterrupted(e) \/ RepairReviewed(e)
    PROVE  [Next]_vars
<1>1. IInv /\ T(e) \in Tasks /\ process \in Owners
  BY Working DEF RunInv
<1>2. CASE StartReview(e) \/ RecoverReview(e)
  <2>1. BlockTask(e, Rev(e), "failure") \/ ReserveReview(e)
    BY <1>2 DEF StartReview, RecoverReview
  <2> QED BY <2>1, Causes, BlockTaskIsStep, ReserveReviewIsStep
<1>3. CASE TakeOverReview(e)
  <2>1. \/ BlockTask(e, task[T(e)].revision, "failure")
        \/ TakeOverReviewAttempt(T(e), process)
        \/ UNCHANGED vars
    BY <1>3 DEF TakeOverReview
  <2> QED BY <1>1, <2>1, Causes, BlockTaskIsStep, OperationIsStep
<1>4. CASE ReviewAborted(e)
  BY <1>1, <1>4, ReleaseIsStep DEF ReviewAborted
<1>5. CASE ReviewCompletes(e)
  <2>1. PICK verdict \in Verdicts :
          UNCHANGED vars
            \/ RecordReview(T(e), Rev(e), [sha |-> Seen(e).candidateSha, verdict |-> verdict],
                            process)
    BY <1>5 DEF ReviewCompletes, Call
  <2> QED BY <1>1, <2>1, ReviewIsStep
<1>6. CASE ReviewInterrupted(e)
  <2>1. PICK c \in FailureClasses :
          UNCHANGED vars
            \/ RecordReviewInterruption(T(e), Rev(e), Seen(e).candidateSha, c, process)
    BY <1>6 DEF ReviewInterrupted, Call
  <2> QED BY <1>1, <2>1, InterruptionIsStep
<1>7. CASE RepairReviewed(e)
  <2>1. \/ BlockTask(e, Rev(e), "failure")
        \/ RecordRepairBatch(T(e), Rev(e))
        \/ UNCHANGED vars
    BY <1>7 DEF RepairReviewed
  <2> QED BY <1>1, <2>1, Causes, BlockTaskIsStep, BatchIsStep
<1> QED BY <1>2, <1>3, <1>4, <1>5, <1>6, <1>7

\* The steps left: the delivery's record and a pipeline wait's resumption.
LEMMA DeliverySteps ==
    ASSUME RunInv, NEW e \in Executions, ~Idle(e), DeliverySucceeds(e) \/ ResumePipelineRetry(e)
    PROVE  [Next]_vars
<1>1. IInv /\ T(e) \in Tasks
  BY Working DEF RunInv
<1>2. CASE DeliverySucceeds(e)
  <2> DEFINE sha == Seen(e).candidateSha
             merged(pr) == IF T(e) \in MergeAuthorized
                           THEN [approvedHeadSha |-> sha, prNumber |-> pr] ELSE Null
  <2>1. PICK pr \in PrNumbers :
          UNCHANGED vars
            \/ RecordDelivery(T(e), Rev(e), [sha |-> sha, prNumber |-> pr, merge |-> merged(pr)])
    BY <1>2 DEF DeliverySucceeds, Call
  <2>2. merged(pr) \in {Null, [approvedHeadSha |-> sha, prNumber |-> pr]}
    OBVIOUS
  <2> HIDE DEF sha, merged
  <2> QED BY <1>1, <2>1, <2>2, DeliveryIsStep
<1>3. CASE ResumePipelineRetry(e)
  BY <1>1, <1>3, OperationIsStep DEF ResumePipelineRetry, Call
<1> QED BY <1>2, <1>3

\* An execution takes its steps at a stage, so it is not idle.
LEMMA StepsAreNotIdle ==
    ASSUME NEW e \in Executions, WaitStep(e) \/ WorkStep(e)
    PROVE  ~Idle(e)
  BY DEF WaitStep, WorkStep, Idle, At, InPhase, CheckCapabilityMissing, CheckCompletes,
     DeliveryPending, Lookup, PolicyFails, VerificationFails, ReadAdmission, ReturnResult,
     ReachDeadline, ResumePipeline, ResumePipelineRetry, RecoverReview, StartImplementing,
     RepairFailedCheck, RepairReviewed, Reserve, PreparationFails, BlockUnprepared,
     CodingAborted, CodingFails, CodingSucceeds, StartCheck, CheckAborted, CheckThrows,
     RecordUnavailable, StartReview, TakeOverReview, BeginReview, ReviewAborted, ReviewFails,
     ReviewCompletes, ReviewInterrupted, EndInconclusive, StartDelivery, DeliveryAborted,
     DeliveryFails, DeliverySucceeds, CatchError, BlockFailed

\* Every step of an execution is a step of the authority, or leaves it alone.
LEMMA ExecutionsTakeSteps ==
    ASSUME RunInv, NEW e \in Executions, ExecutionStep(e)
    PROVE  [Next]_vars
<1>1. WaitStep(e) \/ WorkStep(e)
  BY DEF ExecutionStep
<1>2. ~Idle(e)
  BY <1>1, StepsAreNotIdle
<1> QED
  BY <1>1, <1>2, QuietSteps, BlockingSteps, CodingSteps, CheckSteps, ReviewSteps, DeliverySteps
     DEF WaitStep, WorkStep

\* Every step of the system is a step of the authority, or leaves it alone.
LEMMA SystemTakesSteps ==
    ASSUME RunInv, [RunNext]_allVars
    PROVE  [Next]_vars
<1>1. CASE UNCHANGED allVars
  BY <1>1 DEF allVars, vars
<1>2. ASSUME NEW t \in Tasks, Submit(t) PROVE [Next]_vars
  BY <1>2, OperationIsStep DEF Submit
<1>3. ASSUME NEW t \in Tasks, Resubmit(t) PROVE [Next]_vars
  BY <1>3, BlockIsStep, Causes DEF Resubmit
<1>4. ASSUME NEW t \in Tasks, OperatorRetry(t) PROVE [Next]_vars
  BY <1>4, OperationIsStep DEF OperatorRetry
<1>5. ASSUME NEW t \in Tasks, CompleteLaunch(t) \/ FireTimer(t) PROVE [Next]_vars
  BY <1>5 DEF CompleteLaunch, FireTimer
<1>6. ASSUME NEW t \in Tasks, Deadline(t) PROVE [Next]_vars
  BY <1>6, OperationIsStep DEF Deadline
<1>7. ASSUME NEW e \in Executions, ExecutionStep(e) PROVE [Next]_vars
  BY <1>7, ExecutionsTakeSteps
<1>8. ASSUME NEW e \in Executions, Settle(e) PROVE [Next]_vars
  BY <1>8 DEF Settle
<1>9. CASE Close \/ Closed \/ Crash \/ Restart
  BY <1>9 DEF Close, Closed, Crash, Restart
<1> QED BY <1>1, <1>2, <1>3, <1>4, <1>5, <1>6, <1>7, <1>8, <1>9 DEF RunNext

(***************************************************************************)
(* RunInv is inductive                                                     *)
(***************************************************************************)

\* What a step of e does to the executions: it moves e alone, which keeps its
\* Task and its signal, and forgets its result only when it fails.
Moves(e) ==
    /\ runs' \in [Executions -> Run]
    /\ \A f \in Executions : f # e => runs'[f] = runs[f]
    /\ runs'[e].task = runs[e].task
    /\ runs'[e].aborted = runs[e].aborted
    /\ runs'[e].stage # "idle"
    /\ runs'[e].seen = Null => runs'[e].stage \in {"failed", "rejected"}

\* A committed call's result is what the execution has seen next.
Returned(e, stage) ==
    runs' = [runs EXCEPT ![e].stage = stage, ![e].seen = task'[runs[e].task]]

\* An execution that keeps its result moves.
LEMMA GotoMoves ==
    ASSUME RunInv, NEW e \in Executions, ~Idle(e),
           runs[e].stage \notin {"prelude", "failed", "rejected"},
           NEW stage \in Stages \ {"idle"}, Goto(e, stage)
    PROVE  Moves(e)
<1>1. /\ runs \in [Executions -> Run] /\ runs[e] \in Run
      /\ Seen(e) \in TaskResult
  BY Working
<1> QED BY <1>1, NullAssumption DEF Goto, Moves, Run, Seen

\* An error moves it to the catch.
LEMMA FailMoves ==
    ASSUME RunInv, NEW e \in Executions, ~Idle(e), NEW cause \in Blockers, Fail(e, cause)
    PROVE  Moves(e)
  BY Working DEF Fail, Moves, Run, Stages

\* A result it read, or was returned, moves it.
LEMMA ReturnMoves ==
    ASSUME RunInv, [Next]_vars, NEW e \in Executions, ~Idle(e),
           NEW stage \in Stages \ {"idle"}, Returned(e, stage)
    PROVE  Moves(e)
<1>1. runs \in [Executions -> Run] /\ runs[e] \in Run /\ runs[e].task \in Tasks
  BY Working DEF T
<1>2. task'[runs[e].task] \in TaskResult
  BY Working, AdmittedStays DEF RunInv, T
<1> QED BY <1>1, <1>2, NullAssumption DEF Returned, Moves, Run

\* The steps that call the authority and end there, or throw.
LEMMA CallsMove ==
    ASSUME RunInv, [Next]_vars, NEW e \in Executions, ~Idle(e),
           \/ ReachDeadline(e) \/ ResumePipelineRetry(e) \/ BlockUnprepared(e)
           \/ CodingFails(e) \/ CodingSucceeds(e) \/ CheckThrows(e) \/ RecordUnavailable(e)
           \/ CheckCompletes(e) \/ CheckCapabilityMissing(e) \/ DeliveryPending(e)
           \/ ReviewFails(e) \/ ReviewCompletes(e) \/ ReviewInterrupted(e)
           \/ EndInconclusive(e) \/ DeliveryFails(e) \/ DeliverySucceeds(e)
    PROVE  Moves(e)
<1>1. Fail(e, "conflict") \/ \E stage \in Stages \ {"idle"} : Returned(e, stage)
  <2>1. CASE \/ ReachDeadline(e) \/ BlockUnprepared(e) \/ CheckThrows(e) \/ ReviewFails(e)
             \/ EndInconclusive(e) \/ DeliveryFails(e)
    BY <2>1 DEF ReachDeadline, BlockUnprepared, CheckThrows, ReviewFails, EndInconclusive,
       DeliveryFails, BlockTask, Call, Returned, Stages
  <2>2. CASE ResumePipelineRetry(e)
    BY <2>2 DEF ResumePipelineRetry, Call, Returned, Stages
  <2>3. CASE CodingFails(e)
    BY <2>3 DEF CodingFails, BlockTask, Call, Returned, Stages
  <2>4. CASE CodingSucceeds(e)
    BY <2>4 DEF CodingSucceeds, Call, Returned, Stages
  <2>5. CASE CheckCapabilityMissing(e) \/ RecordUnavailable(e) \/ DeliveryPending(e)
    BY <2>5 DEF CheckCapabilityMissing, RecordUnavailable, DeliveryPending, WaitFor, Call,
       Returned, Stages
  <2>6. CASE CheckCompletes(e)
    BY <2>6 DEF CheckCompletes, Call, Returned, Stages
  <2>7. CASE ReviewCompletes(e)
    BY <2>7 DEF ReviewCompletes, Call, Returned, Stages
  <2>8. CASE ReviewInterrupted(e)
    BY <2>8 DEF ReviewInterrupted, Call, Returned, Stages
  <2>9. CASE DeliverySucceeds(e)
    BY <2>9 DEF DeliverySucceeds, Call, Returned, Stages
  <2> QED BY <2>1, <2>2, <2>3, <2>4, <2>5, <2>6, <2>7, <2>8, <2>9
<1> QED BY <1>1, Causes, FailMoves, ReturnMoves

\* reserveReviewAttempt moves it, with or without a claim.
LEMMA ReserveReviewMoves ==
    ASSUME RunInv, [Next]_vars, NEW e \in Executions, ~Idle(e),
           runs[e].stage = "loop", ReserveReview(e)
    PROVE  Moves(e)
<1>1. runs \in [Executions -> Run] /\ runs[e] \in Run /\ runs[e].task \in Tasks
  BY Working DEF T
<1>2. task'[runs[e].task] \in TaskResult /\ task[runs[e].task] \in TaskResult
  BY Working, AdmittedStays, RowOfAdmitted DEF RunInv, T
<1>3. CASE Fail(e, "conflict")
  BY <1>3, Causes, FailMoves
<1>4. CASE ~Fail(e, "conflict")
  BY <1>1, <1>2, <1>4, NullAssumption DEF ReserveReview, Moves, Run, Stages, T
<1> QED BY <1>3, <1>4

\* The steps that read the row before or after the loop.
LEMMA ReadsMove ==
    ASSUME RunInv, NEW e \in Executions, ~Idle(e),
           Lookup(e) \/ PolicyFails(e) \/ ReadAdmission(e) \/ CatchError(e) \/ VerificationFails(e)
    PROVE  Moves(e)
<1>1. runs \in [Executions -> Run] /\ runs[e] \in Run /\ runs[e].task \in Tasks
  BY Working DEF T
<1>2. task[runs[e].task] \in TaskResult
  BY Working, RowOfAdmitted DEF RunInv, T
<1>3. CASE Fail(e, "failure")
  BY <1>3, Causes, FailMoves
<1>4. CASE Lookup(e) \/ PolicyFails(e)
  BY <1>1, <1>2, <1>4, NullAssumption DEF Lookup, PolicyFails, Moves, Run, Stages, T
<1>5. CASE ReadAdmission(e) /\ ~Fail(e, "failure")
  BY <1>1, <1>2, <1>5, NullAssumption DEF ReadAdmission, Moves, Run, Stages, T
<1>6. CASE CatchError(e)
  BY <1>1, <1>2, <1>6, NullAssumption DEF CatchError, Moves, Run, Stages, T
<1> QED BY <1>3, <1>4, <1>5, <1>6 DEF VerificationFails

\* The steps that keep the result, and the aborts.
LEMMA GotosMove ==
    ASSUME RunInv, NEW e \in Executions, ~Idle(e),
           \/ ReturnResult(e) \/ ResumePipeline(e) \/ PreparationFails(e) \/ StartCheck(e)
           \/ StartDelivery(e) \/ CodingAborted(e) \/ CheckAborted(e) \/ DeliveryAborted(e)
    PROVE  Moves(e)
<1>1. \/ Fail(e, "failure") \/ Fail(e, "conflict")
      \/ /\ runs[e].stage \in {"loop", "coding"}
         /\ \E stage \in Stages \ {"idle"} : Goto(e, stage)
  BY DEF ReturnResult, ResumePipeline, PreparationFails, StartCheck, StartDelivery, CodingAborted,
     CheckAborted, DeliveryAborted, At, InPhase, Stages
<1> QED BY <1>1, Causes, FailMoves, GotoMoves

\* Where a writer is asked for or reserved.
LEMMA ActivationsMove ==
    ASSUME RunInv, [Next]_vars, NEW e \in Executions, ~Idle(e),
           StartImplementing(e) \/ RepairFailedCheck(e) \/ RepairReviewed(e) \/ Reserve(e)
    PROVE  Moves(e)
<1>1. /\ runs \in [Executions -> Run] /\ runs[e] \in Run /\ runs[e].task \in Tasks
      /\ task'[runs[e].task] \in TaskResult
  BY Working, AdmittedStays DEF RunInv, T
<1>2. CASE StartImplementing(e) \/ RepairFailedCheck(e)
  <2>1. runs[e].stage = "loop" /\ Seen(e) \in TaskResult
    BY <1>2, Working DEF StartImplementing, RepairFailedCheck, InPhase, At
  <2>2. Rev(e) \in Nat
    BY <2>1 DEF Rev, Seen, TaskResult
  <2>3. runs' = [runs EXCEPT ![e].stage = "activate", ![e].prior = Rev(e)]
    BY <1>2 DEF StartImplementing, RepairFailedCheck, Activate, Rev
  <2> QED BY <1>1, <2>1, <2>2, <2>3, NullAssumption DEF Moves, Run, Stages, Seen
<1>3. CASE RepairReviewed(e)
  <2>1. task'[runs[e].task].revision \in Nat
    BY <1>1 DEF TaskResult
  <2>2. CASE Fail(e, "conflict") \/ Returned(e, "ended")
    BY <2>2, Causes, FailMoves, ReturnMoves DEF Stages
  <2>3. CASE ~(Fail(e, "conflict") \/ Returned(e, "ended"))
    BY <1>1, <1>3, <2>1, <2>3, NullAssumption
       DEF RepairReviewed, BlockTask, Call, Returned, Moves, Run, Stages
  <2> QED BY <2>2, <2>3
<1>4. CASE Reserve(e)
  <2>1. \/ Fail(e, "failure") \/ Returned(e, "coding")
        \/ runs[e].stage = "activate" /\ Goto(e, "unprepared")
    BY <1>4 DEF Reserve, Returned, At
  <2> QED BY <2>1, Causes, FailMoves, ReturnMoves, GotoMoves DEF Stages
<1> QED BY <1>2, <1>3, <1>4

\* The steps of the review that hold or give back a claim, and the last one.
LEMMA ClaimsMove ==
    ASSUME RunInv, [Next]_vars, NEW e \in Executions, ~Idle(e),
           \/ RecoverReview(e) \/ StartReview(e) \/ TakeOverReview(e) \/ BeginReview(e)
           \/ ReviewAborted(e) \/ BlockFailed(e)
    PROVE  Moves(e)
<1>1. runs \in [Executions -> Run] /\ runs[e] \in Run /\ runs[e].task \in Tasks
  BY Working DEF T
<1>2. CASE RecoverReview(e) \/ StartReview(e)
  <2>1. runs[e].stage = "loop"
    BY <1>2 DEF RecoverReview, StartReview, InPhase, At
  <2>2. ReserveReview(e) \/ Fail(e, "conflict") \/ Returned(e, "ended")
    BY <1>2 DEF RecoverReview, StartReview, BlockTask, Call, Returned
  <2> QED BY <2>1, <2>2, Causes, FailMoves, ReturnMoves, ReserveReviewMoves DEF Stages
<1>3. CASE TakeOverReview(e)
  <2>1. Fail(e, "conflict") \/ Returned(e, "ended") \/ Returned(e, "reviewing")
    BY <1>3 DEF TakeOverReview, BlockTask, Call, Returned
  <2> QED BY <2>1, Causes, FailMoves, ReturnMoves DEF Stages
<1>4. CASE BeginReview(e)
  <2>1. runs[e].seen \in TaskResult
    BY <1>4, Working DEF BeginReview, InPhase, At, Seen
  <2> QED BY <1>1, <1>4, <2>1, NullAssumption DEF BeginReview, Moves, Run, Stages
<1>5. CASE ReviewAborted(e)
  BY <1>1, <1>5 DEF ReviewAborted, Moves, Run, Stages
<1>6. CASE BlockFailed(e)
  <2>1. \/ Returned(e, "ended")
        \/ runs' = [runs EXCEPT ![e].stage = "rejected", ![e].seen = Null]
    BY <1>6 DEF BlockFailed, Returned
  <2>2. CASE Returned(e, "ended")
    BY <2>2, ReturnMoves DEF Stages
  <2>3. CASE runs' = [runs EXCEPT ![e].stage = "rejected", ![e].seen = Null]
    BY <1>1, <2>3 DEF Moves, Run, Stages
  <2> QED BY <2>1, <2>2, <2>3
<1> QED BY <1>2, <1>3, <1>4, <1>5, <1>6

\* Every step of an execution moves it.
LEMMA StepsMove ==
    ASSUME RunInv, [Next]_vars, NEW e \in Executions, ExecutionStep(e)
    PROVE  Moves(e)
<1>1. WaitStep(e) \/ WorkStep(e)
  BY DEF ExecutionStep
<1>2. ~Idle(e)
  BY <1>1, StepsAreNotIdle
<1> QED
  BY <1>1, <1>2, CallsMove, ReadsMove, GotosMove, ActivationsMove, ClaimsMove
     DEF WaitStep, WorkStep

\* The waits an execution causes stay within their bound.
LEMMA WaitsStayTyped ==
    ASSUME RunInv, NEW e \in Executions, ExecutionStep(e)
    PROVE  waits' \in [Tasks -> 0..MaxWaits]
<1>1. WaitStep(e) \/ WorkStep(e)
  BY DEF ExecutionStep
<1>2. waits \in [Tasks -> 0..MaxWaits] /\ runs[e].task \in Tasks /\ MaxWaits \in Nat
  BY <1>1, StepsAreNotIdle, Working, WaitsAssumption DEF RunInv, RunTypeOK, T
<1>3. UNCHANGED waits \/ (waits[runs[e].task] < MaxWaits /\ CountWait(e))
  BY DEF ExecutionStep, WaitStep, CheckCompletes, CheckCapabilityMissing, DeliveryPending, T
<1>4. CASE UNCHANGED waits
  BY <1>2, <1>4
<1>5. CASE waits[runs[e].task] < MaxWaits /\ CountWait(e)
  <2>1. waits[runs[e].task] + 1 \in 0..MaxWaits
    BY <1>2, <1>5
  <2> QED BY <1>2, <1>5, <2>1 DEF CountWait
<1> QED BY <1>3, <1>4, <1>5

\* A Task that was admitted stays admitted through every step.
LEMMA StaysAdmitted ==
    ASSUME RunInv, [RunNext]_allVars
    PROVE  /\ IInv'
           /\ \A t \in Tasks : Admitted(t) => Admitted(t)'
<1>1. [Next]_vars /\ IInv
  BY SystemTakesSteps DEF RunInv
<1> QED BY <1>1, Inductive, AdmittedStays DEF Admitted

\* Executions keep the invariant.
LEMMA ExecutionKeepsRunInv ==
    ASSUME RunInv, [RunNext]_allVars, NEW e \in Executions, ExecutionStep(e)
    PROVE  RunInv'
<1>1. Moves(e)
  BY SystemTakesSteps, StepsMove
<1>2. ~Idle(e)
  BY StepsAreNotIdle DEF ExecutionStep
<1>3. UNCHANGED <<server, process, timers, pending>>
  BY DEF ExecutionStep
<1>4. RunTypeOK'
  <2>1. waits' \in [Tasks -> 0..MaxWaits]
    BY WaitsStayTyped
  <2>2. ASSUME NEW f \in Executions
        PROVE  /\ (Idle(f) <=> T(f) = Null)'
               /\ (Seen(f) = Null => runs[f].stage \in {"idle", "prelude", "failed", "rejected"})'
    <3>1. CASE f = e
      BY <1>1, <1>2, <3>1, Working, RunNullAssumption DEF Moves, Idle, T, Seen
    <3>2. CASE f # e
      BY <1>1, <3>2 DEF Moves, Idle, T, Seen, RunInv, RunTypeOK
    <3> QED BY <3>1, <3>2
  <2> QED BY <1>1, <1>3, <2>1, <2>2 DEF Moves, RunInv, RunTypeOK
<1>5. ASSUME NEW f \in Executions, ~Idle(f)' PROVE Admitted(T(f))'
  <2>1. ~Idle(f) /\ T(f)' = T(f)
    BY <1>1, <1>2, <1>5 DEF Moves, Idle, T
  <2>2. Admitted(T(f)) /\ T(f) \in Tasks
    BY <2>1, Working
  <2> QED BY <2>1, <2>2, StaysAdmitted DEF Admitted
<1> QED BY <1>3, <1>4, <1>5, StaysAdmitted DEF RunInv

\* The types an idle or a starting execution has.
LEMMA FreshRuns ==
    /\ IdleRun \in Run
    /\ \A t \in Tasks : StartedRun(t) \in Run
    /\ \A t \in Tasks : StartedRun(t) = [IdleRun EXCEPT !.stage = "prelude", !.task = t]
    /\ IdleRun.stage = "idle" /\ IdleRun.task = Null /\ IdleRun.seen = Null
    /\ \A t \in Tasks : /\ StartedRun(t).stage = "prelude"
                        /\ StartedRun(t).task = t
                        /\ StartedRun(t).aborted = FALSE
  BY Causes DEF IdleRun, StartedRun, Run, Stages

\* A launch starts one execution of its Task and aborts the Task's others.
LEMMA LaunchKeepsRuns ==
    ASSUME RunInv, NEW t \in Tasks, NEW mode, NEW armed, Admitted(t), armed \subseteq timers,
           Launch(t, mode, armed)
    PROVE  /\ runs' \in [Executions -> Run]
           /\ timers' \subseteq timers
           /\ \A f \in Executions :
                 /\ runs'[f].stage = "idle" <=> runs'[f].task = Null
                 /\ runs'[f].seen = Null =>
                       runs'[f].stage \in {"idle", "prelude", "failed", "rejected"}
                 /\ runs'[f].stage # "idle" => Admitted(runs'[f].task)
<1>1. /\ runs \in [Executions -> Run]
      /\ \A f \in Executions :
            /\ runs[f].stage = "idle" <=> runs[f].task = Null
            /\ runs[f].seen = Null => runs[f].stage \in {"idle", "prelude", "failed", "rejected"}
            /\ runs[f].stage # "idle" => Admitted(runs[f].task)
  BY DEF RunInv, RunTypeOK, Idle, T, Seen
<1>2. CASE UNCHANGED runs /\ timers' = armed
  BY <1>1, <1>2
<1>3. CASE ~(UNCHANGED runs /\ timers' = armed)
  <2>1. timers' = armed \ {t}
    BY <1>3 DEF Launch
  <2>2. PICK e \in Executions :
            runs' = [f \in Executions |->
                   CASE f = e -> StartedRun(t)
                     [] f # e /\ runs[f].task = t -> [runs[f] EXCEPT !.aborted = TRUE]
                     [] OTHER -> runs[f]]
    BY <1>3 DEF Launch
  <2>3. ASSUME NEW f \in Executions
        PROVE  /\ runs'[f] \in Run
               /\ runs'[f].stage = "idle" <=> runs'[f].task = Null
               /\ runs'[f].seen = Null =>
                     runs'[f].stage \in {"idle", "prelude", "failed", "rejected"}
               /\ runs'[f].stage # "idle" => Admitted(runs'[f].task)
    <3>1. CASE f = e
      <4>1. runs'[f] = StartedRun(t)
        BY <2>2, <3>1
      <4> QED BY <4>1, FreshRuns, RunNullAssumption DEF Admitted
    <3>2. CASE f # e /\ runs[f].task = t
      <4>1. runs'[f] = [runs[f] EXCEPT !.aborted = TRUE] /\ runs[f] \in Run
        BY <1>1, <2>2, <3>2
      <4>2. /\ runs'[f] \in Run
            /\ runs'[f].stage = runs[f].stage /\ runs'[f].task = runs[f].task
            /\ runs'[f].seen = runs[f].seen
        BY <4>1 DEF Run
      <4> QED BY <1>1, <4>2
    <3>3. CASE f # e /\ runs[f].task # t
      <4>1. runs'[f] = runs[f]
        BY <2>2, <3>3
      <4> QED BY <1>1, <4>1
    <3> QED BY <3>1, <3>2, <3>3
  <2>4. runs' \in [Executions -> Run]
    BY <2>2, <2>3
  <2> QED BY <2>1, <2>3, <2>4
<1> QED BY <1>2, <1>3

\* Requests and the clock keep the invariant: they only touch pending.
LEMMA RequestKeepsRunInv ==
    ASSUME RunInv, [RunNext]_allVars, NEW t \in Tasks,
           Submit(t) \/ Resubmit(t) \/ OperatorRetry(t) \/ Deadline(t)
    PROVE  RunInv'
<1>1. UNCHANGED <<runs, server, process, timers, waits>>
  BY DEF Submit, Resubmit, OperatorRetry, Deadline, runVars
<1>2. /\ pending' \in [Tasks -> LaunchModes]
      /\ \A u \in Tasks : u # t => pending'[u] = pending[u]
  BY DEF Submit, Resubmit, OperatorRetry, Deadline, runVars, RunInv, RunTypeOK, LaunchModes
<1>3. pending'[t] # "none" => pending[t] # "none" \/ Admitted(t)'
  <2>1. CASE Submit(t)
    <3>1. task'[t] \in TaskResult
      <4>1. CanAdmit(t) /\ task' = [task EXCEPT ![t] = NewTask(t)]
        BY <2>1 DEF Submit, Admit
      <4> QED BY <4>1, NewTaskRow DEF RunInv, IInv, Types, RowInv
    <3> QED BY <3>1, NullAssumption DEF Admitted
  <2>2. CASE Resubmit(t)
    BY <2>2, StaysAdmitted DEF Resubmit, Active
  <2>3. CASE OperatorRetry(t)
    BY <2>3, StaysAdmitted DEF OperatorRetry, RetryTask, CanRetry, Active
  <2>4. CASE Deadline(t)
    BY <2>4 DEF Deadline, runVars
  <2> QED BY <2>1, <2>2, <2>3, <2>4
<1>4. \A u \in Tasks : pending'[u] # "none" \/ u \in timers' => Admitted(u)'
  BY <1>1, <1>2, <1>3, StaysAdmitted DEF RunInv
<1>5. \A f \in Executions : ~Idle(f)' => Admitted(T(f))'
  <2> SUFFICES ASSUME NEW f \in Executions, ~Idle(f)' PROVE Admitted(T(f))'
    OBVIOUS
  <2>1. ~Idle(f) /\ T(f)' = T(f)
    BY <1>1 DEF Idle, T
  <2>2. Admitted(T(f)) /\ T(f) \in Tasks
    BY <2>1, Working
  <2> QED BY <2>1, <2>2, StaysAdmitted DEF Admitted
<1>6. RunTypeOK'
  BY <1>1, <1>2 DEF RunInv, RunTypeOK, Idle, T, Seen
<1> QED BY <1>1, <1>4, <1>5, <1>6, StaysAdmitted DEF RunInv

\* A launch keeps the invariant.
LEMMA LaunchKeepsRunInv ==
    ASSUME RunInv, [RunNext]_allVars, NEW t \in Tasks, CompleteLaunch(t) \/ FireTimer(t)
    PROVE  RunInv'
<1>1. /\ UNCHANGED <<vars, server, process, waits>>
      /\ pending' \in [Tasks -> LaunchModes]
      /\ \A u \in Tasks : pending'[u] # "none" => pending[u] # "none"
  BY DEF CompleteLaunch, FireTimer, RunInv, RunTypeOK, LaunchModes
<1>2. Admitted(t)
  BY DEF CompleteLaunch, FireTimer, RunInv
<1>3. \E mode, armed : armed \subseteq timers /\ Launch(t, mode, armed)
  <2>1. CASE CompleteLaunch(t)
    BY <2>1 DEF CompleteLaunch
  <2>2. CASE FireTimer(t)
    BY <2>2 DEF FireTimer
  <2> QED BY <2>1, <2>2
<1>4. /\ runs' \in [Executions -> Run]
      /\ timers' \subseteq timers
      /\ \A f \in Executions :
            /\ runs'[f].stage = "idle" <=> runs'[f].task = Null
            /\ runs'[f].seen = Null =>
                  runs'[f].stage \in {"idle", "prelude", "failed", "rejected"}
            /\ runs'[f].stage # "idle" => Admitted(runs'[f].task)
  BY <1>2, <1>3, LaunchKeepsRuns
<1>5. task' = task
  BY <1>1 DEF vars
<1>6. RunTypeOK'
  BY <1>1, <1>4 DEF RunInv, RunTypeOK, Idle, T, Seen
<1>7. \A f \in Executions : ~Idle(f)' => Admitted(T(f))'
  BY <1>4, <1>5 DEF Idle, T, Admitted
<1>8. \A u \in Tasks : pending'[u] # "none" \/ u \in timers' => Admitted(u)'
  BY <1>1, <1>4, <1>5 DEF RunInv, Admitted
<1> QED BY <1>1, <1>6, <1>7, <1>8, StaysAdmitted DEF RunInv

\* So do the end of an execution and of the server, and its restart.
LEMMA ServerKeepsRunInv ==
    ASSUME RunInv, [RunNext]_allVars,
           \/ Close \/ Closed \/ Crash \/ Restart
           \/ \E e \in Executions : Settle(e)
    PROVE  RunInv'
<1>1. task' = task /\ waits' = waits
  BY DEF Close, Closed, Crash, Restart, Settle, vars
<1>2. /\ runs \in [Executions -> Run] /\ process \in 1..Processes /\ Processes \in Nat
      /\ Owners = 1..Processes
  BY ProcessesAssumption DEF RunInv, RunTypeOK
<1>3. /\ runs' \in [Executions -> Run]
      /\ \A f \in Executions :
            \/ runs'[f] = IdleRun
            \/ /\ runs'[f].stage = runs[f].stage /\ runs'[f].task = runs[f].task
               /\ runs'[f].seen = runs[f].seen
  <2>1. CASE Closed \/ Restart
    BY <1>2, <2>1 DEF Closed, Restart
  <2>2. CASE Crash
    BY <2>2, FreshRuns DEF Crash
  <2>3. CASE \E e \in Executions : Settle(e)
    BY <1>2, <2>3, FreshRuns DEF Settle
  <2>4. CASE Close
    <3>1. \A f \in Executions : [runs[f] EXCEPT !.aborted = TRUE] \in Run
      BY <1>2 DEF Run
    <3>2. \A f \in Executions : /\ [runs[f] EXCEPT !.aborted = TRUE].stage = runs[f].stage
                                /\ [runs[f] EXCEPT !.aborted = TRUE].task = runs[f].task
                                /\ [runs[f] EXCEPT !.aborted = TRUE].seen = runs[f].seen
      BY <1>2 DEF Run
    <3> QED BY <1>2, <2>4, <3>1, <3>2 DEF Close
  <2> QED BY <2>1, <2>2, <2>3, <2>4
<1>4. /\ server' \in {"up", "closing", "down"} /\ process' \in Owners
      /\ server' # "up" => process' < Processes
  BY <1>2 DEF Close, Closed, Crash, Restart, Settle, RunInv, RunTypeOK
<1>5. /\ timers' \subseteq Tasks /\ pending' \in [Tasks -> LaunchModes]
      /\ \A u \in Tasks : pending'[u] # "none" \/ u \in timers' => Admitted(u)
  <2>1. CASE Close \/ Closed \/ Crash
    BY <2>1 DEF Close, Closed, Crash, RunInv, RunTypeOK, LaunchModes
  <2>2. CASE Restart
    BY <2>2 DEF Restart, RunInv, RunTypeOK, LaunchModes
  <2>3. ASSUME NEW e \in Executions, Settle(e)
        PROVE  /\ timers' \subseteq Tasks /\ pending' \in [Tasks -> LaunchModes]
               /\ \A u \in Tasks : pending'[u] # "none" \/ u \in timers' => Admitted(u)
    <3>1. runs[e].task \in Tasks /\ Admitted(runs[e].task)
      BY <2>3, Working DEF Settle, Over, Idle, T
    <3> QED BY <2>3, <3>1 DEF Settle, RunInv, RunTypeOK
  <2> QED BY <2>1, <2>2, <2>3
<1>6. \A f \in Executions : ~Idle(f)' => Admitted(T(f))'
  <2> SUFFICES ASSUME NEW f \in Executions, runs'[f].stage # "idle"
               PROVE  task'[runs'[f].task] # Null
    BY DEF Idle, T, Admitted
  <2>1. runs[f].stage # "idle" /\ runs'[f].task = runs[f].task
    BY <1>3, FreshRuns
  <2> QED BY <1>1, <2>1 DEF RunInv, Idle, T, Admitted
<1>7. RunTypeOK'
  <2>1. ASSUME NEW f \in Executions
        PROVE  /\ runs'[f].stage = "idle" <=> runs'[f].task = Null
               /\ runs'[f].seen = Null =>
                     runs'[f].stage \in {"idle", "prelude", "failed", "rejected"}
    <3>1. CASE runs'[f] = IdleRun
      BY <3>1, FreshRuns
    <3>2. CASE runs'[f] # IdleRun
      BY <1>3, <3>2 DEF RunInv, RunTypeOK, Idle, T, Seen
    <3> QED BY <3>1, <3>2
  <2> QED BY <1>1, <1>3, <1>4, <1>5, <2>1 DEF RunInv, RunTypeOK, Idle, T, Seen
<1>8. \A u \in Tasks : pending'[u] # "none" \/ u \in timers' => Admitted(u)'
  BY <1>1, <1>5 DEF Admitted
<1> QED BY <1>4, <1>6, <1>7, <1>8, StaysAdmitted DEF RunInv

\* The initial state has the invariant.
LEMMA RunInitially == RunInit => RunInv
<1> SUFFICES ASSUME RunInit PROVE RunInv
  OBVIOUS
<1>1. IInv
  BY Initially DEF RunInit
<1>2. 1 \in Owners /\ MaxWaits \in Nat
  BY ProcessesAssumption, WaitsAssumption
<1>3. \A e \in Executions : Idle(e) /\ T(e) = Null /\ Seen(e) = Null
  BY FreshRuns DEF RunInit, Idle, T, Seen
<1>4. \A e \in Executions : runs[e].stage = "idle"
  BY <1>3 DEF Idle
<1>5. RunTypeOK
  <2>1. runs \in [Executions -> Run]
    BY FreshRuns DEF RunInit
  <2>2. pending \in [Tasks -> LaunchModes] /\ waits \in [Tasks -> 0..MaxWaits]
    BY <1>2 DEF RunInit, LaunchModes
  <2>3. server = "up" /\ process \in Owners /\ timers \subseteq Tasks
    BY <1>2 DEF RunInit
  <2> QED BY <1>3, <1>4, <2>1, <2>2, <2>3 DEF RunTypeOK
<1> QED BY <1>1, <1>3, <1>5 DEF RunInit, RunInv

\* Every step keeps it.
LEMMA RunInductive == RunInv /\ [RunNext]_allVars => RunInv'
<1> SUFFICES ASSUME RunInv, [RunNext]_allVars PROVE RunInv'
  OBVIOUS
<1>1. CASE UNCHANGED allVars
  BY <1>1, StaysAdmitted DEF allVars, RunInv, RunTypeOK, Idle, T, Seen, Admitted
<1>2. CASE RunNext
  BY <1>2, RequestKeepsRunInv, LaunchKeepsRunInv, ExecutionKeepsRunInv, ServerKeepsRunInv
     DEF RunNext
<1> QED BY <1>1, <1>2

\* Executions, the server and the authority keep their types, and work is only
\* ever held for admitted Tasks.
THEOREM RunInvariance == RunSpec => []RunInv
  BY RunInitially, RunInductive, PTL DEF RunSpec

\* The types of Delivery Run and of the server (runtime.ts, server.ts).
THEOREM RunTypeCorrect == RunSpec => []RunTypeOK
<1>1. RunInv => RunTypeOK
  BY DEF RunInv
<1> QED BY <1>1, RunInvariance, PTL

\* Delivery Run and the server implement the authority: whatever executions,
\* requests, timers, closes, crashes and restarts interleave, every step is a
\* transaction of Task Authority with admissible arguments, or leaves it alone.
THEOREM RunImplementsAuthority == RunSpec => Spec
<1>1. RunInit => Init
  BY DEF RunInit
<1>2. RunInv /\ [RunNext]_allVars => [Next]_vars
  BY SystemTakesSteps
<1> QED BY <1>1, <1>2, RunInvariance, PTL DEF RunSpec, Spec

(***************************************************************************)
(* What the authority guarantees, in the whole system                      *)
(***************************************************************************)

\* However executions race, evidence stands for the current candidate.
THEOREM RunEvidenceIsCurrent == RunSpec => []EvidenceChain
  BY RunImplementsAuthority, EvidenceIsCurrent, PTL

\* However executions race, every active Task holds its Repository's lease.
THEOREM RunLeaseIsExclusive == RunSpec => []LeaseMatchesActive
  BY RunImplementsAuthority, LeaseIsExclusive, PTL

\* However executions race, an ended Task's row is never written again.
THEOREM RunEndedTasksStay == RunSpec => TerminalIsFinal
  BY RunImplementsAuthority, EndedTasksStay, PTL

\* However executions race, only the newest reservation's writer publishes.
THEOREM RunWritersAreFenced == RunSpec => NewestWriterPublishes
  BY RunImplementsAuthority, SupersededWritersAreFenced, PTL

\* Batches never outnumber the writers that ran after them: each was asked for by the
\* review of a candidate of its own, which its own writer then replaces
\* (recordRepairBatch, reserveActivation and the candidate fact of task-authority.ts).
THEOREM BatchesHaveWriters == RunSpec => []OneWriterPerRepairBatch
<1>1. IInv => OneWriterPerRepairBatch
  <2> SUFFICES ASSUME IInv, NEW t \in Tasks, Admitted(t)
               PROVE  LET r == task[t]
                          unpaid == /\ r.repairBatchRecorded
                                    /\ r.implementerActivations = r.candidateFence IN
                      r.changesRequestedBatches <=
                          (IF r.implementerActivations > 0
                           THEN r.implementerActivations - 1 ELSE 0) + (IF unpaid THEN 1 ELSE 0)
    BY DEF OneWriterPerRepairBatch
  <2>1. task[t] \in TaskResult /\ SoundProgress(task[t]) /\ SoundFences(task[t])
        /\ SoundEvidence(t, task[t])
    BY DEF IInv, Rows, RowInv
  <2>2. task[t].repairBatchRecorded => task[t].candidateFence > 0
    BY <2>1 DEF SoundProgress, RequestsChanges, SoundEvidence, PassingCheck
  <2> QED BY <2>1, <2>2 DEF SoundProgress, SoundFences, TaskResult
<1>2. Spec => []OneWriterPerRepairBatch
  BY <1>1, Invariance, PTL
<1> QED BY <1>2, RunImplementsAuthority, PTL

(***************************************************************************)
(* One live execution of a Task                                            *)
(***************************************************************************)

\* An execution that is over takes no step of its own but its cleanup.
LEMMA StepsAreNotOver ==
    ASSUME NEW e \in Executions, WaitStep(e) \/ WorkStep(e)
    PROVE  ~Over(e)
  BY DEF WaitStep, WorkStep, Over, At, InPhase, CheckCapabilityMissing, CheckCompletes,
     DeliveryPending, Lookup, PolicyFails, VerificationFails, ReadAdmission, ReturnResult,
     ReachDeadline, ResumePipeline, ResumePipelineRetry, RecoverReview, StartImplementing,
     RepairFailedCheck, RepairReviewed, Reserve, PreparationFails, BlockUnprepared,
     CodingAborted, CodingFails, CodingSucceeds, StartCheck, CheckAborted, CheckThrows,
     RecordUnavailable, StartReview, TakeOverReview, BeginReview, ReviewAborted, ReviewFails,
     ReviewCompletes, ReviewInterrupted, EndInconclusive, StartDelivery, DeliveryAborted,
     DeliveryFails, DeliverySucceeds, CatchError, BlockFailed

\* An execution that was told to stop, ended, or left its Task.
Stopped(e) == runs[e].aborted \/ Over(e)

\* A pair of executions stays apart when each one either keeps its Task, and
\* stays stopped if it was, or became idle.
LEMMA PairsStayApart ==
    ASSUME OneLiveExecution,
           \A e \in Executions :
              \/ Idle(e)'
              \/ /\ ~Idle(e) /\ T(e)' = T(e)
                 /\ Stopped(e) => Stopped(e)'
    PROVE  OneLiveExecution'
  BY DEF OneLiveExecution, Stopped, Idle, Over, T

\* A launch starts an execution only where every other one of the Task stops.
LEMMA LaunchKeepsOneLive ==
    ASSUME RunInv, OneLiveExecution, NEW t \in Tasks, NEW mode, NEW armed, Launch(t, mode, armed),
           mode \in {"deduplicated", "replace"}
    PROVE  OneLiveExecution'
<1>1. CASE UNCHANGED runs
  BY <1>1 DEF OneLiveExecution, Idle, Over, T
<1>2. CASE ~UNCHANGED runs
  <2>1. PICK e \in Executions :
          runs' = [f \in Executions |->
                 CASE f = e -> StartedRun(t)
                   [] f # e /\ runs[f].task = t -> [runs[f] EXCEPT !.aborted = TRUE]
                   [] OTHER -> runs[f]]
    BY <1>2 DEF Launch
  <2>2. \A f \in Executions : runs[f] \in Run
    BY DEF RunInv, RunTypeOK
  <2>3. runs'[e].task = t
    BY <2>1, FreshRuns
  <2>4. ASSUME NEW f \in Executions, f # e
        PROVE  /\ runs'[f].stage = runs[f].stage /\ runs'[f].task = runs[f].task
               /\ runs[f].aborted => runs'[f].aborted
               /\ runs[f].task = t => runs'[f].aborted
    <3>1. CASE runs[f].task = t
      <4>1. runs'[f] = [runs[f] EXCEPT !.aborted = TRUE]
        BY <2>1, <2>4, <3>1
      <4> QED BY <2>2, <4>1 DEF Run
    <3>2. CASE runs[f].task # t
      <4>1. runs'[f] = runs[f]
        BY <2>1, <2>4, <3>2
      <4> QED BY <3>2, <4>1
    <3> QED BY <3>1, <3>2
  <2> QED BY <2>3, <2>4 DEF OneLiveExecution, Idle, Over, T
<1> QED BY <1>1, <1>2

\* However launches, replacements, timers and restarts interleave, at most one
\* execution of a Task has not been told to stop (server.ts launchTask).
THEOREM ExecutionsReplaceEachOther == RunSpec => []OneLiveExecution
<1>1. RunInit => OneLiveExecution
  <2> SUFFICES ASSUME RunInit PROVE OneLiveExecution
    OBVIOUS
  <2>1. \A e \in Executions : Idle(e)
    BY FreshRuns DEF RunInit, Idle
  <2> QED BY <2>1 DEF OneLiveExecution
<1>2. RunInv /\ OneLiveExecution /\ [RunNext]_allVars => OneLiveExecution'
  <2> SUFFICES ASSUME RunInv, OneLiveExecution, [RunNext]_allVars PROVE OneLiveExecution'
    OBVIOUS
  <2>1. CASE UNCHANGED runs
    BY <2>1 DEF OneLiveExecution, Idle, Over, T
  <2>2. ASSUME NEW t \in Tasks, CompleteLaunch(t) \/ FireTimer(t) PROVE OneLiveExecution'
    <3>1. \E mode, armed : mode \in {"deduplicated", "replace"} /\ Launch(t, mode, armed)
      BY <2>2 DEF CompleteLaunch, FireTimer, RunInv, RunTypeOK, LaunchModes
    <3> QED BY <3>1, LaunchKeepsOneLive
  <2>3. ASSUME NEW e \in Executions, ExecutionStep(e) PROVE OneLiveExecution'
    <3>1. Moves(e) /\ ~Idle(e) /\ ~Over(e)
      BY <2>3, SystemTakesSteps, StepsMove, StepsAreNotIdle, StepsAreNotOver DEF ExecutionStep
    <3>2. ASSUME NEW f \in Executions
          PROVE \/ Idle(f)'
                \/ /\ ~Idle(f) /\ T(f)' = T(f)
                   /\ Stopped(f) => Stopped(f)'
      BY <3>1 DEF Moves, Idle, Over, T, Stopped
    <3> QED BY <3>2, PairsStayApart
  <2>4. ASSUME Crash \/ Close \/ \E e \in Executions : Settle(e) PROVE OneLiveExecution'
    <3>1. \A f \in Executions : runs[f] \in Run
      BY DEF RunInv, RunTypeOK
    <3>2. runs \in [Executions -> Run]
      BY DEF RunInv, RunTypeOK
    <3>3. ASSUME NEW f \in Executions
          PROVE \/ Idle(f)'
                \/ /\ ~Idle(f) /\ T(f)' = T(f)
                   /\ Stopped(f) => Stopped(f)'
      <4>1. runs'[f] = IdleRun \/ runs'[f] = runs[f]
              \/ runs'[f] = [runs[f] EXCEPT !.aborted = TRUE]
        BY <2>4, <3>2 DEF Crash, Close, Settle
      <4>2. CASE runs'[f] = IdleRun
        BY <4>2, FreshRuns DEF Idle
      <4>3. CASE runs'[f] = runs[f]
        BY <4>3 DEF Idle, Over, T, Stopped
      <4>4. CASE runs'[f] = [runs[f] EXCEPT !.aborted = TRUE]
        <5>1. /\ runs'[f].stage = runs[f].stage /\ runs'[f].task = runs[f].task
              /\ runs'[f].aborted = TRUE
          BY <3>1, <4>4 DEF Run
        <5> QED BY <5>1 DEF Idle, Over, T, Stopped
      <4> QED BY <4>1, <4>2, <4>3, <4>4
    <3> QED BY <3>3, PairsStayApart
  <2>5. UNCHANGED runs \/ (\E t \in Tasks : CompleteLaunch(t) \/ FireTimer(t))
          \/ (\E e \in Executions : ExecutionStep(e))
          \/ Crash \/ Close \/ \E e \in Executions : Settle(e)
    BY DEF RunNext, allVars, Submit, Resubmit, OperatorRetry, Deadline, runVars, Closed, Restart
  <2> QED BY <2>1, <2>2, <2>3, <2>4, <2>5
<1> QED BY <1>1, <1>2, RunInvariance, PTL DEF RunSpec
(***************************************************************************)
(* What the operations do to a row, for those that watch it                *)
(***************************************************************************)

\* A row that no step but a check can turn into an approved one.
Unapprovable(r) == IsTerminalState(r.state) \/ ~PassingCheck(r) \/ RequestsChanges(r)

\* A result for which the loop asks for another writer.
WantsWriter(r) ==
    \/ r.state = "admitted"
    \/ r.state = "checked" /\ r.check.status = "failed"
    \/ r.state = "reviewed" /\ r.review.verdict = "changes_requested"

KeepsBundle(r, n) ==
    ApprovedReview(r) =>
        /\ ApprovedReview(n)
        /\ n.candidateSha = r.candidateSha
        /\ n.check = r.check
        /\ n.implementerActivations = r.implementerActivations
        /\ n.reviewCycles = r.reviewCycles

\* A write that keeps an approved bundle, makes no row approvable and leaves no
\* review attempt behind.
Plain(r, n) ==
    /\ n.revision = r.revision + 1
    /\ KeepsBundle(r, n)
    /\ Unapprovable(r) => Unapprovable(n)
    /\ n.reviewAttempt = Null

\* The start of a review attempt: of a row that is neither approved nor unapprovable.
Starts(r, n, owner) ==
    /\ n.revision = r.revision + 1
    /\ ~ApprovedReview(r) /\ ~Unapprovable(r)
    /\ n.state = "reviewing" /\ n.reviewAttempt = owner

\* The record of a check.
Checks(r, n) ==
    /\ n.revision = r.revision + 1
    /\ ~ApprovedReview(r)
    /\ n.reviewAttempt = Null

\* A review attempt is under review.
AttemptIsReviewing(r) == r.reviewAttempt # Null => r.state = "reviewing"

\* What a sound row in progress says of its review.
LEMMA ReviewedRows ==
    ASSUME IInv, NEW t \in Tasks, HoldsLease(t)
    PROVE  LET r == task[t] IN
           /\ Active(t) /\ ~IsTerminalState(r.state) /\ r \in TaskResult
           /\ SoundProgress(r) /\ SoundEvidence(t, r) /\ SoundWait(r)
           /\ r.review # Null <=> Stands(r, "reviewed")
           /\ ApprovedReview(r) => ~Unapprovable(r) /\ Stands(r, "reviewed")
<1> DEFINE r == task[t]
<1>1. Active(t) /\ RowInv(t, r)
  BY HolderIsActive
<1>2. /\ ~IsTerminalState(r.state) /\ r \in TaskResult
      /\ SoundProgress(r) /\ SoundEvidence(t, r) /\ SoundWait(r)
  BY <1>1 DEF Active, RowInv
<1> HIDE DEF r
<1>3. r.review # Null <=> Stands(r, "reviewed")
  BY <1>2 DEF SoundProgress
<1>4. ApprovedReview(r) => ~Unapprovable(r)
  BY <1>2 DEF ApprovedReview, Unapprovable, SoundEvidence, RequestsChanges
<1>5. ApprovedReview(r) => Stands(r, "reviewed")
  BY <1>3 DEF ApprovedReview
<1> QED BY <1>1, <1>2, <1>3, <1>4, <1>5 DEF r

\* A blocker ends the Task and keeps its evidence.
LEMMA BlockIsPlain ==
    ASSUME IInv, NEW t \in Tasks, NEW blocker, NEW id, HoldsLease(t),
           Save(t, ApplyBlocked(task[t], blocker), id)
    PROVE  Plain(task[t], task'[t]) /\ IsTerminalState(task'[t].state)
<1> DEFINE r == task[t]
           n == task'[t]
<1>1. r \in TaskResult /\ task \in [Tasks -> TaskResult \cup {Null}]
  BY ReviewedRows DEF IInv, Types
<1>2. n = [ApplyBlocked(r, blocker) EXCEPT !.revision = r.revision + 1]
  BY <1>1 DEF Save
<1>3. /\ n.state = "blocked" /\ n.reviewAttempt = Null /\ n.revision = r.revision + 1
      /\ n.candidateSha = r.candidateSha /\ n.check = r.check /\ n.review = r.review
      /\ n.implementerActivations = r.implementerActivations
      /\ n.reviewCycles = r.reviewCycles
  BY <1>1, <1>2 DEF ApplyBlocked, TaskResult
<1> HIDE DEF r, n
<1>4. Plain(r, n) /\ IsTerminalState(n.state)
  BY <1>3 DEF Plain, KeepsBundle, ApprovedReview, Unapprovable, IsTerminalState, TerminalStates
<1> QED BY <1>4 DEF r, n

\* A wait keeps the evidence; none is entered from a running review.
LEMMA WaitIsPlain ==
    ASSUME IInv, NEW t \in Tasks, AttemptIsReviewing(task[t]), NEW rev, NEW reason,
           NEW s, s # "reviewing", NEW activation,
           RecordWaiting(t, rev, reason, s, activation)
    PROVE  Plain(task[t], task'[t])
<1> DEFINE r == task[t]
           n == task'[t]
<1>0. HoldsLease(t) /\ r.state # "reviewing"
  BY DEF RecordWaiting, CanRecordWaiting, CanPersist, AcceptsWaiting
<1>1. /\ r \in TaskResult /\ task \in [Tasks -> TaskResult \cup {Null}]
      /\ ~IsTerminalState(r.state)
  BY <1>0, ReviewedRows DEF IInv, Types
<1>2. n = [ApplyWaiting(r, reason, s, activation) EXCEPT !.revision = r.revision + 1]
  BY <1>1 DEF RecordWaiting, Save
<1>3. /\ n.state = "waiting" /\ n.reviewAttempt = r.reviewAttempt
      /\ n.revision = r.revision + 1
      /\ n.candidateSha = r.candidateSha /\ n.check = r.check /\ n.review = r.review
      /\ n.implementerActivations = r.implementerActivations
      /\ n.reviewCycles = r.reviewCycles
  BY <1>1, <1>2 DEF ApplyWaiting, TaskResult
<1>4. r.reviewAttempt = Null
  BY <1>0 DEF AttemptIsReviewing
<1> HIDE DEF r, n
<1>5. Plain(r, n)
  BY <1>1, <1>3, <1>4 DEF Plain, KeepsBundle, ApprovedReview, Unapprovable, PassingCheck,
     RequestsChanges
<1> QED BY <1>5 DEF r, n

\* A delivery ends the Task and keeps its evidence.
LEMMA DeliveryIsPlain ==
    ASSUME IInv, NEW t \in Tasks, AttemptIsReviewing(task[t]), NEW rev, NEW delivery,
           RecordDelivery(t, rev, delivery)
    PROVE  Plain(task[t], task'[t])
<1> DEFINE r == task[t]
           n == task'[t]
<1>0. HoldsLease(t) /\ CanTransition(r.state, DeliveredState(delivery))
  BY DEF RecordDelivery, CanRecordDelivery, CanPersist, AcceptsDelivery
<1>1. /\ r \in TaskResult /\ task \in [Tasks -> TaskResult \cup {Null}]
      /\ ~IsTerminalState(r.state)
  BY <1>0, ReviewedRows DEF IInv, Types
<1>2. n = [ApplyDelivery(r, delivery) EXCEPT !.revision = r.revision + 1]
  BY <1>1 DEF RecordDelivery, Save
<1>3. /\ n.state = DeliveredState(delivery) /\ n.reviewAttempt = r.reviewAttempt
      /\ n.revision = r.revision + 1
      /\ n.candidateSha = r.candidateSha /\ n.check = r.check /\ n.review = r.review
      /\ n.implementerActivations = r.implementerActivations
      /\ n.reviewCycles = r.reviewCycles
  BY <1>1, <1>2 DEF ApplyDelivery, TaskResult
<1>4. r.state = "reviewed"
  BY <1>0, <1>1 DEF CanTransition, DeliveredState, IsTerminalState, TerminalStates
<1>5. r.reviewAttempt = Null
  BY <1>4 DEF AttemptIsReviewing
<1> HIDE DEF r, n
<1>6. Plain(r, n)
  BY <1>3, <1>5 DEF Plain, KeepsBundle, ApprovedReview, Unapprovable, DeliveredState,
     IsTerminalState, TerminalStates
<1> QED BY <1>6 DEF r, n

\* A repair batch belongs to a review that asked for changes.
LEMMA BatchIsPlain ==
    ASSUME IInv, NEW t \in Tasks, AttemptIsReviewing(task[t]), NEW rev,
           CanRecordRepairBatch(t, rev), NEW id, Save(t, ApplyRepairBatch(task[t]), id)
    PROVE  Plain(task[t], task'[t])
<1> DEFINE r == task[t]
           n == task'[t]
<1>0. HoldsLease(t) /\ r.state = "reviewed" /\ RequestsChanges(r)
  BY DEF CanRecordRepairBatch, CanPersist, AcceptsRepairBatch, RequestsChanges
<1>1. /\ r \in TaskResult /\ task \in [Tasks -> TaskResult \cup {Null}]
  BY <1>0, ReviewedRows DEF IInv, Types
<1>2. n = [ApplyRepairBatch(r) EXCEPT !.revision = r.revision + 1]
  BY <1>1 DEF Save
<1>3. /\ n.review = r.review /\ n.reviewAttempt = r.reviewAttempt
      /\ n.revision = r.revision + 1
  BY <1>1, <1>2 DEF ApplyRepairBatch, TaskResult
<1>4. r.reviewAttempt = Null
  BY <1>0 DEF AttemptIsReviewing
<1> HIDE DEF r, n
<1>5. Plain(r, n)
  BY <1>0, <1>3, <1>4 DEF Plain, KeepsBundle, ApprovedReview, Unapprovable, RequestsChanges
<1> QED BY <1>5 DEF r, n

\* A retry gives a wait back the place it was entered from, with its evidence.
LEMMA RetryIsPlain ==
    ASSUME IInv, NEW t \in Tasks, AttemptIsReviewing(task[t]), NEW budget, RetryTask(t, budget)
    PROVE  Plain(task[t], task'[t])
<1> DEFINE r == task[t]
           n == task'[t]
<1>0. HoldsLease(t) /\ r.state = "waiting"
  BY DEF RetryTask, CanRetry
<1>1. /\ r \in TaskResult /\ task \in [Tasks -> TaskResult \cup {Null}]
      /\ ApprovedReview(r) => Stands(r, "reviewed")
      /\ ~IsTerminalState(r.state)
  BY <1>0, ReviewedRows DEF IInv, Types
<1>2. CASE Save(t, ApplyBlocked(r, "elapsed_budget"), <<"blocked", r.revision>>)
  BY <1>0, <1>2, BlockIsPlain
<1>3. CASE Save(t, ApplyRetry(r), <<"retry", r.revision>>)
  <2>1. n = [ApplyRetry(r) EXCEPT !.revision = r.revision + 1]
    BY <1>1, <1>3 DEF Save
  <2>2. /\ n.reviewAttempt = r.reviewAttempt /\ n.revision = r.revision + 1
        /\ n.candidateSha = r.candidateSha /\ n.review = r.review
        /\ n.implementerActivations = r.implementerActivations
        /\ n.reviewCycles = r.reviewCycles
        /\ n.check = r.check \/ (r.waiting.resumeState = "candidate" /\ n.check = Null)
    BY <1>1, <2>1 DEF ApplyRetry, TaskResult
  <2>3. r.reviewAttempt = Null
    BY <1>0 DEF AttemptIsReviewing
  <2> HIDE DEF r, n
  <2>4. ApprovedReview(r) => n.check = r.check
    BY <1>0, <1>1, <2>2 DEF Stands
  <2>5. Unapprovable(r) => Unapprovable(n)
    BY <1>1, <2>2 DEF Unapprovable, PassingCheck, RequestsChanges
  <2>6. Plain(r, n)
    BY <2>2, <2>3, <2>4, <2>5 DEF Plain, KeepsBundle, ApprovedReview
  <2> QED BY <2>6 DEF r, n
<1> QED BY <1>2, <1>3 DEF RetryTask

\* A review, its interruption and its release end the attempt of an unreviewed row.
LEMMA ReviewIsPlain ==
    ASSUME IInv, NEW t \in Tasks, NEW rev, NEW owner,
           \/ \E review : RecordReview(t, rev, review, owner)
           \/ \E sha, c : RecordReviewInterruption(t, rev, sha, c, owner)
           \/ ReleaseReviewAttempt(t, rev, owner)
    PROVE  Plain(task[t], task'[t])
<1> DEFINE r == task[t]
           n == task'[t]
<1>0. /\ HoldsLease(t) /\ PassingCheck(r)
      /\ r.state = "reviewing" \/ CanTransition(r.state, "checked")
  BY DEF RecordReview, CanRecordReview, AcceptsReview, RecordReviewInterruption,
     CanRecordReviewInterruption, AcceptsReviewInterrupted, ReleaseReviewAttempt,
     CanReleaseReviewAttempt, AcceptsReviewReleased, CanPersist
<1>1. /\ r \in TaskResult /\ task \in [Tasks -> TaskResult \cup {Null}]
      /\ r.review # Null <=> Stands(r, "reviewed")
      /\ ~IsTerminalState(r.state)
  BY <1>0, ReviewedRows DEF IInv, Types
<1>2. \/ \E review : n = [ApplyReview(r, review) EXCEPT !.revision = r.revision + 1]
      \/ \E c : n = [ApplyReviewInterrupted(r, c) EXCEPT !.revision = r.revision + 1]
      \/ n = [ApplyReviewReleased(r) EXCEPT !.revision = r.revision + 1]
  BY <1>1 DEF Save, RecordReview, RecordReviewInterruption, ReleaseReviewAttempt
<1>3. n.reviewAttempt = Null /\ n.revision = r.revision + 1
  BY <1>1, <1>2 DEF ApplyReview, ApplyReviewInterrupted, ApplyReviewReleased, TaskResult
<1>4. r.review = Null
  BY <1>0, <1>1 DEF Stands, CanTransition, IsTerminalState, TerminalStates
<1> HIDE DEF r, n
<1>5. Plain(r, n)
  BY <1>0, <1>1, <1>3, <1>4 DEF Plain, KeepsBundle, ApprovedReview, Unapprovable,
     RequestsChanges
<1> QED BY <1>5 DEF r, n

\* A review attempt starts from a checked row without a review.
LEMMA ReviewStarts ==
    ASSUME IInv, NEW t \in Tasks, NEW owner,
           ReserveReviewAttempt(t, owner) \/ TakeOverReviewAttempt(t, owner)
    PROVE  Starts(task[t], task'[t], owner)
<1> DEFINE r == task[t]
           n == task'[t]
<1>0. /\ HoldsLease(t) /\ PassingCheck(r)
      /\ r.state \in {"checked", "waiting", "reviewing"}
      /\ r.state = "waiting" => r.waiting.reason = "review_interruption"
  BY DEF ReserveReviewAttempt, TakeOverReviewAttempt, CanReserveReviewAttempt,
     CanTakeOverReviewAttempt, AcceptsReviewStarted
<1>1. /\ r \in TaskResult /\ task \in [Tasks -> TaskResult \cup {Null}]
      /\ r.review # Null <=> Stands(r, "reviewed")
      /\ ~IsTerminalState(r.state) /\ SoundWait(r)
  BY <1>0, ReviewedRows DEF IInv, Types
<1>2. n = [ApplyReviewStarted(r, owner) EXCEPT !.revision = r.revision + 1]
  BY <1>1 DEF Save, ReserveReviewAttempt, TakeOverReviewAttempt
<1>3. n.state = "reviewing" /\ n.reviewAttempt = owner /\ n.revision = r.revision + 1
  BY <1>1, <1>2 DEF ApplyReviewStarted, TaskResult
<1>4. r.review = Null
  BY <1>0, <1>1 DEF Stands, SoundWait
<1> HIDE DEF r, n
<1>5. Starts(r, n, owner)
  BY <1>0, <1>1, <1>3, <1>4 DEF Starts, ApprovedReview, Unapprovable, RequestsChanges
<1> QED BY <1>5 DEF r, n

\* A check is recorded of a row without a review.
LEMMA CheckIsRecorded ==
    ASSUME IInv, NEW t \in Tasks, NEW rev, NEW check, RecordCheck(t, rev, check),
           task[t].reviewAttempt = Null
    PROVE  Checks(task[t], task'[t])
<1> DEFINE r == task[t]
           n == task'[t]
<1>0. HoldsLease(t) /\ CanTransition(r.state, "checked")
  BY DEF RecordCheck, CanRecordCheck, AcceptsCheck, CanPersist
<1>1. /\ r \in TaskResult /\ task \in [Tasks -> TaskResult \cup {Null}]
      /\ r.review # Null <=> Stands(r, "reviewed")
      /\ ~IsTerminalState(r.state)
  BY <1>0, ReviewedRows DEF IInv, Types
<1>2. n = [ApplyCheck(r, check) EXCEPT !.revision = r.revision + 1]
  BY <1>1 DEF Save, RecordCheck
<1>3. n.reviewAttempt = r.reviewAttempt /\ n.revision = r.revision + 1
  BY <1>1, <1>2 DEF ApplyCheck, TaskResult
<1>4. r.review = Null
  BY <1>0, <1>1 DEF Stands, CanTransition, IsTerminalState, TerminalStates
<1> HIDE DEF r, n
<1>5. Checks(r, n)
  BY <1>3, <1>4 DEF Checks, ApprovedReview, r
<1> QED BY <1>5 DEF r, n

\* A candidate of an unapprovable row replaces no approved bundle.
LEMMA CandidateIsPlain ==
    ASSUME IInv, NEW t \in Tasks, AttemptIsReviewing(task[t]), Unapprovable(task[t]),
           NEW rev, NEW sha, NEW base, NEW fence, RecordCandidate(t, rev, sha, base, fence)
    PROVE  Plain(task[t], task'[t])
<1> DEFINE r == task[t]
           n == task'[t]
<1>0. HoldsLease(t) /\ CanTransition(r.state, "candidate")
  BY DEF RecordCandidate, CanRecordCandidate, AcceptsCandidate, CanPersist
<1>1. /\ r \in TaskResult /\ task \in [Tasks -> TaskResult \cup {Null}]
      /\ ~IsTerminalState(r.state) /\ ~ApprovedReview(r)
  BY <1>0, ReviewedRows DEF IInv, Types
<1>2. n = [ApplyCandidate(r, sha, fence) EXCEPT !.revision = r.revision + 1]
  BY <1>1 DEF Save, RecordCandidate
<1>3. n.reviewAttempt = r.reviewAttempt /\ n.revision = r.revision + 1 /\ n.check = Null
  BY <1>1, <1>2 DEF ApplyCandidate, TaskResult
<1>4. r.reviewAttempt = Null
  BY <1>0, <1>1 DEF AttemptIsReviewing, CanTransition, IsTerminalState, TerminalStates
<1> HIDE DEF r, n
<1>5. Plain(r, n)
  BY <1>1, <1>3, <1>4 DEF Plain, KeepsBundle, Unapprovable, PassingCheck
<1> QED BY <1>5 DEF r, n

\* So does the activation of a writer.
LEMMA ActivationIsPlain ==
    ASSUME IInv, NEW t \in Tasks, AttemptIsReviewing(task[t]), Unapprovable(task[t]),
           ReserveActivation(t)
    PROVE  Plain(task[t], task'[t])
<1> DEFINE r == task[t]
           n == task'[t]
<1>0. HoldsLease(t)
  BY DEF ReserveActivation, CanReserveActivation
<1>1. /\ r \in TaskResult /\ task \in [Tasks -> TaskResult \cup {Null}]
      /\ ~IsTerminalState(r.state) /\ ~ApprovedReview(r) /\ SoundProgress(r)
      /\ r.review # Null <=> Stands(r, "reviewed")
  BY <1>0, ReviewedRows DEF IInv, Types
<1>2. n = [ApplyActivation(r) EXCEPT !.revision = r.revision + 1]
  BY <1>1 DEF Save, ReserveActivation
<1>3. /\ n.reviewAttempt = r.reviewAttempt /\ n.revision = r.revision + 1
      /\ n.candidateSha = r.candidateSha /\ n.check = r.check /\ n.review = r.review
  BY <1>1, <1>2 DEF ApplyActivation, TaskResult
<1> HIDE DEF r, n
<1>4. r.state = "reviewing" => r.review = Null /\ PassingCheck(r)
  BY <1>1 DEF Stands, SoundProgress
<1>5. r.reviewAttempt = Null
  BY <1>1, <1>4 DEF AttemptIsReviewing, Unapprovable, RequestsChanges, r
<1>6. Plain(r, n)
  BY <1>1, <1>3, <1>5 DEF Plain, KeepsBundle, Unapprovable, PassingCheck, RequestsChanges
<1> QED BY <1>6 DEF r, n

\* Another writer is only asked for by a sound row that cannot be approved.
LEMMA WritersAreForUnapprovable ==
    ASSUME IInv, NEW t \in Tasks, Admitted(t), WantsWriter(task[t])
    PROVE  Unapprovable(task[t])
<1> DEFINE r == task[t]
<1>1. SoundProgress(r)
  BY DEF IInv, Rows, RowInv
<1> HIDE DEF r
<1>2. WantsWriter(r) => Unapprovable(r)
  BY <1>1 DEF WantsWriter, Unapprovable, SoundProgress, Stands, RequestsChanges, PassingCheck,
     IsTerminalState, TerminalStates
<1> QED BY <1>2 DEF r

(***************************************************************************)
(* What the executions remember, and what they may still write             *)
(***************************************************************************)

\* What an execution has seen is still the row.
Fresh(e) == Seen(e) # Null /\ Rev(e) = task[T(e)].revision

\* A result of the row's revision is the row; none is of a later one.
SeenIsSound(e) ==
    Seen(e) # Null =>
        /\ Rev(e) <= task[T(e)].revision
        /\ Fresh(e) => Seen(e) = task[T(e)]

\* A writer is asked for, reserved and accepted only where no approval stands:
\* an execution that was not told to stop before it reserves is the only one that
\* could have had the Task approved since.
WritersAreDue(e) ==
    /\ At(e, "activate") /\ ~runs[e].aborted => Unapprovable(task[T(e)])
    /\ At(e, "loop") /\ ~runs[e].aborted /\ WantsWriter(Seen(e)) => Unapprovable(task[T(e)])
    /\ At(e, "coding") /\ Fresh(e) => Unapprovable(task[T(e)])

\* The project check runs for a candidate.
ChecksAreDue(e) == At(e, "checking") => Seen(e).state = "candidate"

\* A review attempt belongs to a process that has run.
AttemptsAreOwned(t) ==
    Admitted(t) =>
        /\ AttemptIsReviewing(task[t])
        /\ task[t].reviewAttempt # Null => task[t].reviewAttempt <= process

\* The running process's attempt is held by an execution that knows of it.
Holds(e, t) == T(e) = t /\ runs[e].stage \in {"loop", "reviewing"} /\ Fresh(e)
ReviewIsHeld(t) ==
    Active(t) /\ task[t].reviewAttempt = process /\ server # "down" =>
        \E e \in Executions : Holds(e, t)

\* A step of the authority writes at most one row that was there, once.
LEMMA RowsGrow ==
    ASSUME IInv, [Next]_vars, NEW t \in Tasks, Admitted(t)
    PROVE  \/ task'[t] = task[t]
           \/ /\ task'[t].revision = task[t].revision + 1
              /\ Active(t)
              /\ \A u \in Tasks \ {t} : task'[u] = task[u]
<1>1. CASE UNCHANGED vars
  BY <1>1 DEF vars
<1>2. ASSUME NEW u \in Tasks, Admit(u) PROVE task'[t] = task[t]
  BY <1>2, AdmittedActive
<1>3. ASSUME NEW u \in Tasks, PassDeadline(u) PROVE task'[t] = task[t]
  BY <1>3 DEF PassDeadline
<1>4. ASSUME NEW u \in Tasks, NEW next, NEW id, SavesFact(u, next, id)
      PROVE  \/ task'[t] = task[t]
             \/ /\ task'[t].revision = task[t].revision + 1
                /\ Active(t)
                /\ \A v \in Tasks \ {t} : task'[v] = task[v]
  <2>1. \A v \in Tasks \ {u} : task'[v] = task[v]
    BY <1>4, SavedActive
  <2>2. task'[u].revision = task[u].revision + 1 /\ Active(u)
    BY <1>4, SavedRow DEF SavesFact
  <2> QED BY <2>1, <2>2
<1> QED BY <1>1, <1>2, <1>3, <1>4, StepShape

\* A recorded blocker is a plain write.
LEMMA RecordedBlock ==
    ASSUME IInv, NEW t \in Tasks, NEW rev, NEW blocker, Block(t, rev, blocker)
    PROVE  Plain(task[t], task'[t]) /\ IsTerminalState(task'[t].state)
  BY BlockIsPlain DEF Block, CanBlock, CanPersist

\* What a step of an execution writes: nothing, a plain write, the check it ran while
\* it was live, or the start of a review attempt that it then holds.
Writes(e) ==
    \/ UNCHANGED vars
    \/ Plain(task[T(e)], task'[T(e)])
    \/ /\ At(e, "checking") /\ ~runs[e].aborted
       /\ Checks(task[T(e)], task'[T(e)])
    \/ /\ Starts(task[T(e)], task'[T(e)], process)
       /\ runs'[e].stage \in {"loop", "reviewing"}
       /\ runs'[e].seen = task'[T(e)]

\* What the steps rely on of their own execution.
Prepared(e) ==
    /\ SeenIsSound(e) /\ WritersAreDue(e) /\ ChecksAreDue(e)
    /\ AttemptIsReviewing(task[T(e)])

\* A write with the revision the execution has seen finds the row it has seen.
LEMMA PersistsFresh ==
    ASSUME RunInv, NEW e \in Executions, ~Idle(e), SeenIsSound(e),
           runs[e].stage \notin {"prelude", "failed", "rejected"}, CanPersist(T(e), Rev(e))
    PROVE  Fresh(e) /\ Seen(e) = task[T(e)] /\ HoldsLease(T(e))
  BY Working, NullAssumption DEF CanPersist, Fresh, SeenIsSound

\* The steps that block the Task, or write nothing.
LEMMA BlockingWrites ==
    ASSUME RunInv, NEW e \in Executions, ~Idle(e),
           \/ ReachDeadline(e) \/ BlockUnprepared(e) \/ CheckThrows(e) \/ ReviewFails(e)
           \/ EndInconclusive(e) \/ DeliveryFails(e) \/ BlockFailed(e)
    PROVE  UNCHANGED vars \/ Plain(task[T(e)], task'[T(e)])
<1>1. UNCHANGED vars \/ \E rev, cause : Block(T(e), rev, cause)
  BY DEF ReachDeadline, BlockUnprepared, CheckThrows, ReviewFails, EndInconclusive,
     DeliveryFails, BlockFailed, BlockTask, Call
<1> QED BY <1>1, Working, RecordedBlock DEF RunInv

\* The steps of the coding activation: its reservation is due, and so is a candidate
\* that is accepted.
LEMMA CodingWrites ==
    ASSUME RunInv, NEW e \in Executions, ~Idle(e), Prepared(e),
           Reserve(e) \/ CodingFails(e) \/ CodingSucceeds(e)
    PROVE  UNCHANGED vars \/ Plain(task[T(e)], task'[T(e)])
<1>1. IInv /\ T(e) \in Tasks /\ AttemptIsReviewing(task[T(e)])
  BY Working DEF RunInv, Prepared
<1>2. CASE Reserve(e)
  <2>1. UNCHANGED vars \/ (Unapprovable(task[T(e)]) /\ ReserveActivation(T(e)))
    BY <1>2 DEF Reserve, Prepared, WritersAreDue
  <2> QED BY <1>1, <2>1, ActivationIsPlain
<1>3. CASE CodingFails(e)
  <2>1. \/ UNCHANGED vars \/ \E rev, cause : Block(T(e), rev, cause)
        \/ \E rev, s, n : s # "reviewing"
              /\ RecordWaiting(T(e), rev, "network_interruption", s, n)
    BY <1>3 DEF CodingFails, BlockTask, Call
  <2> QED BY <1>1, <2>1, RecordedBlock, WaitIsPlain
<1>4. CASE CodingSucceeds(e)
  <2>1. \/ UNCHANGED vars
        \/ \E sha, base, fence : RecordCandidate(T(e), Rev(e), sha, base, fence)
    BY <1>4 DEF CodingSucceeds, Call
  <2>2. CASE \E sha, base, fence : RecordCandidate(T(e), Rev(e), sha, base, fence)
    <3>1. CanPersist(T(e), Rev(e)) /\ At(e, "coding")
      BY <1>4, <2>2 DEF RecordCandidate, CanRecordCandidate, CodingSucceeds
    <3>2. Unapprovable(task[T(e)])
      BY <3>1, PersistsFresh DEF Prepared, WritersAreDue, At
    <3> QED BY <1>1, <2>2, <3>2, CandidateIsPlain
  <2> QED BY <2>1, <2>2
<1> QED BY <1>2, <1>3, <1>4

\* A check is recorded by a live execution, for a candidate not under review.
LEMMA CheckWrites ==
    ASSUME RunInv, NEW e \in Executions, ~Idle(e), Prepared(e), CheckCompletes(e)
    PROVE  \/ UNCHANGED vars
           \/ /\ At(e, "checking") /\ ~runs[e].aborted
              /\ Checks(task[T(e)], task'[T(e)])
<1>1. IInv /\ T(e) \in Tasks /\ AttemptIsReviewing(task[T(e)])
  BY Working DEF RunInv, Prepared
<1>2. /\ At(e, "checking") /\ ~runs[e].aborted
      /\ UNCHANGED vars \/ \E check : RecordCheck(T(e), Rev(e), check)
  BY DEF CheckCompletes, Call
<1>3. CASE \E check : RecordCheck(T(e), Rev(e), check)
  <2>1. CanPersist(T(e), Rev(e))
    BY <1>3 DEF RecordCheck, CanRecordCheck
  <2>2. task[T(e)].state = "candidate"
    BY <1>2, <2>1, PersistsFresh DEF Prepared, ChecksAreDue, At
  <2>3. task[T(e)].reviewAttempt = Null
    BY <1>1, <2>2 DEF AttemptIsReviewing
  <2> QED BY <1>1, <1>2, <1>3, <2>3, CheckIsRecorded
<1> QED BY <1>2, <1>3

\* The waits, the delivery, the batch, a retry and the ends of a review are plain.
LEMMA RecordsArePlain ==
    ASSUME RunInv, NEW e \in Executions, ~Idle(e), Prepared(e),
           \/ CheckCapabilityMissing(e) \/ RecordUnavailable(e) \/ DeliveryPending(e)
           \/ DeliverySucceeds(e) \/ ResumePipelineRetry(e) \/ RepairReviewed(e)
           \/ ReviewAborted(e) \/ ReviewCompletes(e) \/ ReviewInterrupted(e)
    PROVE  UNCHANGED vars \/ Plain(task[T(e)], task'[T(e)])
<1>1. IInv /\ T(e) \in Tasks /\ AttemptIsReviewing(task[T(e)])
  BY Working DEF RunInv, Prepared
<1>2. CASE CheckCapabilityMissing(e) \/ RecordUnavailable(e) \/ DeliveryPending(e)
  <2>1. UNCHANGED vars \/ \E rev, reason, s, n : s # "reviewing"
              /\ RecordWaiting(T(e), rev, reason, s, n)
    BY <1>2 DEF CheckCapabilityMissing, RecordUnavailable, DeliveryPending, WaitFor, Call
  <2> QED BY <1>1, <2>1, WaitIsPlain
<1>3. CASE DeliverySucceeds(e)
  <2>1. UNCHANGED vars \/ \E rev, delivery : RecordDelivery(T(e), rev, delivery)
    BY <1>3 DEF DeliverySucceeds, Call
  <2> QED BY <1>1, <2>1, DeliveryIsPlain
<1>4. CASE ResumePipelineRetry(e)
  BY <1>1, <1>4, RetryIsPlain DEF ResumePipelineRetry, Call
<1>5. CASE RepairReviewed(e)
  <2>1. \/ UNCHANGED vars \/ \E rev, cause : Block(T(e), rev, cause)
        \/ RecordRepairBatch(T(e), Rev(e))
    BY <1>5 DEF RepairReviewed, BlockTask, Call
  <2> QED BY <1>1, <2>1, RecordedBlock, BatchIsPlain DEF RecordRepairBatch
<1>6. CASE ReviewAborted(e)
  <2>1. UNCHANGED vars \/ ReleaseReviewAttempt(T(e), Rev(e), process)
    BY <1>6 DEF ReviewAborted
  <2> QED BY <1>1, <2>1, ReviewIsPlain
<1>7. CASE ReviewCompletes(e)
  <2>1. UNCHANGED vars \/ \E rev, review : RecordReview(T(e), rev, review, process)
    BY <1>7 DEF ReviewCompletes, Call
  <2> QED BY <1>1, <2>1, ReviewIsPlain
<1>8. CASE ReviewInterrupted(e)
  <2>1. \/ UNCHANGED vars
        \/ \E rev, sha, c : RecordReviewInterruption(T(e), rev, sha, c, process)
    BY <1>8 DEF ReviewInterrupted, Call
  <2> QED BY <1>1, <2>1, ReviewIsPlain
<1> QED BY <1>2, <1>3, <1>4, <1>5, <1>6, <1>7, <1>8

\* A review attempt is reserved or taken over by an execution that then holds it.
LEMMA ReservationWrites ==
    ASSUME RunInv, NEW e \in Executions, ~Idle(e),
           StartReview(e) \/ RecoverReview(e) \/ TakeOverReview(e)
    PROVE  Writes(e)
<1>1. IInv /\ T(e) \in Tasks /\ runs \in [Executions -> Run] /\ runs[e] \in Run
  BY Working DEF RunInv
<1>2. \/ UNCHANGED vars \/ \E rev, cause : Block(T(e), rev, cause)
      \/ /\ ReserveReviewAttempt(T(e), process) \/ TakeOverReviewAttempt(T(e), process)
         /\ runs'[e].stage \in {"loop", "reviewing"}
         /\ runs'[e].seen = task'[T(e)]
  <2>1. CASE StartReview(e) \/ RecoverReview(e)
    <3>1. runs[e].stage = "loop"
      BY <2>1 DEF StartReview, RecoverReview, InPhase, At
    <3>2. \/ UNCHANGED vars \/ \E rev, cause : Block(T(e), rev, cause)
          \/ /\ ReserveReviewAttempt(T(e), process)
             /\ runs' = [runs EXCEPT ![e].seen = task'[runs[e].task], ![e].claimed = TRUE]
      BY <2>1 DEF StartReview, RecoverReview, ReserveReview, BlockTask, Call
    <3>3. runs' = [runs EXCEPT ![e].seen = task'[runs[e].task], ![e].claimed = TRUE]
            => runs'[e].stage = "loop" /\ runs'[e].seen = task'[T(e)]
      BY <1>1, <3>1 DEF Run, T
    <3> QED BY <3>2, <3>3
  <2>2. CASE TakeOverReview(e)
    <3>1. \/ UNCHANGED vars \/ \E rev, cause : Block(T(e), rev, cause)
          \/ /\ TakeOverReviewAttempt(T(e), process)
             /\ runs' = [runs EXCEPT ![e].stage = "reviewing", ![e].seen = task'[runs[e].task]]
      BY <2>2 DEF TakeOverReview, BlockTask, Call
    <3>2. runs' = [runs EXCEPT ![e].stage = "reviewing", ![e].seen = task'[runs[e].task]]
            => runs'[e].stage = "reviewing" /\ runs'[e].seen = task'[T(e)]
      BY <1>1 DEF Run, T
    <3> QED BY <3>1, <3>2
  <2> QED BY <2>1, <2>2
<1> QED BY <1>1, <1>2, RecordedBlock, ReviewStarts DEF Writes

\* What a step of an execution writes.
LEMMA StepsWrite ==
    ASSUME RunInv, NEW e \in Executions, Prepared(e), ExecutionStep(e)
    PROVE  Writes(e)
<1>1. WaitStep(e) \/ WorkStep(e)
  BY DEF ExecutionStep
<1>2. ~Idle(e)
  BY <1>1, StepsAreNotIdle
<1> QED
  BY <1>1, <1>2, QuietSteps, BlockingWrites, CodingWrites, CheckWrites, RecordsArePlain,
     ReservationWrites DEF WaitStep, WorkStep, Writes

(***************************************************************************)
(* Where the steps of an execution lead                                    *)
(***************************************************************************)

\* A step keeps, forgets or renews what the execution has seen; it re-enters the
\* loop with the row as it is, starts the check of a candidate, and asks for or
\* reserves a writer only for a row that cannot be approved.
Enters(e) ==
    /\ runs'[e].seen \in {runs[e].seen, Null, task'[T(e)]}
    /\ runs'[e].stage = "loop" => runs'[e].seen = task'[T(e)]
    /\ runs'[e].stage = "checking" =>
          runs'[e].seen = runs[e].seen /\ runs[e].seen.state = "candidate"
    /\ runs'[e].stage = "activate" /\ ~runs[e].aborted => Unapprovable(task'[T(e)])
    /\ runs'[e].stage = "coding" => Unapprovable(task'[T(e)])

\* The stages a step does not enter to write or to ask for a writer.
Plainly == Stages \ {"loop", "checking", "activate", "coding"}

\* Moving to such a stage.
LEMMA GotoEnters ==
    ASSUME RunInv, NEW e \in Executions, NEW stage \in Plainly, Goto(e, stage)
    PROVE  Enters(e)
  BY DEF Goto, Enters, Plainly, RunInv, RunTypeOK, Run, T

\* An error.
LEMMA FailEnters ==
    ASSUME RunInv, NEW e \in Executions, NEW cause, Fail(e, cause)
    PROVE  Enters(e)
  BY DEF Fail, Enters, RunInv, RunTypeOK, Run, T

\* The return of a call.
LEMMA ReturnEnters ==
    ASSUME RunInv, NEW e \in Executions, NEW stage \in Plainly \cup {"loop"}, Returned(e, stage)
    PROVE  Enters(e)
  BY DEF Returned, Enters, Plainly, RunInv, RunTypeOK, Run, T

\* The steps that call the authority and return, or throw.
LEMMA CallsEnter ==
    ASSUME RunInv, NEW e \in Executions,
           \/ ReachDeadline(e) \/ ResumePipelineRetry(e) \/ BlockUnprepared(e)
           \/ CodingFails(e) \/ CodingSucceeds(e) \/ CheckThrows(e) \/ RecordUnavailable(e)
           \/ CheckCompletes(e) \/ CheckCapabilityMissing(e) \/ DeliveryPending(e)
           \/ ReviewFails(e) \/ ReviewCompletes(e) \/ ReviewInterrupted(e)
           \/ EndInconclusive(e) \/ DeliveryFails(e) \/ DeliverySucceeds(e)
    PROVE  Enters(e)
<1>0. {"ended", "unavailable"} \subseteq Plainly
  BY DEF Plainly, Stages
<1>1. Fail(e, "conflict") \/ \E stage \in Plainly \cup {"loop"} : Returned(e, stage)
  <2>1. CASE \/ ReachDeadline(e) \/ BlockUnprepared(e) \/ CheckThrows(e) \/ ReviewFails(e)
             \/ EndInconclusive(e) \/ DeliveryFails(e)
    BY <1>0, <2>1 DEF ReachDeadline, BlockUnprepared, CheckThrows, ReviewFails, EndInconclusive,
       DeliveryFails, BlockTask, Call, Returned
  <2>2. CASE ResumePipelineRetry(e)
    BY <2>2 DEF ResumePipelineRetry, Call, Returned
  <2>3. CASE CodingFails(e)
    BY <1>0, <2>3 DEF CodingFails, BlockTask, Call, Returned
  <2>4. CASE CodingSucceeds(e)
    BY <2>4 DEF CodingSucceeds, Call, Returned
  <2>5. CASE CheckCapabilityMissing(e) \/ RecordUnavailable(e) \/ DeliveryPending(e)
    BY <1>0, <2>5 DEF CheckCapabilityMissing, RecordUnavailable, DeliveryPending, WaitFor, Call,
       Returned
  <2>6. CASE CheckCompletes(e)
    BY <1>0, <2>6 DEF CheckCompletes, Call, Returned
  <2>7. CASE ReviewCompletes(e)
    BY <2>7 DEF ReviewCompletes, Call, Returned
  <2>8. CASE ReviewInterrupted(e)
    BY <2>8 DEF ReviewInterrupted, Call, Returned
  <2>9. CASE DeliverySucceeds(e)
    BY <1>0, <2>9 DEF DeliverySucceeds, Call, Returned
  <2> QED BY <2>1, <2>2, <2>3, <2>4, <2>5, <2>6, <2>7, <2>8, <2>9
<1> QED BY <1>1, FailEnters, ReturnEnters

\* The reads, the moves within the loop and the aborts.
LEMMA MovesEnter ==
    ASSUME RunInv, NEW e \in Executions,
           \/ Lookup(e) \/ PolicyFails(e) \/ VerificationFails(e) \/ ReadAdmission(e)
           \/ CatchError(e) \/ ReturnResult(e) \/ ResumePipeline(e) \/ PreparationFails(e)
           \/ StartCheck(e) \/ StartDelivery(e) \/ CodingAborted(e) \/ CheckAborted(e)
           \/ DeliveryAborted(e)
    PROVE  Enters(e)
<1>0. {"ended", "resuming", "unprepared", "delivering", "blocking", "rejected", "admit"}
        \subseteq Plainly
  BY DEF Plainly, Stages
<1>1. runs \in [Executions -> Run] /\ runs[e] \in Run /\ UNCHANGED vars => task' = task
  BY DEF RunInv, RunTypeOK, vars
<1>2. CASE Fail(e, "failure") \/ Fail(e, "conflict")
  BY <1>2, FailEnters
<1>3. CASE \E stage \in Plainly : Goto(e, stage)
  BY <1>3, GotoEnters
<1>4. CASE Lookup(e)
  BY <1>1, <1>4 DEF Lookup, Enters, Run, T, vars, RunInv, RunTypeOK
<1>5. CASE PolicyFails(e)
  BY <1>1, <1>5 DEF PolicyFails, Enters, Run, T, vars, RunInv, RunTypeOK
<1>6. CASE ReadAdmission(e) /\ ~Fail(e, "failure")
  BY <1>1, <1>6 DEF ReadAdmission, Enters, Run, T, vars, RunInv, RunTypeOK
<1>7. CASE CatchError(e)
  BY <1>1, <1>7 DEF CatchError, Enters, Run, T, vars, RunInv, RunTypeOK
<1>8. CASE StartCheck(e) /\ ~Fail(e, "failure")
  BY <1>1, <1>8 DEF StartCheck, InPhase, Goto, Enters, Run, T, Seen, vars, RunInv, RunTypeOK
<1>9. CASE \/ VerificationFails(e) \/ ReturnResult(e) \/ ResumePipeline(e)
           \/ PreparationFails(e) \/ StartDelivery(e) \/ CodingAborted(e) \/ CheckAborted(e)
           \/ DeliveryAborted(e)
  BY <1>0, <1>2, <1>3, <1>9 DEF VerificationFails, ReturnResult, ResumePipeline,
     PreparationFails, StartDelivery, CodingAborted, CheckAborted, DeliveryAborted
<1> QED BY <1>2, <1>4, <1>5, <1>6, <1>7, <1>8, <1>9

\* A writer is asked for, and reserved.
LEMMA ActivationsEnter ==
    ASSUME RunInv, NEW e \in Executions, ~Idle(e), Prepared(e),
           StartImplementing(e) \/ RepairFailedCheck(e) \/ RepairReviewed(e) \/ Reserve(e)
    PROVE  Enters(e)
<1>1. /\ IInv /\ T(e) \in Tasks /\ runs \in [Executions -> Run] /\ runs[e] \in Run
      /\ AttemptIsReviewing(task[T(e)])
  BY Working DEF RunInv, Prepared
<1>0. {"ended", "unprepared"} \subseteq Plainly
  BY DEF Plainly, Stages
<1>2. CASE StartImplementing(e) \/ RepairFailedCheck(e)
  <2>1. At(e, "loop") /\ WantsWriter(Seen(e)) /\ task' = task
    BY <1>2 DEF StartImplementing, RepairFailedCheck, InPhase, WantsWriter, vars
  <2>2. ~runs[e].aborted => Unapprovable(task'[T(e)])
    BY <2>1 DEF Prepared, WritersAreDue
  <2>3. runs' = [runs EXCEPT ![e].stage = "activate", ![e].prior = runs[e].seen.revision]
    BY <1>2 DEF StartImplementing, RepairFailedCheck, Activate
  <2>4. runs'[e].stage = "activate" /\ runs'[e].seen = runs[e].seen
    BY <1>1, <2>3 DEF Run
  <2> QED BY <2>2, <2>4 DEF Enters
<1>3. CASE RepairReviewed(e)
  <2>1. \/ Fail(e, "conflict") \/ Returned(e, "ended")
        \/ /\ RecordRepairBatch(T(e), Rev(e))
           /\ runs' = [runs EXCEPT ![e].stage = "activate",
                                   ![e].seen = task'[runs[e].task],
                                   ![e].prior = task'[runs[e].task].revision]
    BY <1>3 DEF RepairReviewed, BlockTask, Call, Returned
  <2>2. CASE RecordRepairBatch(T(e), Rev(e))
             /\ runs' = [runs EXCEPT ![e].stage = "activate",
                                     ![e].seen = task'[runs[e].task],
                                     ![e].prior = task'[runs[e].task].revision]
    <3>1. Unapprovable(task[T(e)])
      BY <2>2 DEF RecordRepairBatch, CanRecordRepairBatch, AcceptsRepairBatch, Unapprovable,
         RequestsChanges
    <3>2. Unapprovable(task'[T(e)])
      <4>1. CASE UNCHANGED vars
        BY <3>1, <4>1 DEF vars
      <4>2. CASE ~UNCHANGED vars
        <5>1. Plain(task[T(e)], task'[T(e)])
          BY <1>1, <2>2, <4>2, BatchIsPlain DEF RecordRepairBatch
        <5> QED BY <3>1, <5>1 DEF Plain
      <4> QED BY <4>1, <4>2
    <3>3. runs'[e].stage = "activate" /\ runs'[e].seen = task'[T(e)]
      BY <1>1, <2>2 DEF Run, T
    <3> QED BY <3>2, <3>3 DEF Enters
  <2> QED BY <1>0, <2>1, <2>2, FailEnters, ReturnEnters
<1>4. CASE Reserve(e)
  <2>1. \/ Fail(e, "failure") \/ Goto(e, "unprepared")
        \/ /\ At(e, "activate") /\ ~runs[e].aborted
           /\ ReserveActivation(T(e)) /\ Returned(e, "coding")
    BY <1>4 DEF Reserve, Returned
  <2>2. CASE /\ At(e, "activate") /\ ~runs[e].aborted
             /\ ReserveActivation(T(e)) /\ Returned(e, "coding")
    <3>1. Unapprovable(task[T(e)])
      BY <2>2 DEF Prepared, WritersAreDue
    <3>2. Plain(task[T(e)], task'[T(e)])
      BY <1>1, <2>2, <3>1, ActivationIsPlain
    <3>3. runs'[e].stage = "coding" /\ runs'[e].seen = task'[T(e)]
      BY <1>1, <2>2 DEF Returned, Run, T
    <3> QED BY <3>1, <3>2, <3>3 DEF Enters, Plain
  <2> QED BY <1>0, <2>1, <2>2, FailEnters, GotoEnters
<1> QED BY <1>2, <1>3, <1>4

\* The steps of a review that hold or give back a claim, and the last one.
LEMMA ClaimsEnter ==
    ASSUME RunInv, NEW e \in Executions,
           \/ RecoverReview(e) \/ StartReview(e) \/ TakeOverReview(e) \/ BeginReview(e)
           \/ ReviewAborted(e) \/ BlockFailed(e)
    PROVE  Enters(e)
<1>1. runs \in [Executions -> Run] /\ runs[e] \in Run
  BY DEF RunInv, RunTypeOK
<1>0. {"ended", "reviewing"} \subseteq Plainly
  BY DEF Plainly, Stages
<1>2. CASE RecoverReview(e) \/ StartReview(e)
  <2>1. runs[e].stage = "loop"
    BY <1>2 DEF RecoverReview, StartReview, InPhase, At
  <2>2. ReserveReview(e) \/ Fail(e, "conflict") \/ Returned(e, "ended")
    BY <1>2 DEF RecoverReview, StartReview, BlockTask, Call, Returned
  <2>3. CASE ReserveReview(e) /\ ~Fail(e, "conflict")
    BY <1>1, <2>1, <2>3 DEF ReserveReview, Enters, Run, T, vars
  <2> QED BY <1>0, <2>2, <2>3, FailEnters, ReturnEnters
<1>3. CASE TakeOverReview(e)
  <2>1. Fail(e, "conflict") \/ Returned(e, "ended") \/ Returned(e, "reviewing")
    BY <1>3 DEF TakeOverReview, BlockTask, Call, Returned
  <2> QED BY <1>0, <2>1, FailEnters, ReturnEnters
<1>4. CASE BeginReview(e)
  BY <1>1, <1>4 DEF BeginReview, Enters, Run
<1>5. CASE ReviewAborted(e)
  BY <1>1, <1>5 DEF ReviewAborted, Enters, Run
<1>6. CASE BlockFailed(e)
  <2>1. \/ Returned(e, "ended")
        \/ runs' = [runs EXCEPT ![e].stage = "rejected", ![e].seen = Null]
    BY <1>6 DEF BlockFailed, Returned
  <2>2. CASE runs' = [runs EXCEPT ![e].stage = "rejected", ![e].seen = Null]
    BY <1>1, <2>2 DEF Enters, Run
  <2> QED BY <1>0, <2>1, <2>2, ReturnEnters
<1> QED BY <1>2, <1>3, <1>4, <1>5, <1>6

\* Where a step of an execution leads.
LEMMA StepsEnter ==
    ASSUME RunInv, NEW e \in Executions, Prepared(e), ExecutionStep(e)
    PROVE  Enters(e)
<1>1. WaitStep(e) \/ WorkStep(e)
  BY DEF ExecutionStep
<1>2. ~Idle(e)
  BY <1>1, StepsAreNotIdle
<1> QED
  BY <1>1, <1>2, CallsEnter, MovesEnter, ActivationsEnter, ClaimsEnter DEF WaitStep, WorkStep

\* The holder of a review attempt that has not written the row still holds it: each
\* of its calls would be accepted.
LEMMA HolderStays ==
    ASSUME RunInv, NEW e \in Executions, Prepared(e), ExecutionStep(e), Holds(e, T(e)),
           Active(T(e)), task[T(e)].reviewAttempt = process, task'[T(e)] = task[T(e)]
    PROVE  runs'[e].stage \in {"loop", "reviewing"} /\ runs'[e].seen = runs[e].seen
<1> DEFINE t == T(e)
           r == task[t]
<1>1. /\ t \in Tasks /\ Seen(e) = r /\ Rev(e) = r.revision /\ Admitted(t)
      /\ runs[e].stage \in {"loop", "reviewing"} /\ runs \in [Executions -> Run]
      /\ runs[e] \in Run /\ process \in Owners /\ IInv
  BY Working DEF Holds, Prepared, SeenIsSound, Fresh, RunInv, RunTypeOK, Idle
<1>2. HoldsLease(t) /\ ~IsTerminalState(r.state)
  BY <1>1 DEF RunInv, IInv, LeaseMatchesActive, Active
<1>3. /\ r \in TaskResult /\ SoundProgress(r) /\ r.state = "reviewing"
      /\ r.reviewAttempt = process /\ r.reviewAttempt # Null
  BY <1>1, <1>2, ReviewedRows, TasksAssumption DEF Prepared, AttemptIsReviewing
<1>4. PassingCheck(r) /\ r.candidateFence # 0 /\ r.revision \in Nat
  BY <1>3 DEF SoundProgress, Stands, PassingCheck, TaskResult
<1>5. CanPersist(t, Rev(e)) /\ CanBlock(t, Rev(e)) /\ CanBlock(t, task[t].revision)
  BY <1>1, <1>2, <1>3 DEF CanPersist, CanBlock, CanTransition
<1>6. ASSUME NEW rev, NEW cause PROVE ~Block(t, rev, cause)
  <2>1. Block(t, rev, cause) => Plain(r, task'[t])
    BY <1>1, RecordedBlock
  <2> QED BY <1>4, <2>1 DEF Plain
<1>7. ~BlockTask(e, Rev(e), "failure") /\ ~BlockTask(e, Rev(e), "elapsed_budget")
        /\ ~BlockTask(e, task[t].revision, "failure")
  BY <1>5, <1>6 DEF BlockTask, Call
<1>8. CASE runs[e].stage = "loop"
  <2>1. ~ReachDeadline(e)
    BY <1>7 DEF ReachDeadline
  <2>2. ~ReturnResult(e)
    BY <1>1, <1>2, <1>3 DEF ReturnResult, Restartable, Launchable
  <2>3. ~TakeOverReview(e)
    <3> SUFFICES ASSUME TakeOverReview(e) PROVE FALSE
      OBVIOUS
    <3>1. ~CountBudgetExhausted(ReviewLimit[t], r.reviewCycles)
      BY <1>2, <1>3, <1>7 DEF TakeOverReview
    <3>2. CanTakeOverReviewAttempt(t)
      BY <1>1, <1>2, <1>3, <1>4, <3>1 DEF CanTakeOverReviewAttempt, AcceptsReviewStarted,
         CanTransition
    <3>3. TakeOverReviewAttempt(t, process)
      BY <1>7, <3>1, <3>2 DEF TakeOverReview
    <3>4. Starts(r, task'[t], process)
      BY <1>1, <3>3, ReviewStarts
    <3> QED BY <1>4, <3>4 DEF Starts
  <2>4. BeginReview(e)
    BY <1>1, <1>3, <1>8, <2>1, <2>2, <2>3
       DEF ExecutionStep, WaitStep, WorkStep, At, InPhase, PipelineWait, ReviewWait,
           CheckCapabilityMissing, CheckCompletes, DeliveryPending, Lookup, PolicyFails,
           VerificationFails, ReadAdmission, ResumePipeline, ResumePipelineRetry,
           RecoverReview, StartImplementing, RepairFailedCheck, RepairReviewed, Reserve,
           PreparationFails, BlockUnprepared, CodingAborted, CodingFails, CodingSucceeds,
           StartCheck, CheckAborted, CheckThrows, RecordUnavailable, StartReview,
           ReviewAborted, ReviewFails, ReviewCompletes, ReviewInterrupted, EndInconclusive,
           StartDelivery, DeliveryAborted, DeliveryFails, DeliverySucceeds, CatchError,
           BlockFailed
  <2> QED BY <1>1, <2>4 DEF BeginReview, Run
<1>9. CASE runs[e].stage = "reviewing"
  <2>1. ~ReviewFails(e)
    BY <1>7 DEF ReviewFails
  <2>2. ~ReviewAborted(e)
    <3>1. CanReleaseReviewAttempt(t, Rev(e), process)
      BY <1>3, <1>4, <1>5 DEF CanReleaseReviewAttempt, AcceptsReviewReleased, CanTransition,
         OwnsReview
    <3>2. ~ReleaseReviewAttempt(t, Rev(e), process)
      <4>1. ReleaseReviewAttempt(t, Rev(e), process) => Plain(r, task'[t])
        BY <1>1, ReviewIsPlain
      <4> QED BY <1>4, <4>1 DEF Plain
    <3> QED BY <3>1, <3>2 DEF ReviewAborted
  <2>3. ~ReviewCompletes(e)
    <3> SUFFICES ASSUME NEW verdict \in Verdicts
                 PROVE  LET review == [sha |-> Seen(e).candidateSha, verdict |-> verdict] IN
                        /\ CanRecordReview(t, Rev(e), review, process)
                        /\ ~RecordReview(t, Rev(e), review, process)
      BY DEF ReviewCompletes, Call
    <3> DEFINE review == [sha |-> Seen(e).candidateSha, verdict |-> verdict]
    <3>1. CanRecordReview(t, Rev(e), review, process)
      BY <1>1, <1>3, <1>4, <1>5 DEF CanRecordReview, AcceptsReview, OwnsReview
    <3>2. RecordReview(t, Rev(e), review, process) => Plain(r, task'[t])
      BY <1>1, ReviewIsPlain
    <3> QED BY <1>4, <3>1, <3>2 DEF Plain
  <2>4. ~ReviewInterrupted(e)
    <3> SUFFICES ASSUME NEW c \in FailureClasses
                 PROVE  LET sha == Seen(e).candidateSha IN
                        /\ CanRecordReviewInterruption(t, Rev(e), sha, process)
                        /\ ~RecordReviewInterruption(t, Rev(e), sha, c, process)
      BY DEF ReviewInterrupted, Call
    <3> DEFINE sha == Seen(e).candidateSha
    <3>1. CanRecordReviewInterruption(t, Rev(e), sha, process)
      BY <1>1, <1>3, <1>4, <1>5 DEF CanRecordReviewInterruption, AcceptsReviewInterrupted,
         OwnsReview
    <3>2. RecordReviewInterruption(t, Rev(e), sha, c, process) => Plain(r, task'[t])
      BY <1>1, ReviewIsPlain
    <3> QED BY <1>4, <3>1, <3>2 DEF Plain
  <2> QED
    BY <1>9, <2>1, <2>2, <2>3, <2>4
       DEF ExecutionStep, WaitStep, WorkStep, At, InPhase, CheckCapabilityMissing,
           CheckCompletes, DeliveryPending, Lookup, PolicyFails, VerificationFails,
           ReadAdmission, ReturnResult, ReachDeadline, ResumePipeline, ResumePipelineRetry,
           RecoverReview, StartImplementing, RepairFailedCheck, RepairReviewed, Reserve,
           PreparationFails, BlockUnprepared, CodingAborted, CodingFails, CodingSucceeds,
           StartCheck, CheckAborted, CheckThrows, RecordUnavailable, StartReview,
           TakeOverReview, BeginReview, EndInconclusive, StartDelivery, DeliveryAborted,
           DeliveryFails, DeliverySucceeds, CatchError, BlockFailed
<1> QED BY <1>1, <1>8, <1>9

(***************************************************************************)
(* The bundle's invariant                                                  *)
(***************************************************************************)

\* What the approved bundle rests on, beside the types and the one live execution.
BundleInv ==
    /\ \A e \in Executions : ~Idle(e) =>
          SeenIsSound(e) /\ WritersAreDue(e) /\ ChecksAreDue(e)
    /\ \A t \in Tasks : AttemptsAreOwned(t)
    /\ \A t \in Tasks : ReviewIsHeld(t)

\* An execution that stays where it is, with its Task and its result.
Remains(f) ==
    /\ runs'[f].stage = runs[f].stage /\ runs'[f].task = runs[f].task
    /\ runs'[f].seen = runs[f].seen
    /\ runs[f].aborted => runs'[f].aborted

\* A row that a live execution still wants a writer for did not become approvable.
StaysUnapprovable(f) ==
    runs[f].stage \in {"activate", "loop"} /\ ~runs[f].aborted =>
        (Unapprovable(task[T(f)]) => Unapprovable(task'[T(f)]))

\* An execution that a step leaves at its stage, perhaps told to stop, stays sound:
\* a row that was written is newer than what it has seen.
LEMMA StaysDue ==
    ASSUME RunInv, [Next]_vars, NEW f \in Executions, ~Idle(f),
           SeenIsSound(f), WritersAreDue(f), ChecksAreDue(f), Remains(f), StaysUnapprovable(f)
    PROVE  SeenIsSound(f)' /\ WritersAreDue(f)' /\ ChecksAreDue(f)'
<1>1. /\ T(f) \in Tasks /\ Admitted(T(f)) /\ IInv /\ task[T(f)] \in TaskResult
      /\ Seen(f) \in TaskResult \cup {Null}
  BY Working, RowOfAdmitted DEF RunInv, RunTypeOK, Run, Seen
<1>2. task[T(f)].revision \in Nat /\ (Seen(f) # Null => Rev(f) \in Nat)
  BY <1>1 DEF TaskResult, Rev, Seen
<1>3. \/ task'[T(f)] = task[T(f)]
      \/ task'[T(f)].revision = task[T(f)].revision + 1
  BY <1>1, RowsGrow
<1>4. T(f)' = T(f) /\ Seen(f)' = Seen(f) /\ (Seen(f) # Null => Rev(f)' = Rev(f))
  BY DEF T, Seen, Rev, Remains
<1>5. Fresh(f)' => Fresh(f) /\ task'[T(f)] = task[T(f)]
  BY <1>2, <1>3, <1>4 DEF Fresh, SeenIsSound
<1>6. SeenIsSound(f)'
  BY <1>2, <1>3, <1>4, <1>5 DEF SeenIsSound
<1>7. WritersAreDue(f)'
  BY <1>4, <1>5 DEF WritersAreDue, At, Seen, Remains, StaysUnapprovable
<1>8. ChecksAreDue(f)'
  BY <1>4 DEF ChecksAreDue, At, Seen, Remains
<1> QED BY <1>6, <1>7, <1>8

\* A new row has no review attempt; neither has one that a plain write left.
LEMMA PlainRows ==
    ASSUME RunInv, NEW t \in Tasks,
           ~Admitted(t) /\ Admitted(t)' => task'[t] = NewTask(t),
           Admitted(t) => task'[t] = task[t] \/ Plain(task[t], task'[t]),
           Admitted(t)', AttemptsAreOwned(t)
    PROVE  /\ AttemptIsReviewing(task'[t])
           /\ task'[t].reviewAttempt # Null =>
                 task'[t] = task[t] /\ Admitted(t) /\ task[t].reviewAttempt <= process
  BY DEF AttemptsAreOwned, AttemptIsReviewing, Plain, NewTask, Admitted

\* Requests, launches, the clock, and the end or start of executions and servers keep
\* the bundle's invariant.
LEMMA ServerKeepsBundle ==
    ASSUME RunInv, RunInv', BundleInv, [Next]_vars,
           \A f \in Executions :
              \/ runs'[f].stage = "idle"
              \/ runs'[f].stage = "prelude" /\ runs'[f].seen = Null
              \/ Remains(f),
           \A t \in Tasks : Admitted(t) => task'[t] = task[t] \/ Plain(task[t], task'[t]),
           \A t \in Tasks : ~Admitted(t) /\ Admitted(t)' => task'[t] = NewTask(t),
           \/ server' = "down" /\ process' = process
           \/ server' # "down" /\ server = "down" /\ process' = process + 1
           \/ /\ server # "down" /\ process' = process
              /\ \A f \in Executions : runs[f].stage \in {"loop", "reviewing"} => Remains(f)
    PROVE  BundleInv'
<1>1. /\ process \in Nat /\ process \in Owners /\ process' \in Owners
      /\ Owners \subseteq Nat /\ Null \notin Owners
  BY ProcessesAssumption, TasksAssumption DEF RunInv, RunTypeOK
<1>2. ASSUME NEW f \in Executions, ~Idle(f)'
      PROVE  SeenIsSound(f)' /\ WritersAreDue(f)' /\ ChecksAreDue(f)'
  <2>1. CASE runs'[f].stage = "prelude" /\ runs'[f].seen = Null
    BY <2>1 DEF SeenIsSound, WritersAreDue, ChecksAreDue, Seen, At, Fresh
  <2>2. CASE Remains(f)
    <3>1. ~Idle(f)
      BY <1>2, <2>2 DEF Remains, Idle
    <3>2. T(f) \in Tasks /\ Admitted(T(f))
      BY <3>1, Working
    <3>3. StaysUnapprovable(f)
      BY <3>2 DEF Plain, StaysUnapprovable
    <3>4. SeenIsSound(f) /\ WritersAreDue(f) /\ ChecksAreDue(f)
      BY <3>1 DEF BundleInv
    <3> QED BY <2>2, <3>1, <3>3, <3>4, StaysDue
  <2> QED BY <1>2, <2>1, <2>2 DEF Idle
<1>3. ASSUME NEW t \in Tasks, Admitted(t)'
      PROVE  /\ AttemptIsReviewing(task'[t])
             /\ task'[t].reviewAttempt # Null =>
                   task'[t] = task[t] /\ Admitted(t) /\ task[t].reviewAttempt <= process
  BY <1>3, PlainRows DEF BundleInv
<1>4. ASSUME NEW t \in Tasks, Admitted(t)', task'[t].reviewAttempt # Null
      PROVE  task'[t].reviewAttempt \in Nat
  <2>1. task'[t] \in TaskResult
    BY <1>4 DEF RunInv, IInv, Rows, RowInv
  <2> QED BY <1>1, <1>4, <2>1 DEF TaskResult
<1>5. ASSUME NEW t \in Tasks PROVE AttemptsAreOwned(t)'
  <2>1. process <= process'
    BY <1>1
  <2> QED BY <1>1, <1>3, <1>4, <2>1 DEF AttemptsAreOwned
<1>6. ASSUME NEW t \in Tasks, Active(t)', task'[t].reviewAttempt = process', server' # "down"
      PROVE  \E e \in Executions : Holds(e, t)'
  <2>1. /\ task'[t] = task[t] /\ Admitted(t) /\ task[t].reviewAttempt <= process
    BY <1>1, <1>3, <1>6 DEF Active
  <2>2. /\ server # "down" /\ process' = process
        /\ \A f \in Executions : runs[f].stage \in {"loop", "reviewing"} => Remains(f)
    BY <1>1, <1>6, <2>1
  <2>3. PICK e \in Executions : Holds(e, t)
    BY <1>6, <2>1, <2>2 DEF BundleInv, ReviewIsHeld, Active, Admitted
  <2>4. Remains(e)
    BY <2>2, <2>3 DEF Holds
  <2>5. Holds(e, t)'
    BY <2>1, <2>3, <2>4 DEF Holds, Remains, Fresh, T, Seen, Rev
  <2> QED BY <2>5
<1> QED BY <1>2, <1>5, <1>6 DEF BundleInv, ReviewIsHeld

\* What an execution has seen after a step of its own.
LEMMA StepIsDue ==
    ASSUME RunInv, RunInv', [Next]_vars, NEW e \in Executions, ~Idle(e), Prepared(e), Enters(e),
           runs'[e].task = runs[e].task, runs'[e].aborted = runs[e].aborted
    PROVE  SeenIsSound(e)' /\ WritersAreDue(e)' /\ ChecksAreDue(e)'
<1>1. /\ T(e) \in Tasks /\ Admitted(T(e)) /\ IInv /\ task[T(e)] \in TaskResult
      /\ Seen(e) \in TaskResult \cup {Null}
  BY Working, RowOfAdmitted DEF RunInv, RunTypeOK, Run, Seen
<1>2. /\ task[T(e)].revision \in Nat /\ (Seen(e) # Null => Rev(e) \in Nat)
      /\ task'[T(e)] \in TaskResult /\ task'[T(e)].revision \in Nat
  BY <1>1, AdmittedStays DEF TaskResult, Rev, Seen
<1>3. task'[T(e)] = task[T(e)] \/ task'[T(e)].revision = task[T(e)].revision + 1
  BY <1>1, RowsGrow
<1>4. T(e)' = T(e)
  BY DEF T
<1>5. SeenIsSound(e)'
  <2>1. CASE runs'[e].seen = Null
    BY <2>1 DEF SeenIsSound, Seen
  <2>2. CASE runs'[e].seen = task'[T(e)]
    BY <1>2, <1>4, <2>2 DEF SeenIsSound, Seen, Rev
  <2>3. CASE runs'[e].seen = runs[e].seen
    <3>1. Seen(e)' = Seen(e) /\ Rev(e)' = Rev(e)
      BY <2>3 DEF Seen, Rev
    <3> QED BY <1>2, <1>3, <1>4, <3>1 DEF Prepared, SeenIsSound, Fresh
  <2> QED BY <2>1, <2>2, <2>3 DEF Enters
<1>6. WritersAreDue(e)'
  <2>1. At(e, "loop")' /\ ~runs'[e].aborted /\ WantsWriter(Seen(e)')
            => Unapprovable(task'[T(e)])
    <3>1. (Admitted(T(e)) /\ WantsWriter(task[T(e)]) => Unapprovable(task[T(e)]))'
      BY <1>1, <1>4, WritersAreForUnapprovable DEF RunInv, IInv, Rows, RowInv, WantsWriter,
         Unapprovable, SoundProgress, Stands, RequestsChanges, PassingCheck, IsTerminalState,
         TerminalStates
    <3>2. Admitted(T(e))'
      BY <1>1, <1>4, AdmittedStays DEF Admitted
    <3>3. At(e, "loop")' => Seen(e)' = task'[T(e)]
      BY DEF Enters, At, Seen
    <3> QED BY <1>4, <3>1, <3>2, <3>3
  <2> QED BY <1>4, <2>1 DEF WritersAreDue, Enters, At
<1>7. ChecksAreDue(e)'
  BY DEF ChecksAreDue, Enters, At, Seen
<1> QED BY <1>5, <1>6, <1>7

\* So do the steps of executions.
LEMMA ExecutionKeepsBundle ==
    ASSUME RunInv, RunInv', OneLiveExecution, BundleInv, [RunNext]_allVars,
           NEW e \in Executions, ExecutionStep(e)
    PROVE  BundleInv'
<1> DEFINE t == T(e)
<1>1. /\ [Next]_vars /\ IInv /\ IInv'
  BY SystemTakesSteps DEF RunInv
<1>2. Moves(e) /\ ~Idle(e) /\ ~Over(e) /\ t \in Tasks /\ Admitted(t)
  BY <1>1, StepsMove, StepsAreNotIdle, StepsAreNotOver, Working DEF ExecutionStep
<1>3. Prepared(e)
  BY <1>2 DEF BundleInv, Prepared, AttemptsAreOwned
<1>4. Writes(e) /\ Enters(e)
  BY <1>3, StepsWrite, StepsEnter
<1>5. server' = server /\ process' = process /\ process \in Owners /\ Null \notin Owners
  BY TasksAssumption DEF ExecutionStep, RunInv, RunTypeOK
<1>6. task[t].revision \in Nat /\ task[t] \in TaskResult
  BY <1>1, <1>2, RowOfAdmitted DEF TaskResult
<1>7. \A u \in Tasks \ {t} : task'[u] = task[u]
  <2>1. CASE UNCHANGED vars
    BY <2>1 DEF vars
  <2>2. CASE ~UNCHANGED vars
    <3>1. task'[t].revision = task[t].revision + 1
      BY <1>4, <2>2 DEF Writes, Plain, Checks, Starts
    <3> QED BY <1>1, <1>2, <1>6, <3>1, RowsGrow
  <2> QED BY <2>1, <2>2
<1>8. task'[t] # task[t] => ~UNCHANGED vars
  BY DEF vars
<1>9. ASSUME NEW f \in Executions, ~Idle(f)'
      PROVE  SeenIsSound(f)' /\ WritersAreDue(f)' /\ ChecksAreDue(f)'
  <2>1. CASE f = e
    BY <1>1, <1>2, <1>3, <1>4, <2>1, StepIsDue DEF Moves
  <2>2. CASE f # e
    <3>1. runs'[f] = runs[f] /\ ~Idle(f)
      BY <1>2, <1>9, <2>2 DEF Moves, Idle
    <3>2. SeenIsSound(f) /\ WritersAreDue(f) /\ ChecksAreDue(f) /\ T(f) \in Tasks
      BY <3>1, Working DEF BundleInv
    <3>3. ASSUME runs[f].stage \in {"activate", "loop"}, ~runs[f].aborted,
                 Unapprovable(task[T(f)])
          PROVE  Unapprovable(task'[T(f)])
      <4>1. CASE T(f) # t
        BY <1>7, <3>2, <3>3, <4>1
      <4>2. CASE T(f) = t
        <5>1. ~(At(e, "checking") /\ ~runs[e].aborted)
          BY <1>2, <2>2, <3>1, <3>3, <4>2 DEF OneLiveExecution, Over
        <5> QED BY <1>4, <1>8, <3>3, <4>2, <5>1 DEF Writes, Plain, Starts
      <4> QED BY <4>1, <4>2
    <3>4. Remains(f) /\ StaysUnapprovable(f)
      BY <3>1, <3>3 DEF Remains, StaysUnapprovable
    <3> QED BY <1>1, <3>1, <3>2, <3>4, StaysDue
  <2> QED BY <2>1, <2>2
<1>10. ASSUME NEW u \in Tasks PROVE AttemptsAreOwned(u)'
  <2>1. CASE u # t
    BY <1>5, <1>7, <2>1 DEF BundleInv, AttemptsAreOwned, AttemptIsReviewing, Admitted
  <2>2. CASE u = t /\ task'[t] = task[t]
    BY <1>5, <2>2 DEF BundleInv, AttemptsAreOwned, AttemptIsReviewing, Admitted
  <2>3. CASE u = t /\ task'[t] # task[t]
    <3>1. \/ task'[t].reviewAttempt = Null
          \/ task'[t].state = "reviewing" /\ task'[t].reviewAttempt = process
      BY <1>4, <1>8, <2>3 DEF Writes, Plain, Checks, Starts
    <3>2. process \in Nat
      BY <1>5, ProcessesAssumption
    <3> QED BY <1>5, <2>3, <3>1, <3>2 DEF AttemptsAreOwned, AttemptIsReviewing
  <2> QED BY <2>1, <2>2, <2>3
<1>11. ASSUME NEW u \in Tasks, Active(u)', task'[u].reviewAttempt = process', server' # "down"
       PROVE  \E h \in Executions : Holds(h, u)'
  <2>1. CASE task'[u] # task[u]
    <3>1. u = t
      BY <1>7, <2>1
    <3>2. /\ runs'[e].stage \in {"loop", "reviewing"}
          /\ runs'[e].seen = task'[t]
      BY <1>4, <1>5, <1>8, <1>11, <2>1, <3>1 DEF Writes, Plain, Checks
    <3>3. Holds(e, u)'
      BY <1>2, <1>11, <3>1, <3>2 DEF Holds, Fresh, Moves, T, Seen, Rev, Active, Admitted
    <3> QED BY <3>3
  <2>2. CASE task'[u] = task[u]
    <3>1. Active(u) /\ task[u].reviewAttempt = process /\ server # "down"
      BY <1>5, <1>11, <2>2 DEF Active, Admitted
    <3>2. PICK h \in Executions : Holds(h, u)
      BY <3>1 DEF BundleInv, ReviewIsHeld
    <3>3. CASE h # e
      <4>1. runs'[h] = runs[h]
        BY <1>2, <3>3 DEF Moves
      <4> QED BY <2>2, <3>2, <4>1 DEF Holds, Fresh, T, Seen, Rev
    <3>4. CASE h = e
      <4>1. u = t
        BY <3>2, <3>4 DEF Holds
      <4>2. /\ runs'[e].stage \in {"loop", "reviewing"} /\ runs'[e].seen = runs[e].seen
        BY <1>3, <2>2, <3>1, <3>2, <3>4, <4>1, HolderStays
      <4>3. Holds(e, u)'
        BY <1>2, <2>2, <3>2, <3>4, <4>2 DEF Holds, Fresh, Moves, T, Seen, Rev
      <4> QED BY <4>3
    <3> QED BY <3>3, <3>4
  <2> QED BY <2>1, <2>2
<1> QED BY <1>9, <1>10, <1>11 DEF BundleInv, ReviewIsHeld

\* A launch, a close, a crash and the end of an execution leave each other execution
\* where it is, perhaps told to stop.
LEMMA ServerLeavesRuns ==
    ASSUME RunInv,
           \/ \E t \in Tasks : CompleteLaunch(t) \/ FireTimer(t)
           \/ Close \/ Closed \/ Crash \/ Restart
           \/ \E e \in Executions : Settle(e)
    PROVE  \A f \in Executions :
              \/ runs'[f].stage = "idle" /\ (server' = "down" \/ Over(f))
              \/ runs'[f].stage = "prelude" /\ runs'[f].seen = Null /\ Idle(f)
              \/ Remains(f)
<1>1. runs \in [Executions -> Run] /\ \A f \in Executions : runs[f] \in Run
  BY DEF RunInv, RunTypeOK
<1>2. ASSUME NEW f \in Executions, runs'[f] = runs[f] PROVE Remains(f)
  BY <1>2 DEF Remains
<1>3. ASSUME NEW f \in Executions, runs'[f] = [runs[f] EXCEPT !.aborted = TRUE]
      PROVE  Remains(f)
  <2>1. /\ runs'[f].stage = runs[f].stage /\ runs'[f].task = runs[f].task
        /\ runs'[f].seen = runs[f].seen /\ runs'[f].aborted = TRUE
    BY <1>1, <1>3 DEF Run
  <2> QED BY <2>1 DEF Remains
<1>4. ASSUME NEW t \in Tasks, CompleteLaunch(t) \/ FireTimer(t), NEW f \in Executions
      PROVE  \/ runs'[f].stage = "prelude" /\ runs'[f].seen = Null /\ Idle(f)
             \/ Remains(f)
  <2>1. \/ UNCHANGED runs
        \/ \E e \in Executions :
              /\ Idle(e)
              /\ runs' = [g \in Executions |->
                   CASE g = e -> StartedRun(t)
                     [] g # e /\ runs[g].task = t -> [runs[g] EXCEPT !.aborted = TRUE]
                     [] OTHER -> runs[g]]
    BY <1>4 DEF CompleteLaunch, FireTimer, Launch
  <2>2. \/ runs'[f] = runs[f] \/ runs'[f] = [runs[f] EXCEPT !.aborted = TRUE]
        \/ Idle(f) /\ runs'[f] = StartedRun(t)
    BY <2>1
  <2>3. StartedRun(t).stage = "prelude" /\ StartedRun(t).seen = Null
    BY DEF StartedRun, IdleRun
  <2> QED BY <1>2, <1>3, <2>2, <2>3
<1>5. ASSUME Closed \/ Restart, NEW f \in Executions PROVE Remains(f)
  BY <1>2, <1>5 DEF Closed, Restart
<1>6. ASSUME Close, NEW f \in Executions PROVE Remains(f)
  BY <1>2, <1>3, <1>6 DEF Close
<1>7. ASSUME Crash, NEW f \in Executions PROVE runs'[f].stage = "idle" /\ server' = "down"
  BY <1>7, FreshRuns DEF Crash
<1>8. ASSUME NEW e \in Executions, Settle(e), NEW f \in Executions
      PROVE  (runs'[f].stage = "idle" /\ Over(f)) \/ Remains(f)
  <2>1. (f = e /\ runs'[f] = IdleRun /\ Over(f)) \/ runs'[f] = runs[f]
    BY <1>1, <1>8 DEF Settle
  <2> QED BY <1>2, <2>1, FreshRuns
<1> QED BY <1>4, <1>5, <1>6, <1>7, <1>8

\* Requests write at most a new row, a blocker or a retry.
LEMMA RequestsArePlain ==
    ASSUME RunInv, BundleInv, NEW t \in Tasks,
           Submit(t) \/ Resubmit(t) \/ OperatorRetry(t) \/ Deadline(t)
    PROVE  /\ UNCHANGED <<runs, server, process>>
           /\ \A u \in Tasks : Admitted(u) => task'[u] = task[u] \/ Plain(task[u], task'[u])
           /\ \A u \in Tasks : ~Admitted(u) /\ Admitted(u)' => task'[u] = NewTask(u)
<1>1. IInv /\ task \in [Tasks -> TaskResult \cup {Null}]
  BY DEF RunInv, IInv, Types
<1>2. UNCHANGED <<runs, server, process>>
  BY DEF Submit, Resubmit, OperatorRetry, Deadline, runVars
<1>3. CASE Submit(t)
  <2>1. /\ ~Admitted(t) /\ task'[t] = NewTask(t)
        /\ \A u \in Tasks \ {t} : task'[u] = task[u]
    BY <1>1, <1>3, AdmittedActive DEF Submit
  <2> QED BY <1>2, <2>1 DEF Admitted
<1>4. CASE UNCHANGED task
  BY <1>2, <1>4 DEF Admitted
<1>5. CASE \E rev, blocker : Block(t, rev, blocker)
  <2>1. Plain(task[t], task'[t])
    BY <1>1, <1>5, RecordedBlock
  <2>2. Admitted(t) /\ \A u \in Tasks \ {t} : task'[u] = task[u]
    BY <1>1, <1>5 DEF Block, CanBlock, CanPersist, Save
  <2> QED BY <1>2, <2>1, <2>2 DEF Admitted
<1>6. CASE RetryTask(t, ActivationLimit[t])
  <2>1. Admitted(t) /\ AttemptIsReviewing(task[t])
    BY <1>6 DEF RetryTask, CanRetry, BundleInv, AttemptsAreOwned
  <2>2. Plain(task[t], task'[t])
    BY <1>1, <1>6, <2>1, RetryIsPlain
  <2>3. \A u \in Tasks \ {t} : task'[u] = task[u]
    BY <1>1, <1>6 DEF RetryTask, Save
  <2> QED BY <1>2, <2>1, <2>2, <2>3 DEF Admitted
<1> QED BY <1>3, <1>4, <1>5, <1>6
        DEF Resubmit, OperatorRetry, Deadline, PassDeadline, vars

\* Every step keeps the bundle's invariant.
LEMMA BundleInductive ==
    ASSUME RunInv, RunInv', OneLiveExecution, BundleInv, [RunNext]_allVars
    PROVE  BundleInv'
<1>1. [Next]_vars /\ IInv
  BY SystemTakesSteps DEF RunInv
<1>2. ASSUME NEW e \in Executions, ExecutionStep(e) PROVE BundleInv'
  BY <1>2, ExecutionKeepsBundle
<1>3. ASSUME NEW t \in Tasks, Submit(t) \/ Resubmit(t) \/ OperatorRetry(t) \/ Deadline(t)
      PROVE  BundleInv'
  <2>1. \A f \in Executions : Remains(f)
    BY <1>3, RequestsArePlain DEF Remains
  <2>2. server' = server /\ process' = process
    BY <1>3, RequestsArePlain
  <2>3. CASE server' = "down"
    BY <1>1, <1>3, <2>1, <2>2, <2>3, RequestsArePlain, ServerKeepsBundle
  <2>4. CASE server' # "down"
    BY <1>1, <1>3, <2>1, <2>2, <2>4, RequestsArePlain, ServerKeepsBundle
  <2> QED BY <2>3, <2>4
<1>4. ASSUME \/ UNCHANGED allVars
             \/ \E t \in Tasks : CompleteLaunch(t) \/ FireTimer(t)
             \/ Close \/ Closed \/ Crash \/ Restart
             \/ \E e \in Executions : Settle(e)
      PROVE  BundleInv'
  <2>1. task' = task
    BY <1>4 DEF CompleteLaunch, FireTimer, Close, Closed, Crash, Restart, Settle, vars, allVars
  <2>2. \A f \in Executions :
              \/ runs'[f].stage = "idle" /\ (server' = "down" \/ Over(f))
              \/ runs'[f].stage = "prelude" /\ runs'[f].seen = Null /\ Idle(f)
              \/ Remains(f)
    <3>1. CASE UNCHANGED allVars
      BY <3>1 DEF allVars, Remains
    <3> QED BY <1>4, <3>1, ServerLeavesRuns
  <2>3. \/ server' = "down" /\ process' = process
        \/ server' # "down" /\ server = "down" /\ process' = process + 1
        \/ server' # "down" /\ server # "down" /\ process' = process
    BY <1>4 DEF CompleteLaunch, FireTimer, Close, Closed, Crash, Restart, Settle, allVars, Over
  <2>4. server' # "down" =>
            \A f \in Executions : runs[f].stage \in {"loop", "reviewing"} => Remains(f)
    BY <2>2 DEF Over, Idle
  <2> QED BY <1>1, <2>1, <2>2, <2>3, <2>4, ServerKeepsBundle DEF Admitted
<1> QED BY <1>2, <1>3, <1>4 DEF RunNext

\* The initial state has it.
LEMMA BundleInitially == RunInit => BundleInv
<1> SUFFICES ASSUME RunInit PROVE BundleInv
  OBVIOUS
<1>1. \A e \in Executions : Idle(e)
  BY FreshRuns DEF RunInit, Idle
<1>2. \A t \in Tasks : ~Admitted(t)
  BY DEF RunInit, Init, Admitted
<1> QED BY <1>1, <1>2 DEF BundleInv, AttemptsAreOwned, ReviewIsHeld, Active

\* What executions remember is sound, writers are asked for only where no approval
\* stands, and the running process's review attempt has its execution.
THEOREM BundleInvariance == RunSpec => []BundleInv
  BY BundleInitially, BundleInductive, RunInvariance, ExecutionsReplaceEachOther, PTL DEF RunSpec

\* Every step keeps an approved bundle.
LEMMA BundleStays ==
    ASSUME RunInv, OneLiveExecution, BundleInv, [RunNext]_allVars,
           NEW t \in Tasks, Admitted(t), ApprovedReview(task[t])
    PROVE  /\ ApprovedReview(task'[t])
           /\ task'[t].candidateSha = task[t].candidateSha
           /\ task'[t].check = task[t].check
           /\ task'[t].implementerActivations = task[t].implementerActivations
           /\ task'[t].reviewCycles = task[t].reviewCycles
<1>1. CASE task'[t] = task[t]
  BY <1>1
<1>2. CASE KeepsBundle(task[t], task'[t])
  BY <1>2 DEF KeepsBundle
<1>3. ASSUME NEW u \in Tasks, Submit(u) \/ Resubmit(u) \/ OperatorRetry(u) \/ Deadline(u)
      PROVE  task'[t] = task[t] \/ KeepsBundle(task[t], task'[t])
  BY <1>3, RequestsArePlain DEF Plain
<1>4. ASSUME NEW e \in Executions, ExecutionStep(e)
      PROVE  task'[t] = task[t] \/ KeepsBundle(task[t], task'[t])
  <2>1. ~Idle(e) /\ IInv /\ [Next]_vars
    BY <1>4, StepsAreNotIdle, SystemTakesSteps DEF ExecutionStep, RunInv
  <2>2. T(e) \in Tasks /\ Admitted(T(e)) /\ task[T(e)].revision \in Nat
    BY <2>1, Working, RowOfAdmitted DEF TaskResult
  <2>3. Writes(e)
    BY <1>4, <2>1, <2>2, StepsWrite DEF BundleInv, Prepared, AttemptsAreOwned
  <2>4. CASE UNCHANGED vars
    BY <2>4 DEF vars
  <2>5. CASE ~UNCHANGED vars
    <3>1. task'[T(e)].revision = task[T(e)].revision + 1
      BY <2>3, <2>5 DEF Writes, Plain, Checks, Starts
    <3>2. CASE t = T(e)
      BY <2>3, <2>5, <3>2 DEF Writes, Plain, Checks, Starts
    <3>3. CASE t # T(e)
      BY <2>1, <2>2, <3>1, <3>3, RowsGrow
    <3> QED BY <3>2, <3>3
  <2> QED BY <2>4, <2>5
<1>5. CASE \/ UNCHANGED allVars
           \/ \E u \in Tasks : CompleteLaunch(u) \/ FireTimer(u)
           \/ Close \/ Closed \/ Crash \/ Restart
           \/ \E e \in Executions : Settle(e)
  BY <1>1, <1>5 DEF CompleteLaunch, FireTimer, Close, Closed, Crash, Restart, Settle, vars,
     allVars
<1> QED BY <1>1, <1>2, <1>3, <1>4, <1>5 DEF RunNext

\* However late an execution acts, and whatever races it lost, it neither starts a
\* writer or a reviewer for an approved bundle nor replaces its candidate or check
\* (the compare-and-set of persistFact, and delivery-run.ts' phases).
THEOREM ApprovedBundlesStay == RunSpec => ApprovedBundleIsFinal
<1>1. /\ RunInv /\ OneLiveExecution /\ BundleInv /\ [RunNext]_allVars
      => [\A t \in Tasks :
            Admitted(t) /\ ApprovedReview(task[t]) =>
                /\ ApprovedReview(task'[t])
                /\ task'[t].candidateSha = task[t].candidateSha
                /\ task'[t].check = task[t].check
                /\ task'[t].implementerActivations = task[t].implementerActivations
                /\ task'[t].reviewCycles = task[t].reviewCycles]_allVars
  BY BundleStays
<1> QED
  BY <1>1, RunInvariance, ExecutionsReplaceEachOther, BundleInvariance, PTL
     DEF RunSpec, ApprovedBundleIsFinal

\* A graceful close gives every review attempt of its process back: an execution that
\* holds one settles it before the close completes (delivery-run.ts, the aborted review).
THEOREM ClosesReleaseReviews == RunSpec => CloseReleasesReviews
<1>1. ASSUME RunInv, BundleInv, Closed, NEW t \in Tasks, Active(t)
      PROVE  task[t].reviewAttempt # process
  <2> SUFFICES ASSUME task[t].reviewAttempt = process PROVE FALSE
    OBVIOUS
  <2>1. PICK e \in Executions : Holds(e, t)
    BY <1>1 DEF Closed, BundleInv, ReviewIsHeld
  <2> QED BY <1>1, <2>1 DEF Closed, Idle, Holds
<1>2. RunInv /\ BundleInv /\ [RunNext]_allVars
      => [Closed => \A t \in Tasks : Active(t) => task[t].reviewAttempt # process]_allVars
  BY <1>1
<1> QED BY <1>2, RunInvariance, BundleInvariance, PTL DEF RunSpec, CloseReleasesReviews

(***************************************************************************)
(* No Task is stranded                                                     *)
(***************************************************************************)

\* A wait that the operator's, or the server's, retry ends.
RetryWait(r) == r.state = "waiting" /\ r.waiting.reason # "review_interruption"

\* An approved candidate that has still to be delivered.
ForDelivery(r) == r.state = "reviewed" /\ r.review.verdict = "approved"

\* The execution remembers a wait that was retried since.
Bygone(e) == RetryWait(Seen(e)) /\ ~Fresh(e)

\* An execution with nothing left to write but an end of its Task, or the delivery
\* that it has under way.
Spent(e) ==
    \/ runs[e].stage \in {"prelude", "admit", "failed", "blocking", "delivering", "ended",
                          "rejected"}
    \/ runs[e].stage \in {"loop", "resuming"} /\ Bygone(e)
    \/ At(e, "loop") /\ (IsTerminalState(Seen(e).state) \/ ForDelivery(Seen(e)))

\* One that was told to stop, and can write nothing else than that end.
Harmless(e) == runs[e].aborted /\ Spent(e) /\ ~At(e, "resuming")

\* One that has not read its Task yet and will go on with what it reads.
Starting(e) == runs[e].stage \in {"prelude", "admit"} /\ ~runs[e].aborted

\* The stages in which an execution acts on what it has seen.
Acting ==
    {"loop", "resuming", "activate", "coding", "checking", "unavailable", "reviewing",
     "delivering", "blocking"}

\* Which steps an execution may take at each of its stages.
LEMMA StageSteps ==
    ASSUME NEW e \in Executions, ExecutionStep(e)
    PROVE  /\ At(e, "prelude") => Lookup(e) \/ PolicyFails(e)
           /\ At(e, "admit") => VerificationFails(e) \/ ReadAdmission(e)
           /\ At(e, "loop") =>
                 \/ ReturnResult(e) \/ ReachDeadline(e) \/ ResumePipeline(e) \/ RecoverReview(e)
                 \/ StartImplementing(e) \/ RepairFailedCheck(e) \/ RepairReviewed(e)
                 \/ StartCheck(e) \/ StartReview(e) \/ TakeOverReview(e) \/ BeginReview(e)
                 \/ EndInconclusive(e) \/ StartDelivery(e)
           /\ At(e, "resuming") => ResumePipelineRetry(e)
           /\ At(e, "activate") => Reserve(e)
           /\ At(e, "coding") =>
                 PreparationFails(e) \/ CodingAborted(e) \/ CodingFails(e) \/ CodingSucceeds(e)
           /\ At(e, "unprepared") => BlockUnprepared(e)
           /\ At(e, "checking") =>
                 \/ CheckAborted(e) \/ CheckThrows(e) \/ CheckCompletes(e)
                 \/ CheckCapabilityMissing(e)
           /\ At(e, "unavailable") => RecordUnavailable(e)
           /\ At(e, "reviewing") =>
                 ReviewAborted(e) \/ ReviewFails(e) \/ ReviewCompletes(e) \/ ReviewInterrupted(e)
           /\ At(e, "delivering") =>
                 \/ DeliveryAborted(e) \/ DeliveryFails(e) \/ DeliveryPending(e)
                 \/ DeliverySucceeds(e)
           /\ At(e, "failed") => CatchError(e)
           /\ At(e, "blocking") => BlockFailed(e)
<1>1. WaitStep(e) \/ WorkStep(e)
  BY DEF ExecutionStep
<1> QED
  BY <1>1 DEF WaitStep, WorkStep, At, InPhase, CheckCapabilityMissing, CheckCompletes,
     DeliveryPending, Lookup, PolicyFails, VerificationFails, ReadAdmission, ReturnResult,
     ReachDeadline, ResumePipeline, ResumePipelineRetry, RecoverReview, StartImplementing,
     RepairFailedCheck, RepairReviewed, Reserve, PreparationFails, BlockUnprepared,
     CodingAborted, CodingFails, CodingSucceeds, StartCheck, CheckAborted, CheckThrows,
     RecordUnavailable, StartReview, TakeOverReview, BeginReview, ReviewAborted, ReviewFails,
     ReviewCompletes, ReviewInterrupted, EndInconclusive, StartDelivery, DeliveryAborted,
     DeliveryFails, DeliverySucceeds, CatchError, BlockFailed

\* The place in its life that each write of a row leads to.
LEMMA WrittenStates ==
    ASSUME IInv, NEW t \in Tasks, HoldsLease(t)
    PROVE  LET r == task[t]
               n == task'[t] IN
           /\ \A blocker, id : Save(t, ApplyBlocked(r, blocker), id) => IsTerminalState(n.state)
           /\ \A d, id : Save(t, ApplyDelivery(r, d), id) => IsTerminalState(n.state)
           /\ \A sha, fence, id : Save(t, ApplyCandidate(r, sha, fence), id) => n.state = "candidate"
           /\ \A check, id : Save(t, ApplyCheck(r, check), id) => n.state = "checked"
           /\ \A review, id : Save(t, ApplyReview(r, review), id) => n.state = "reviewed"
           /\ \A owner, id : Save(t, ApplyReviewStarted(r, owner), id) => n.state = "reviewing"
           /\ \A id : Save(t, ApplyReviewReleased(r), id) => n.state = "checked"
           /\ \A c, id : Save(t, ApplyReviewInterrupted(r, c), id) =>
                 n.state = "waiting" /\ n.waiting.reason = "review_interruption"
           /\ \A id : Save(t, ApplyRepairBatch(r), id) => n.state = r.state
           /\ \A reason, s, a, id : Save(t, ApplyWaiting(r, reason, s, a), id) =>
                 n.state = "waiting" /\ n.waiting.reason = reason
           /\ \A id : Save(t, ApplyRetry(r), id) => n.state = r.waiting.resumeState
           /\ \A id : Save(t, ApplyActivation(r), id) =>
                 n.state = r.state /\ n.waiting = r.waiting
<1> DEFINE r == task[t]
           n == task'[t]
<1>1. r \in TaskResult /\ task \in [Tasks -> TaskResult \cup {Null}]
  BY ReviewedRows DEF IInv, Types
<1>2. ASSUME NEW blocker, NEW id, Save(t, ApplyBlocked(r, blocker), id)
      PROVE  IsTerminalState(n.state)
  <2>1. n = [ApplyBlocked(r, blocker) EXCEPT !.revision = r.revision + 1]
    BY <1>1, <1>2 DEF Save
  <2> QED BY <1>1, <2>1 DEF ApplyBlocked, IsTerminalState, TerminalStates, TaskResult
<1>3. ASSUME NEW d, NEW id, Save(t, ApplyDelivery(r, d), id)
      PROVE  IsTerminalState(n.state)
  <2>1. n = [ApplyDelivery(r, d) EXCEPT !.revision = r.revision + 1]
    BY <1>1, <1>3 DEF Save
  <2> QED BY <1>1, <2>1 DEF ApplyDelivery, DeliveredState, IsTerminalState, TerminalStates, TaskResult
<1>4. ASSUME NEW sha, NEW fence, NEW id, Save(t, ApplyCandidate(r, sha, fence), id)
      PROVE  n.state = "candidate"
  <2>1. n = [ApplyCandidate(r, sha, fence) EXCEPT !.revision = r.revision + 1]
    BY <1>1, <1>4 DEF Save
  <2> QED BY <1>1, <2>1 DEF ApplyCandidate, TaskResult
<1>5. ASSUME NEW check, NEW id, Save(t, ApplyCheck(r, check), id)
      PROVE  n.state = "checked"
  <2>1. n = [ApplyCheck(r, check) EXCEPT !.revision = r.revision + 1]
    BY <1>1, <1>5 DEF Save
  <2> QED BY <1>1, <2>1 DEF ApplyCheck, TaskResult
<1>6. ASSUME NEW review, NEW id, Save(t, ApplyReview(r, review), id)
      PROVE  n.state = "reviewed"
  <2>1. n = [ApplyReview(r, review) EXCEPT !.revision = r.revision + 1]
    BY <1>1, <1>6 DEF Save
  <2> QED BY <1>1, <2>1 DEF ApplyReview, TaskResult
<1>7. ASSUME NEW owner, NEW id, Save(t, ApplyReviewStarted(r, owner), id)
      PROVE  n.state = "reviewing"
  <2>1. n = [ApplyReviewStarted(r, owner) EXCEPT !.revision = r.revision + 1]
    BY <1>1, <1>7 DEF Save
  <2> QED BY <1>1, <2>1 DEF ApplyReviewStarted, TaskResult
<1>8. ASSUME NEW id, Save(t, ApplyReviewReleased(r), id)
      PROVE  n.state = "checked"
  <2>1. n = [ApplyReviewReleased(r) EXCEPT !.revision = r.revision + 1]
    BY <1>1, <1>8 DEF Save
  <2> QED BY <1>1, <2>1 DEF ApplyReviewReleased, TaskResult
<1>9. ASSUME NEW c, NEW id, Save(t, ApplyReviewInterrupted(r, c), id)
      PROVE  n.state = "waiting" /\ n.waiting.reason = "review_interruption"
  <2>1. n = [ApplyReviewInterrupted(r, c) EXCEPT !.revision = r.revision + 1]
    BY <1>1, <1>9 DEF Save
  <2> QED BY <1>1, <2>1 DEF ApplyReviewInterrupted, TaskResult
<1>10. ASSUME NEW id, Save(t, ApplyRepairBatch(r), id)
      PROVE  n.state = r.state
  <2>1. n = [ApplyRepairBatch(r) EXCEPT !.revision = r.revision + 1]
    BY <1>1, <1>10 DEF Save
  <2> QED BY <1>1, <2>1 DEF ApplyRepairBatch, TaskResult
<1>11. ASSUME NEW reason, NEW s, NEW a, NEW id, Save(t, ApplyWaiting(r, reason, s, a), id)
      PROVE  n.state = "waiting" /\ n.waiting.reason = reason
  <2>1. n = [ApplyWaiting(r, reason, s, a) EXCEPT !.revision = r.revision + 1]
    BY <1>1, <1>11 DEF Save
  <2> QED BY <1>1, <2>1 DEF ApplyWaiting, TaskResult
<1>12. ASSUME NEW id, Save(t, ApplyRetry(r), id)
      PROVE  n.state = r.waiting.resumeState
  <2>1. n = [ApplyRetry(r) EXCEPT !.revision = r.revision + 1]
    BY <1>1, <1>12 DEF Save
  <2> QED BY <1>1, <2>1 DEF ApplyRetry, TaskResult
<1>13. ASSUME NEW id, Save(t, ApplyActivation(r), id)
      PROVE  n.state = r.state /\ n.waiting = r.waiting
  <2>1. n = [ApplyActivation(r) EXCEPT !.revision = r.revision + 1]
    BY <1>1, <1>13 DEF Save
  <2> QED BY <1>1, <2>1 DEF ApplyActivation, TaskResult
<1> QED BY <1>2, <1>3, <1>4, <1>5, <1>6, <1>7, <1>8, <1>9, <1>10, <1>11, <1>12, <1>13

\* A retry ends the wait: the Task goes on where it waited, or has reached its deadline.
LEMMA RetriedStates ==
    ASSUME IInv, NEW t \in Tasks, NEW budget, RetryTask(t, budget)
    PROVE  /\ Active(t) /\ RetryWait(task[t])
           /\ \/ IsTerminalState(task'[t].state)
              \/ /\ task'[t].state = task[t].waiting.resumeState
                 /\ task'[t].state \in ResumeStates
                 /\ task'[t].review = task[t].review
           /\ task'[t].state # "waiting"
           /\ task'[t].revision = task[t].revision + 1
           /\ \A u \in Tasks \ {t} : task'[u] = task[u]
<1>1. HoldsLease(t) /\ task[t].state = "waiting" /\ RetryWait(task[t])
  BY DEF RetryTask, CanRetry, RetryWait
<1>2. /\ Active(t) /\ task[t] \in TaskResult /\ SoundWait(task[t])
      /\ task \in [Tasks -> TaskResult \cup {Null}]
  BY <1>1, ReviewedRows DEF IInv, Types
<1>3. task[t].waiting \in TaskWaiting
  BY <1>1, <1>2 DEF SoundWait, TaskResult
<1>4. task[t].waiting.resumeState \in ResumeStates
  BY <1>3 DEF TaskWaiting
<1>6. /\ task'[t].revision = task[t].revision + 1
      /\ \A u \in Tasks \ {t} : task'[u] = task[u]
  <2>1. CASE t \in expired
    <3>1. task' = [task EXCEPT ![t] =
                      [ApplyBlocked(task[t], "elapsed_budget") EXCEPT !.revision = task[t].revision + 1]]
      BY <2>1 DEF RetryTask, Save
    <3> QED BY <1>2, <3>1 DEF ApplyBlocked, TaskResult
  <2>2. CASE t \notin expired
    <3>1. task' = [task EXCEPT ![t] =
                      [ApplyRetry(task[t]) EXCEPT !.revision = task[t].revision + 1]]
      BY <2>2 DEF RetryTask, Save
    <3> QED BY <1>2, <3>1 DEF ApplyRetry, TaskResult
  <2> QED BY <2>1, <2>2
<1>7. CASE \E id : Save(t, ApplyBlocked(task[t], "elapsed_budget"), id)
  <2>1. IsTerminalState(task'[t].state)
    BY <1>1, <1>7, WrittenStates
  <2> QED BY <1>1, <1>2, <1>6, <2>1 DEF IsTerminalState, TerminalStates
<1>8. CASE \E id : Save(t, ApplyRetry(task[t]), id)
  <2>1. task'[t].state = task[t].waiting.resumeState
    BY <1>1, <1>8, WrittenStates
  <2>2. task'[t] = [ApplyRetry(task[t]) EXCEPT !.revision = task[t].revision + 1]
    BY <1>2, <1>8 DEF Save
  <2>3. task'[t].review = task[t].review
    BY <1>2, <2>2 DEF ApplyRetry, TaskResult
  <2> QED BY <1>1, <1>2, <1>4, <1>6, <2>1, <2>3 DEF ResumeStates
<1> QED BY <1>7, <1>8 DEF RetryTask

\* Where a move, an error and a recorded blocker lead.
LEMMA Outcomes ==
    ASSUME RunInv, NEW e \in Executions, ~Idle(e)
    PROVE  /\ \A stage : Goto(e, stage) => runs'[e].stage = stage /\ runs'[e].seen = Seen(e)
           /\ \A cause : Fail(e, cause) => runs'[e].stage = "failed"
           /\ \A rev, cause : BlockTask(e, rev, cause) =>
                 \/ UNCHANGED vars /\ runs'[e].stage = "failed"
                 \/ IsTerminalState(task'[T(e)].state) /\ runs'[e].stage = "ended"
<1>1. runs \in [Executions -> Run] /\ runs[e] \in Run /\ T(e) \in Tasks /\ IInv
  BY Working DEF RunInv
<1>2. ASSUME NEW stage, Goto(e, stage)
      PROVE  runs'[e].stage = stage /\ runs'[e].seen = Seen(e)
  BY <1>1, <1>2 DEF Goto, Run, Seen
<1>3. ASSUME NEW cause, Fail(e, cause) PROVE runs'[e].stage = "failed"
  BY <1>1, <1>3 DEF Fail, Run
<1>4. ASSUME NEW rev, NEW cause, BlockTask(e, rev, cause)
      PROVE  \/ UNCHANGED vars /\ runs'[e].stage = "failed"
             \/ IsTerminalState(task'[T(e)].state) /\ runs'[e].stage = "ended"
  <2>1. CASE Fail(e, "conflict") /\ UNCHANGED vars
    BY <1>3, <2>1
  <2>2. CASE Block(T(e), rev, cause) /\ Returned(e, "ended")
    <3>1. IsTerminalState(task'[T(e)].state)
      BY <1>1, <2>2, RecordedBlock
    <3>2. runs'[e].stage = "ended"
      BY <1>1, <2>2 DEF Returned, Run
    <3> QED BY <3>1, <3>2
  <2> QED BY <1>4, <2>1, <2>2 DEF BlockTask, Call, Returned
<1> QED BY <1>2, <1>3, <1>4

\* What a spent execution still does: it ends its Task, or its delivery does; and it
\* leaves, unless it was about to read the row and goes on with that.
SpentlyWrites(e) ==
    \/ UNCHANGED vars
    \/ IsTerminalState(task'[T(e)].state)
    \/ /\ At(e, "delivering") /\ ~runs[e].aborted
       /\ task[T(e)].state = "reviewed"

SpentlyMoves(e) ==
    \/ runs'[e].stage \in {"failed", "blocking", "delivering", "ended", "rejected"}
    \/ At(e, "prelude") /\ runs'[e].stage = "admit" /\ UNCHANGED vars
    \/ /\ At(e, "admit") /\ ~runs[e].aborted /\ UNCHANGED vars
       /\ runs'[e].stage = "loop" /\ runs'[e].seen = task[T(e)]

\* In the loop it returns, blocks, delivers or fails.
LEMMA SpentLoop ==
    ASSUME RunInv, NEW e \in Executions, ~Idle(e), ExecutionStep(e), SeenIsSound(e),
           At(e, "loop"), Spent(e)
    PROVE  SpentlyWrites(e) /\ SpentlyMoves(e)
<1>1. /\ runs \in [Executions -> Run] /\ runs[e] \in Run /\ T(e) \in Tasks /\ IInv
      /\ Seen(e) \in TaskResult /\ Seen(e) # Null
  BY Working, NullAssumption DEF RunInv, At
<1>2. \/ Bygone(e) \/ IsTerminalState(Seen(e).state) \/ ForDelivery(Seen(e))
  BY DEF Spent, At
<1>3. CASE ReturnResult(e) \/ StartDelivery(e)
  <2>1. UNCHANGED vars /\ (Goto(e, "ended") \/ Goto(e, "delivering"))
    BY <1>3 DEF ReturnResult, StartDelivery
  <2>2. runs'[e].stage = "ended" \/ runs'[e].stage = "delivering"
    BY <2>1, Outcomes
  <2> QED BY <2>1, <2>2 DEF SpentlyWrites, SpentlyMoves
<1>4. CASE ReachDeadline(e)
  <2>1. \/ UNCHANGED vars /\ runs'[e].stage = "failed"
        \/ IsTerminalState(task'[T(e)].state) /\ runs'[e].stage = "ended"
    BY <1>4, Outcomes DEF ReachDeadline
  <2> QED BY <2>1 DEF SpentlyWrites, SpentlyMoves
<1>5. CASE ResumePipeline(e)
  <2>1. Bygone(e)
    BY <1>2, <1>5 DEF ResumePipeline, InPhase, PipelineWait, IsTerminalState, TerminalStates,
       ForDelivery
  <2>2. UNCHANGED vars /\ Fail(e, "conflict")
    BY <1>1, <1>5, <2>1 DEF ResumePipeline, Bygone, Fresh
  <2>3. runs'[e].stage = "failed"
    BY <2>2, Outcomes
  <2> QED BY <2>2, <2>3 DEF SpentlyWrites, SpentlyMoves
<1>6. ~RecoverReview(e)
  BY <1>2 DEF RecoverReview, InPhase, ReviewWait, Bygone, RetryWait, IsTerminalState,
     TerminalStates, ForDelivery
<1>7. ~(RepairReviewed(e) \/ EndInconclusive(e))
  BY <1>2 DEF RepairReviewed, EndInconclusive, InPhase, Bygone, RetryWait, IsTerminalState,
     TerminalStates, ForDelivery
<1>8. ~(\/ StartImplementing(e) \/ RepairFailedCheck(e) \/ StartCheck(e) \/ StartReview(e)
        \/ TakeOverReview(e) \/ BeginReview(e))
  BY <1>2 DEF StartImplementing, RepairFailedCheck, StartCheck, StartReview, TakeOverReview,
     BeginReview, InPhase, Bygone, RetryWait, IsTerminalState, TerminalStates, ForDelivery
<1> QED BY <1>3, <1>4, <1>5, <1>6, <1>7, <1>8, StageSteps

\* A delivery ends the Task or waits.
LEMMA DeliveryEnds ==
    ASSUME RunInv, NEW e \in Executions, ~Idle(e), ExecutionStep(e), At(e, "delivering")
    PROVE  SpentlyWrites(e) /\ SpentlyMoves(e)
<1>1. /\ runs \in [Executions -> Run] /\ runs[e] \in Run /\ T(e) \in Tasks /\ IInv
  BY Working DEF RunInv
<1>2. CASE DeliveryAborted(e)
  <2>1. UNCHANGED vars /\ Fail(e, "failure")
    BY <1>2 DEF DeliveryAborted
  <2>2. runs'[e].stage = "failed"
    BY <2>1, Outcomes
  <2> QED BY <2>1, <2>2 DEF SpentlyWrites, SpentlyMoves
<1>3. CASE DeliveryFails(e)
  <2>1. \/ UNCHANGED vars /\ runs'[e].stage = "failed"
        \/ IsTerminalState(task'[T(e)].state) /\ runs'[e].stage = "ended"
    BY <1>3, Outcomes DEF DeliveryFails
  <2> QED BY <2>1 DEF SpentlyWrites, SpentlyMoves
<1>4. CASE DeliveryPending(e)
  <2>1. PICK reason \in DeliveryReasons : WaitFor(e, reason, "reviewed")
    BY <1>4 DEF DeliveryPending
  <2>2. CASE UNCHANGED vars /\ Fail(e, "conflict")
    <3>1. runs'[e].stage = "failed"
      BY <2>2, Outcomes
    <3> QED BY <2>2, <3>1 DEF SpentlyWrites, SpentlyMoves
  <2>3. CASE ~(UNCHANGED vars /\ Fail(e, "conflict"))
    <3> DEFINE n == Seen(e).candidateFence
    <3>1. RecordWaiting(T(e), Rev(e), reason, "reviewed", n) /\ Returned(e, "ended")
      BY <2>1, <2>3 DEF WaitFor, Call, Returned
    <3>3. task[T(e)].state = "reviewed"
      BY <3>1 DEF RecordWaiting, CanRecordWaiting, AcceptsWaiting, ValidActivation, DeliveryWait,
         DeliveryReasons
    <3>4. runs'[e].stage = "ended"
      BY <1>1, <3>1 DEF Returned, Run
    <3> QED BY <1>4, <3>3, <3>4 DEF DeliveryPending, SpentlyWrites, SpentlyMoves
  <2> QED BY <2>2, <2>3
<1>5. CASE DeliverySucceeds(e)
  <2>1. CASE UNCHANGED vars /\ Fail(e, "conflict")
    <3>1. runs'[e].stage = "failed"
      BY <2>1, Outcomes
    <3> QED BY <2>1, <3>1 DEF SpentlyWrites, SpentlyMoves
  <2>2. CASE ~(UNCHANGED vars /\ Fail(e, "conflict"))
    <3>1. PICK d : RecordDelivery(T(e), Rev(e), d) /\ Returned(e, "ended")
      BY <1>5, <2>2 DEF DeliverySucceeds, Call, Returned
    <3>2. HoldsLease(T(e)) /\ Save(T(e), ApplyDelivery(task[T(e)], d), <<"delivery", d.sha>>)
      BY <3>1 DEF RecordDelivery, CanRecordDelivery, CanPersist
    <3>3. IsTerminalState(task'[T(e)].state)
      BY <1>1, <3>2, WrittenStates
    <3>4. runs'[e].stage = "ended"
      BY <1>1, <3>1 DEF Returned, Run
    <3> QED BY <3>3, <3>4 DEF SpentlyWrites, SpentlyMoves
  <2> QED BY <2>1, <2>2
<1> QED BY <1>2, <1>3, <1>4, <1>5, StageSteps

\* The steps of a spent execution; a wait it resumes is over.
LEMMA SpentSteps ==
    ASSUME RunInv, NEW e \in Executions, ExecutionStep(e), SeenIsSound(e), Spent(e),
           At(e, "resuming") => task[T(e)].state # "waiting"
    PROVE  SpentlyWrites(e) /\ SpentlyMoves(e)
<1>0. ~Idle(e) /\ ~Over(e)
  BY StepsAreNotIdle, StepsAreNotOver DEF ExecutionStep
<1>1. /\ runs \in [Executions -> Run] /\ runs[e] \in Run /\ T(e) \in Tasks /\ IInv
  BY <1>0, Working DEF RunInv
<1>2. CASE At(e, "prelude")
  <2>1. Lookup(e) \/ PolicyFails(e)
    BY <1>2, StageSteps
  <2>2. UNCHANGED vars /\ runs'[e].stage \in {"admit", "blocking", "ended"}
    BY <1>1, <2>1 DEF Lookup, PolicyFails, Run
  <2> QED BY <1>2, <2>2 DEF SpentlyWrites, SpentlyMoves
<1>3. CASE At(e, "admit")
  <2>1. VerificationFails(e) \/ ReadAdmission(e)
    BY <1>3, StageSteps
  <2>2. UNCHANGED vars
    BY <2>1 DEF VerificationFails, ReadAdmission
  <2>3. \/ \E cause : Fail(e, cause)
        \/ /\ ~runs[e].aborted
           /\ runs' = [runs EXCEPT ![e].seen = task[T(e)], ![e].stage = "loop"]
    BY <2>1 DEF VerificationFails, ReadAdmission
  <2>4. \/ runs'[e].stage = "failed"
        \/ ~runs[e].aborted /\ runs'[e].stage = "loop" /\ runs'[e].seen = task[T(e)]
    BY <1>0, <1>1, <2>3, Outcomes DEF Run
  <2> QED BY <1>3, <2>2, <2>4 DEF SpentlyWrites, SpentlyMoves
<1>4. CASE At(e, "failed")
  <2>1. CatchError(e)
    BY <1>4, StageSteps
  <2>2. UNCHANGED vars /\ runs'[e].stage \in {"blocking", "rejected"}
    BY <1>1, <2>1 DEF CatchError, Run
  <2> QED BY <2>2 DEF SpentlyWrites, SpentlyMoves
<1>5. CASE At(e, "blocking")
  <2>1. BlockFailed(e)
    BY <1>5, StageSteps
  <2>2. \/ /\ Block(T(e), Rev(e), runs[e].cause)
           /\ runs'[e].stage = "ended"
        \/ UNCHANGED vars /\ runs'[e].stage = "rejected"
    BY <1>1, <2>1 DEF BlockFailed, Run
  <2>3. Block(T(e), Rev(e), runs[e].cause) => IsTerminalState(task'[T(e)].state)
    BY <1>1, RecordedBlock
  <2> QED BY <2>2, <2>3 DEF SpentlyWrites, SpentlyMoves
<1>6. CASE At(e, "resuming")
  <2>1. ResumePipelineRetry(e)
    BY <1>6, StageSteps
  <2>2. UNCHANGED vars /\ Fail(e, "conflict")
    BY <1>6, <2>1 DEF ResumePipelineRetry, Call, CanRetry
  <2>3. runs'[e].stage = "failed"
    BY <1>0, <2>2, Outcomes
  <2> QED BY <2>2, <2>3 DEF SpentlyWrites, SpentlyMoves
<1> QED BY <1>0, <1>2, <1>3, <1>4, <1>5, <1>6, SpentLoop, DeliveryEnds
        DEF Spent, Over, At

(***************************************************************************)
(* The steps of the others                                                 *)
(***************************************************************************)

\* Where the return of a call leads.
Answered == Stages \ {"prelude", "admit", "resuming", "rejected"}

\* The execution now sees the row as it is: a wait begins where a service was asked,
\* and the execution ends with its Task, with a wait for the operator or a pipeline's.
Yields(e) ==
    /\ runs'[e].seen = task'[T(e)] /\ runs'[e].stage \in Answered
    /\ RetryWait(task'[T(e)]) =>
          \/ RetryWait(task[T(e)])
          \/ /\ runs'[e].stage \in {"loop", "ended"}
             /\ \/ runs[e].stage \in {"coding", "checking", "unavailable"}
                \/ At(e, "delivering") /\ ~runs[e].aborted
    /\ runs'[e].stage = "ended" => ~Restartable(task'[T(e)]) \/ PipelineWait(task'[T(e)])

\* How a step of an execution continues: it acts only on a row it has just seen, or
\* sees no worse than before; ...
Follows(e) ==
    /\ runs'[e].stage \in Acting =>
          \/ runs'[e].seen = task'[T(e)]
          \/ UNCHANGED vars /\ runs'[e].seen = Seen(e) /\ runs[e].stage \in Acting
    /\ runs'[e].stage = "resuming" =>
          UNCHANGED vars /\ PipelineWait(Seen(e)) /\ Fresh(e) /\ runs'[e].seen = Seen(e)
    /\ runs'[e].stage = "ended" /\ PipelineWait(runs'[e].seen) => runs'[e].seen = task'[T(e)]
    /\ runs'[e].stage \in {"prelude", "admit"} => At(e, "prelude") /\ UNCHANGED vars

\* ... where it may begin a wait; ...
BeginsWait(e) ==
    RetryWait(task'[T(e)]) /\ task'[T(e)] # task[T(e)] =>
        \/ RetryWait(task[T(e)])
        \/ /\ runs'[e].seen = task'[T(e)] /\ runs'[e].stage \in {"loop", "ended"}
           /\ \/ runs[e].stage \in {"coding", "checking", "unavailable"}
              \/ At(e, "delivering") /\ ~runs[e].aborted

\* ... and how it leaves its Task, if it acts on the row as it is.
Leaves(e) ==
    /\ ~runs[e].aborted /\ Active(T(e)) /\ runs'[e].stage \in {"ended", "rejected"}
    /\ runs[e].stage \in Acting => Fresh(e)
    => \/ ~Active(T(e))' \/ ~Restartable(task'[T(e)])
       \/ runs'[e].stage = "ended" /\ PipelineWait(runs'[e].seen)

Proceeds(e) == Follows(e) /\ BeginsWait(e) /\ Leaves(e)

\* A call that threw.
LEMMA FailProceeds ==
    ASSUME RunInv, NEW e \in Executions, ~Idle(e), NEW cause, Fail(e, cause), UNCHANGED vars
    PROVE  Proceeds(e)
<1>1. runs'[e].stage = "failed" /\ task' = task
  BY Outcomes DEF vars
<1> QED BY <1>1 DEF Proceeds, Follows, BeginsWait, Leaves, Acting

\* A call that returned.
LEMMA YieldProceeds ==
    ASSUME NEW e \in Executions, Yields(e)
    PROVE  Proceeds(e)
  BY DEF Yields, Proceeds, Follows, BeginsWait, Leaves, Answered

\* It returns a row that ended, or is at a stage of its work.
LEMMA ReturnProceeds ==
    ASSUME RunInv, NEW e \in Executions, ~Idle(e),
           NEW stage \in Answered, Returned(e, stage),
           \/ IsTerminalState(task'[T(e)].state)
           \/ stage # "ended" /\ ~RetryWait(task'[T(e)])
    PROVE  Proceeds(e)
<1>1. runs \in [Executions -> Run] /\ runs[e] \in Run
  BY Working
<1>2. runs'[e].stage = stage /\ runs'[e].seen = task'[T(e)]
  BY <1>1 DEF Returned, Run, T
<1>3. IsTerminalState(task'[T(e)].state)
          => ~Restartable(task'[T(e)]) /\ ~RetryWait(task'[T(e)])
  BY DEF Restartable, Launchable, PipelineWait, ReviewWait, RetryWait, IsTerminalState,
     TerminalStates
<1> QED BY <1>2, <1>3, YieldProceeds DEF Yields

\* A recorded blocker.
LEMMA BlocksProceed ==
    ASSUME RunInv, NEW e \in Executions, ~Idle(e), NEW rev, NEW cause,
           BlockTask(e, rev, cause) \/ (Block(T(e), rev, cause) /\ Returned(e, "ended"))
    PROVE  Proceeds(e)
<1>1. T(e) \in Tasks /\ IInv
  BY Working DEF RunInv
<1>2. CASE Fail(e, "conflict") /\ UNCHANGED vars
  BY <1>2, FailProceeds
<1>3. CASE Block(T(e), rev, cause) /\ Returned(e, "ended")
  <2>1. IsTerminalState(task'[T(e)].state)
    BY <1>1, <1>3, RecordedBlock
  <2>2. "ended" \in Answered
    BY DEF Stages, Answered
  <2> QED BY <1>3, <2>1, <2>2, ReturnProceeds
<1> QED BY <1>2, <1>3 DEF BlockTask, Call, Returned

\* A step that writes nothing and keeps what it has seen, on its way to act on it.
LEMMA GotoProceeds ==
    ASSUME RunInv, NEW e \in Executions, ~Idle(e), UNCHANGED vars, runs'[e].seen = Seen(e),
           runs[e].stage \in Acting, runs'[e].stage \in Answered \ {"ended"}
    PROVE  Proceeds(e)
<1>1. task' = task
  BY DEF vars
<1>2. runs'[e].stage \notin {"prelude", "admit", "resuming", "ended", "rejected"}
  BY DEF Answered
<1> QED BY <1>1, <1>2 DEF Proceeds, Follows, BeginsWait, Leaves

\* A step that writes nothing and reads the row.
LEMMA ReadProceeds ==
    ASSUME RunInv, NEW e \in Executions, ~Idle(e), UNCHANGED vars, runs'[e].seen = task[T(e)],
           runs'[e].stage # "resuming",
           runs'[e].stage \in {"prelude", "admit"} => At(e, "prelude"),
           runs'[e].stage \in {"ended", "rejected"} => ~Active(T(e)) \/ ~Restartable(task[T(e)])
    PROVE  Proceeds(e)
<1>1. task' = task
  BY DEF vars
<1> QED BY <1>1 DEF Proceeds, Follows, BeginsWait, Leaves

\* Before the loop, and in the catch.
LEMMA EntriesProceed ==
    ASSUME RunInv, NEW e \in Executions, ~Idle(e),
           \/ Lookup(e) \/ PolicyFails(e) \/ VerificationFails(e) \/ ReadAdmission(e)
           \/ CatchError(e) \/ BlockFailed(e)
    PROVE  Proceeds(e)
<1>1. /\ runs \in [Executions -> Run] /\ runs[e] \in Run /\ T(e) \in Tasks /\ IInv
  BY Working DEF RunInv
<1>2. CASE Lookup(e)
  <2>1. /\ UNCHANGED vars /\ runs'[e].seen = task[T(e)]
        /\ runs'[e].stage = IF Restartable(task[T(e)]) THEN "admit" ELSE "ended"
    BY <1>1, <1>2 DEF Lookup, Run
  <2>2. At(e, "prelude")
    BY <1>2 DEF Lookup
  <2> QED BY <2>1, <2>2, ReadProceeds
<1>3. CASE PolicyFails(e)
  <2>1. /\ UNCHANGED vars /\ runs'[e].seen = task[T(e)]
        /\ runs'[e].stage = IF Active(T(e)) THEN "blocking" ELSE "ended"
    BY <1>1, <1>3 DEF PolicyFails, Run
  <2> QED BY <2>1, ReadProceeds
<1>4. CASE VerificationFails(e)
  BY <1>4, FailProceeds DEF VerificationFails
<1>5. CASE ReadAdmission(e)
  <2>1. CASE Fail(e, "failure") /\ UNCHANGED vars
    BY <2>1, FailProceeds
  <2>2. CASE ~(Fail(e, "failure") /\ UNCHANGED vars)
    <3>1. /\ UNCHANGED vars
          /\ runs' = [runs EXCEPT ![e].seen = task[T(e)], ![e].stage = "loop"]
      BY <1>5, <2>2 DEF ReadAdmission
    <3>2. runs'[e].seen = task[T(e)] /\ runs'[e].stage = "loop"
      BY <1>1, <3>1 DEF Run
    <3> QED BY <3>1, <3>2, ReadProceeds
  <2> QED BY <2>1, <2>2
<1>6. CASE CatchError(e)
  <2>1. CASE runs[e].aborted \/ ~Active(T(e))
    <3>1. UNCHANGED vars /\ runs'[e].stage = "rejected"
      BY <1>1, <1>6, <2>1 DEF CatchError, Run
    <3>2. task' = task
      BY <3>1 DEF vars
    <3> QED BY <2>1, <3>1, <3>2 DEF Proceeds, Follows, BeginsWait, Leaves, Acting
  <2>2. CASE ~(runs[e].aborted \/ ~Active(T(e)))
    <3>1. UNCHANGED vars /\ runs'[e].stage = "blocking" /\ runs'[e].seen = task[T(e)]
      BY <1>1, <1>6, <2>2 DEF CatchError, Run
    <3> QED BY <3>1, ReadProceeds
  <2> QED BY <2>1, <2>2
<1>7. CASE BlockFailed(e)
  <2>1. CASE CanBlock(T(e), Rev(e))
    BY <1>7, <2>1, BlocksProceed DEF BlockFailed, Returned
  <2>2. CASE ~CanBlock(T(e), Rev(e))
    <3>1. UNCHANGED vars /\ runs'[e].stage = "rejected" /\ At(e, "blocking")
      BY <1>1, <1>7, <2>2 DEF BlockFailed, Run
    <3>2. task' = task
      BY <3>1 DEF vars
    <3>3. ~(Active(T(e)) /\ Fresh(e))
      <4> SUFFICES ASSUME Active(T(e)), Fresh(e) PROVE CanBlock(T(e), Rev(e))
        BY <2>2
      <4>1. HoldsLease(T(e)) /\ Admitted(T(e))
        BY <1>1 DEF IInv, LeaseMatchesActive, Active
      <4>2. task[T(e)].state \in States
        BY <1>1, RowOfAdmitted, <4>1 DEF TaskResult
      <4>3. CanTransition(task[T(e)].state, "blocked")
        BY <4>2 DEF Active, CanTransition, States, ResumeStates, IsTerminalState, TerminalStates
      <4> QED BY <4>1, <4>3 DEF CanBlock, CanPersist, Fresh
    <3>4. At(e, "blocking") => runs[e].stage \in Acting
      BY DEF At, Acting
    <3> QED BY <3>1, <3>2, <3>3, <3>4 DEF Proceeds, Follows, BeginsWait, Leaves, Acting
  <2> QED BY <2>1, <2>2
<1> QED BY <1>2, <1>3, <1>4, <1>5, <1>6, <1>7

\* A review is reserved, or one is found running.
LEMMA ReservationProceeds ==
    ASSUME RunInv, NEW e \in Executions, ~Idle(e), SeenIsSound(e), At(e, "loop"),
           Seen(e).state \in {"checked", "waiting"}, ReserveReview(e)
    PROVE  Proceeds(e)
<1>1. /\ runs \in [Executions -> Run] /\ runs[e] \in Run /\ T(e) \in Tasks /\ IInv
  BY Working DEF RunInv
<1>2. CASE task[T(e)].state = "reviewing"
  <2>1. UNCHANGED vars /\ runs'[e].stage = "ended" /\ runs'[e].seen = task[T(e)]
    BY <1>1, <1>2 DEF ReserveReview, Run
  <2>2. task' = task
    BY <2>1 DEF vars
  <2>3. ~Fresh(e)
    BY <1>2 DEF SeenIsSound, Fresh
  <2>4. runs[e].stage \in Acting
    BY DEF At, Acting
  <2> QED BY <2>1, <2>2, <2>3, <2>4 DEF Proceeds, Follows, BeginsWait, Leaves, Acting
<1>3. CASE Fail(e, "conflict") /\ UNCHANGED vars
  BY <1>3, FailProceeds
<1>4. CASE /\ ReserveReviewAttempt(T(e), process)
           /\ runs' = [runs EXCEPT ![e].seen = task'[runs[e].task], ![e].claimed = TRUE]
  <2>1. runs'[e].seen = task'[T(e)] /\ runs'[e].stage = "loop"
    BY <1>1, <1>4 DEF Run, T, At
  <2>2. HoldsLease(T(e))
        /\ Save(T(e), ApplyReviewStarted(task[T(e)], process),
                <<"review-started", task[T(e)].revision>>)
    BY <1>4 DEF ReserveReviewAttempt, CanReserveReviewAttempt
  <2>3. task'[T(e)].state = "reviewing"
    BY <1>1, <2>2, WrittenStates
  <2> QED BY <2>1, <2>3, YieldProceeds DEF Yields, Answered, Stages, RetryWait
<1> QED BY <1>2, <1>3, <1>4 DEF ReserveReview

\* In the loop: what it decides by what it has seen.
LEMMA LoopMovesProceed ==
    ASSUME RunInv, NEW e \in Executions, ~Idle(e), SeenIsSound(e),
           \/ ReturnResult(e) \/ ReachDeadline(e) \/ ResumePipeline(e) \/ RecoverReview(e)
           \/ StartImplementing(e) \/ RepairFailedCheck(e) \/ StartCheck(e) \/ StartReview(e)
           \/ BeginReview(e) \/ EndInconclusive(e) \/ StartDelivery(e)
    PROVE  Proceeds(e)
<1>0. At(e, "loop")
  BY DEF ReturnResult, ReachDeadline, ResumePipeline, RecoverReview, StartImplementing,
     RepairFailedCheck, StartCheck, StartReview, BeginReview, EndInconclusive, StartDelivery,
     InPhase
<1>1. /\ runs \in [Executions -> Run] /\ runs[e] \in Run /\ T(e) \in Tasks /\ IInv
      /\ runs[e].stage \in Acting
  BY <1>0, Working DEF RunInv, At, Acting
<1>2. CASE ReturnResult(e)
  <2>1. UNCHANGED vars /\ runs'[e].stage = "ended" /\ runs'[e].seen = Seen(e)
    BY <1>2, Outcomes DEF ReturnResult
  <2>2. task' = task
    BY <2>1 DEF vars
  <2>3. ~Restartable(Seen(e))
    BY <1>2 DEF ReturnResult, Restartable, Launchable, PipelineWait, ReviewWait,
       IsTerminalState, TerminalStates
  <2>4. ~PipelineWait(Seen(e))
    BY <2>3 DEF Restartable, Launchable, PipelineWait, IsTerminalState, TerminalStates
  <2>5. Fresh(e) => ~Restartable(task[T(e)])
    BY <2>3 DEF SeenIsSound, Fresh
  <2> QED BY <1>1, <2>1, <2>2, <2>4, <2>5 DEF Proceeds, Follows, BeginsWait, Leaves, Acting
<1>3. CASE ReachDeadline(e) \/ EndInconclusive(e)
  BY <1>3, BlocksProceed DEF ReachDeadline, EndInconclusive
<1>4. CASE ResumePipeline(e)
  <2>1. CASE task[T(e)].revision = Rev(e)
    <3>1. /\ UNCHANGED vars /\ runs'[e].stage = "resuming" /\ runs'[e].seen = Seen(e)
          /\ PipelineWait(Seen(e))
      BY <1>4, <2>1, Outcomes DEF ResumePipeline
    <3>2. Fresh(e)
      BY <1>0, <2>1, Working, NullAssumption DEF Fresh, At
    <3>3. task' = task
      BY <3>1 DEF vars
    <3> QED BY <1>1, <3>1, <3>2, <3>3 DEF Proceeds, Follows, BeginsWait, Leaves, Acting
  <2>2. CASE task[T(e)].revision # Rev(e)
    BY <1>4, <2>2, FailProceeds DEF ResumePipeline
  <2> QED BY <2>1, <2>2
<1>5. CASE RecoverReview(e) \/ StartReview(e)
  <2>1. Seen(e).state \in {"checked", "waiting"}
    BY <1>5 DEF RecoverReview, StartReview, InPhase
  <2>2. ReserveReview(e) \/ BlockTask(e, Rev(e), "failure")
    BY <1>5 DEF RecoverReview, StartReview
  <2> QED BY <1>0, <2>1, <2>2, BlocksProceed, ReservationProceeds
<1>6. CASE StartImplementing(e) \/ RepairFailedCheck(e)
  <2>1. Activate(e) /\ UNCHANGED vars
    BY <1>6 DEF StartImplementing, RepairFailedCheck
  <2>2. runs'[e].stage = "activate" /\ runs'[e].seen = Seen(e)
    BY <1>1, <2>1 DEF Activate, Run, Seen
  <2> QED BY <1>1, <2>1, <2>2, GotoProceeds DEF Answered, Stages
<1>7. CASE StartCheck(e) \/ StartDelivery(e)
  <2>1. UNCHANGED vars /\ (Goto(e, "checking") \/ Goto(e, "delivering") \/ Fail(e, "failure"))
    BY <1>7 DEF StartCheck, StartDelivery
  <2>2. CASE Goto(e, "checking") \/ Goto(e, "delivering")
    <3>1. runs'[e].stage \in {"checking", "delivering"} /\ runs'[e].seen = Seen(e)
      BY <2>2, Outcomes
    <3> QED BY <1>1, <2>1, <3>1, GotoProceeds DEF Answered, Stages
  <2>3. CASE Fail(e, "failure")
    BY <2>1, <2>3, FailProceeds
  <2> QED BY <2>1, <2>2, <2>3
<1>8. CASE BeginReview(e)
  <2>1. UNCHANGED vars /\ runs'[e].stage = "reviewing" /\ runs'[e].seen = Seen(e)
    BY <1>1, <1>8 DEF BeginReview, Run, Seen
  <2> QED BY <1>1, <2>1, GotoProceeds DEF Answered, Stages
<1> QED BY <1>2, <1>3, <1>4, <1>5, <1>6, <1>7, <1>8

\* A write that leads to a stage of the work, and its return.
LEMMA WorkProceeds ==
    ASSUME RunInv, NEW e \in Executions, ~Idle(e), NEW stage \in Answered,
           Returned(e, stage), task'[T(e)].state # "waiting" \/ ReviewWait(task'[T(e)]),
           stage # "ended"
    PROVE  Proceeds(e)
  BY ReturnProceeds DEF RetryWait, ReviewWait

\* A wait for the operator or for a pipeline.
LEMMA WaitProceeds ==
    ASSUME RunInv, NEW e \in Executions, ~Idle(e), NEW reason \in RetryReasons, NEW s, NEW n,
           NEW stage \in {"loop", "ended"},
           \/ runs[e].stage \in {"coding", "checking", "unavailable"}
           \/ At(e, "delivering") /\ ~runs[e].aborted,
           Call(e, CanRecordWaiting(T(e), Rev(e), reason, s, n),
                RecordWaiting(T(e), Rev(e), reason, s, n), stage)
    PROVE  Proceeds(e)
<1>1. /\ runs \in [Executions -> Run] /\ runs[e] \in Run /\ T(e) \in Tasks /\ IInv
  BY Working DEF RunInv
<1>2. CASE Fail(e, "conflict") /\ UNCHANGED vars
  BY <1>2, FailProceeds
<1>3. CASE RecordWaiting(T(e), Rev(e), reason, s, n) /\ Returned(e, stage)
  <2>1. runs'[e].stage = stage /\ runs'[e].seen = task'[T(e)]
    BY <1>1, <1>3 DEF Returned, Run, T
  <2>2. HoldsLease(T(e))
        /\ Save(T(e), ApplyWaiting(task[T(e)], reason, s, n), <<"waiting", reason, n>>)
    BY <1>3 DEF RecordWaiting, CanRecordWaiting, CanPersist
  <2>3. task'[T(e)].state = "waiting" /\ task'[T(e)].waiting.reason = reason
    BY <1>1, <2>2, WrittenStates
  <2>4. ~Restartable(task'[T(e)]) \/ PipelineWait(task'[T(e)])
    BY <2>3 DEF Restartable, Launchable, PipelineWait, ReviewWait, RetryReasons
  <2> QED BY <2>1, <2>4, YieldProceeds DEF Yields, Answered, Stages
<1> QED BY <1>2, <1>3 DEF Call, Returned

\* Where a writer is asked for and reserved.
LEMMA ActivationsProceed ==
    ASSUME RunInv, NEW e \in Executions, ~Idle(e),
           RepairReviewed(e) \/ Reserve(e) \/ PreparationFails(e) \/ BlockUnprepared(e)
    PROVE  Proceeds(e)
<1>1. /\ runs \in [Executions -> Run] /\ runs[e] \in Run /\ T(e) \in Tasks /\ IInv
  BY Working DEF RunInv
<1>2. CASE RepairReviewed(e)
  <2>1. CASE BlockTask(e, Rev(e), "failure")
    BY <2>1, BlocksProceed
  <2>2. CASE Fail(e, "conflict") /\ UNCHANGED vars
    BY <2>2, FailProceeds
  <2>3. CASE ~BlockTask(e, Rev(e), "failure") /\ ~(Fail(e, "conflict") /\ UNCHANGED vars)
    <3>1. /\ RecordRepairBatch(T(e), Rev(e))
          /\ runs' = [runs EXCEPT ![e].stage = "activate", ![e].seen = task'[runs[e].task],
                                  ![e].prior = task'[runs[e].task].revision]
      BY <1>2, <2>3 DEF RepairReviewed
    <3>2. runs'[e].stage = "activate" /\ runs'[e].seen = task'[T(e)]
      BY <1>1, <3>1 DEF Run, T
    <3>3. task[T(e)].state = "reviewed" /\ HoldsLease(T(e))
      BY <3>1 DEF RecordRepairBatch, CanRecordRepairBatch, CanPersist, AcceptsRepairBatch
    <3>4. task'[T(e)].state = "reviewed"
      <4>1. CASE UNCHANGED vars
        BY <3>3, <4>1 DEF vars
      <4>2. CASE Save(T(e), ApplyRepairBatch(task[T(e)]), <<"repair", Rev(e)>>)
        BY <1>1, <3>3, <4>2, WrittenStates
      <4> QED BY <3>1, <4>1, <4>2 DEF RecordRepairBatch
    <3> QED BY <3>2, <3>4, YieldProceeds DEF Yields, Answered, Stages, RetryWait
  <2> QED BY <2>1, <2>2, <2>3
<1>3. CASE Reserve(e)
  <2>1. CASE UNCHANGED vars /\ Fail(e, "failure")
    BY <2>1, FailProceeds
  <2>2. CASE UNCHANGED vars /\ Goto(e, "unprepared")
    <3>1. runs'[e].stage = "unprepared" /\ task' = task
      BY <2>2, Outcomes DEF vars
    <3> QED BY <2>2, <3>1 DEF Proceeds, Follows, BeginsWait, Leaves, Acting
  <2>3. CASE ReserveActivation(T(e)) /\ Returned(e, "coding")
    <3>1. runs'[e].stage = "coding" /\ runs'[e].seen = task'[T(e)]
      BY <1>1, <2>3 DEF Returned, Run, T
    <3>2. HoldsLease(T(e)) /\ \E id : Save(T(e), ApplyActivation(task[T(e)]), id)
      BY <2>3 DEF ReserveActivation, CanReserveActivation
    <3>3. task'[T(e)].state = task[T(e)].state /\ task'[T(e)].waiting = task[T(e)].waiting
      BY <1>1, <3>2, WrittenStates
    <3> QED BY <3>1, <3>3, YieldProceeds DEF Yields, Answered, Stages, RetryWait
  <2> QED BY <1>3, <2>1, <2>2, <2>3 DEF Reserve, Returned
<1>4. CASE PreparationFails(e)
  <2>1. UNCHANGED vars /\ (Fail(e, "failure") \/ Goto(e, "unprepared"))
    BY <1>4 DEF PreparationFails
  <2>2. CASE Fail(e, "failure")
    BY <2>1, <2>2, FailProceeds
  <2>3. CASE Goto(e, "unprepared")
    <3>1. runs'[e].stage = "unprepared" /\ task' = task
      BY <2>1, <2>3, Outcomes DEF vars
    <3> QED BY <2>1, <3>1 DEF Proceeds, Follows, BeginsWait, Leaves, Acting
  <2> QED BY <2>1, <2>2, <2>3
<1>5. CASE BlockUnprepared(e)
  BY <1>5, BlocksProceed DEF BlockUnprepared
<1> QED BY <1>2, <1>3, <1>4, <1>5

\* The end of a coding session.
LEMMA CodingProceeds ==
    ASSUME RunInv, NEW e \in Executions, ~Idle(e),
           CodingAborted(e) \/ CodingFails(e) \/ CodingSucceeds(e)
    PROVE  Proceeds(e)
<1>1. /\ runs \in [Executions -> Run] /\ runs[e] \in Run /\ T(e) \in Tasks /\ IInv
      /\ {"loop", "unavailable"} \subseteq Answered
  BY Working DEF RunInv, Stages, Answered
<1>2. CASE CodingAborted(e)
  BY <1>2, FailProceeds DEF CodingAborted
<1>3. CASE CodingFails(e)
  <2>1. CASE BlockTask(e, Rev(e), "failure")
    BY <2>1, BlocksProceed
  <2>2. CASE ~BlockTask(e, Rev(e), "failure")
    <3>1. /\ runs[e].stage = "coding" /\ "network_interruption" \in RetryReasons
          /\ "loop" \in {"loop", "ended"}
      BY <1>3 DEF CodingFails, At, RetryReasons
    <3> DEFINE n == Seen(e).implementerActivations
               s == Seen(e).state
    <3>2. Call(e, CanRecordWaiting(T(e), Rev(e), "network_interruption", s, n),
               RecordWaiting(T(e), Rev(e), "network_interruption", s, n), "loop")
      BY <1>3, <2>2 DEF CodingFails
    <3> HIDE DEF n, s
    <3> QED BY <3>1, <3>2, WaitProceeds
  <2> QED BY <2>1, <2>2
<1>4. CASE CodingSucceeds(e)
  <2>1. CASE Fail(e, "conflict") /\ UNCHANGED vars
    BY <2>1, FailProceeds
  <2>2. CASE ~(Fail(e, "conflict") /\ UNCHANGED vars)
    <3>1. PICK sha, base, fence :
             RecordCandidate(T(e), Rev(e), sha, base, fence) /\ Returned(e, "loop")
      BY <1>4, <2>2 DEF CodingSucceeds, Call, Returned
    <3>2. HoldsLease(T(e))
          /\ Save(T(e), ApplyCandidate(task[T(e)], sha, fence), <<"candidate", sha>>)
      BY <3>1 DEF RecordCandidate, CanRecordCandidate, CanPersist
    <3>3. task'[T(e)].state = "candidate"
      BY <1>1, <3>2, WrittenStates
    <3> QED BY <1>1, <3>1, <3>3, WorkProceeds
  <2> QED BY <2>1, <2>2
<1> QED BY <1>2, <1>3, <1>4

\* The end of a check, and the wait that an unavailable one is left with.
LEMMA ChecksProceed ==
    ASSUME RunInv, NEW e \in Executions, ~Idle(e),
           \/ CheckAborted(e) \/ CheckThrows(e) \/ CheckCompletes(e) \/ CheckCapabilityMissing(e)
           \/ RecordUnavailable(e)
    PROVE  Proceeds(e)
<1>1. /\ runs \in [Executions -> Run] /\ runs[e] \in Run /\ T(e) \in Tasks /\ IInv
      /\ {"loop", "unavailable"} \subseteq Answered
  BY Working DEF RunInv, Stages, Answered
<1>2. CASE CheckAborted(e)
  BY <1>2, FailProceeds DEF CheckAborted
<1>3. CASE CheckThrows(e)
  BY <1>3, BlocksProceed DEF CheckThrows
<1>4. CASE CheckCompletes(e)
  <2>1. CASE Fail(e, "conflict") /\ UNCHANGED vars
    BY <2>1, FailProceeds
  <2>2. CASE ~(Fail(e, "conflict") /\ UNCHANGED vars)
    <3>1. PICK check \in CheckResult, stage \in {"loop", "unavailable"} :
             RecordCheck(T(e), Rev(e), check) /\ Returned(e, stage)
      BY <1>4, <2>2 DEF CheckCompletes, Call, Returned
    <3>2. HoldsLease(T(e)) /\ Save(T(e), ApplyCheck(task[T(e)], check), <<"check", Rev(e)>>)
      BY <3>1 DEF RecordCheck, CanRecordCheck, CanPersist
    <3>3. task'[T(e)].state = "checked"
      BY <1>1, <3>2, WrittenStates
    <3> QED BY <1>1, <3>1, <3>3, WorkProceeds
  <2> QED BY <2>1, <2>2
<1>5. CASE CheckCapabilityMissing(e) \/ RecordUnavailable(e)
  <2> DEFINE n == Seen(e).candidateFence
  <2>1. /\ runs[e].stage \in {"checking", "unavailable"}
        /\ Call(e, CanRecordWaiting(T(e), Rev(e), "project_check_capability", "candidate", n),
                RecordWaiting(T(e), Rev(e), "project_check_capability", "candidate", n), "ended")
    BY <1>5 DEF CheckCapabilityMissing, RecordUnavailable, WaitFor, At
  <2>2. "project_check_capability" \in RetryReasons /\ "ended" \in {"loop", "ended"}
    BY DEF RetryReasons
  <2> HIDE DEF n
  <2> QED BY <2>1, <2>2, WaitProceeds
<1> QED BY <1>2, <1>3, <1>4, <1>5

\* A review's take-over and its end.
LEMMA ReviewsProceed ==
    ASSUME RunInv, NEW e \in Executions, ~Idle(e),
           \/ TakeOverReview(e) \/ ReviewAborted(e) \/ ReviewFails(e) \/ ReviewCompletes(e)
           \/ ReviewInterrupted(e)
    PROVE  Proceeds(e)
<1>1. /\ runs \in [Executions -> Run] /\ runs[e] \in Run /\ T(e) \in Tasks /\ IInv
      /\ {"loop", "reviewing"} \subseteq Answered
  BY Working DEF RunInv, Stages, Answered
<1>2. CASE TakeOverReview(e)
  <2>1. CASE Fail(e, "conflict") /\ UNCHANGED vars
    BY <2>1, FailProceeds
  <2>2. CASE \E rev : BlockTask(e, rev, "failure")
    BY <2>2, BlocksProceed
  <2>3. CASE TakeOverReviewAttempt(T(e), process) /\ Returned(e, "reviewing")
    <3>1. HoldsLease(T(e)) /\ \E id : Save(T(e), ApplyReviewStarted(task[T(e)], process), id)
      BY <2>3 DEF TakeOverReviewAttempt, CanTakeOverReviewAttempt
    <3>2. task'[T(e)].state = "reviewing"
      BY <1>1, <3>1, WrittenStates
    <3> QED BY <1>1, <2>3, <3>2, WorkProceeds
  <2> QED BY <1>2, <2>1, <2>2, <2>3 DEF TakeOverReview, Returned
<1>3. CASE ReviewAborted(e)
  <2>1. runs'[e].stage = "rejected" /\ runs[e].aborted
    BY <1>1, <1>3 DEF ReviewAborted, Run
  <2>2. RetryWait(task'[T(e)]) => RetryWait(task[T(e)])
    <3>1. CASE UNCHANGED vars
      BY <3>1 DEF vars
    <3>2. CASE ReleaseReviewAttempt(T(e), Rev(e), process)
      <4>1. HoldsLease(T(e)) /\ \E id : Save(T(e), ApplyReviewReleased(task[T(e)]), id)
        BY <3>2 DEF ReleaseReviewAttempt, CanReleaseReviewAttempt, CanPersist
      <4>2. task'[T(e)].state = "checked"
        BY <1>1, <4>1, WrittenStates
      <4> QED BY <4>2 DEF RetryWait
    <3> QED BY <1>3, <3>1, <3>2 DEF ReviewAborted
  <2> QED BY <2>1, <2>2 DEF Proceeds, Follows, BeginsWait, Leaves, Acting
<1>4. CASE ReviewFails(e)
  BY <1>4, BlocksProceed DEF ReviewFails
<1>5. CASE ReviewCompletes(e)
  <2>1. CASE Fail(e, "conflict") /\ UNCHANGED vars
    BY <2>1, FailProceeds
  <2>2. CASE ~(Fail(e, "conflict") /\ UNCHANGED vars)
    <3>1. PICK review : RecordReview(T(e), Rev(e), review, process) /\ Returned(e, "loop")
      BY <1>5, <2>2 DEF ReviewCompletes, Call, Returned
    <3>2. HoldsLease(T(e)) /\ Save(T(e), ApplyReview(task[T(e)], review), <<"review", Rev(e)>>)
      BY <3>1 DEF RecordReview, CanRecordReview, CanPersist
    <3>3. task'[T(e)].state = "reviewed"
      BY <1>1, <3>2, WrittenStates
    <3> QED BY <1>1, <3>1, <3>3, WorkProceeds
  <2> QED BY <2>1, <2>2
<1>6. CASE ReviewInterrupted(e)
  <2>1. CASE Fail(e, "conflict") /\ UNCHANGED vars
    BY <2>1, FailProceeds
  <2>2. CASE ~(Fail(e, "conflict") /\ UNCHANGED vars)
    <3>1. PICK sha, c : RecordReviewInterruption(T(e), Rev(e), sha, c, process)
                        /\ Returned(e, "loop")
      BY <1>6, <2>2 DEF ReviewInterrupted, Call, Returned
    <3>2. HoldsLease(T(e))
          /\ Save(T(e), ApplyReviewInterrupted(task[T(e)], c), <<"review", Rev(e)>>)
      BY <3>1 DEF RecordReviewInterruption, CanRecordReviewInterruption, CanPersist
    <3>3. ReviewWait(task'[T(e)])
      BY <1>1, <3>2, WrittenStates DEF ReviewWait
    <3> QED BY <1>1, <3>1, <3>3, WorkProceeds
  <2> QED BY <2>1, <2>2
<1> QED BY <1>2, <1>3, <1>4, <1>5, <1>6

\* The end of a delivery.
LEMMA DeliveriesProceed ==
    ASSUME RunInv, NEW e \in Executions, ~Idle(e),
           DeliveryAborted(e) \/ DeliveryFails(e) \/ DeliveryPending(e) \/ DeliverySucceeds(e)
    PROVE  Proceeds(e)
<1>1. /\ runs \in [Executions -> Run] /\ runs[e] \in Run /\ T(e) \in Tasks /\ IInv
      /\ "ended" \in Answered /\ "ended" \in {"loop", "ended"}
  BY Working DEF RunInv, Stages, Answered
<1>2. CASE DeliveryAborted(e)
  BY <1>2, FailProceeds DEF DeliveryAborted
<1>3. CASE DeliveryFails(e)
  BY <1>3, BlocksProceed DEF DeliveryFails
<1>4. CASE DeliveryPending(e)
  <2> DEFINE n == Seen(e).candidateFence
  <2>1. PICK reason \in DeliveryReasons :
           Call(e, CanRecordWaiting(T(e), Rev(e), reason, "reviewed", n),
                RecordWaiting(T(e), Rev(e), reason, "reviewed", n), "ended")
    BY <1>4 DEF DeliveryPending, WaitFor
  <2>2. reason \in RetryReasons /\ At(e, "delivering") /\ ~runs[e].aborted
    BY <1>4 DEF DeliveryPending, RetryReasons, DeliveryReasons
  <2> HIDE DEF n
  <2> QED BY <1>1, <2>1, <2>2, WaitProceeds
<1>5. CASE DeliverySucceeds(e)
  <2>1. CASE Fail(e, "conflict") /\ UNCHANGED vars
    BY <2>1, FailProceeds
  <2>2. CASE ~(Fail(e, "conflict") /\ UNCHANGED vars)
    <3>1. PICK d : RecordDelivery(T(e), Rev(e), d) /\ Returned(e, "ended")
      BY <1>5, <2>2 DEF DeliverySucceeds, Call, Returned
    <3>2. HoldsLease(T(e)) /\ Save(T(e), ApplyDelivery(task[T(e)], d), <<"delivery", d.sha>>)
      BY <3>1 DEF RecordDelivery, CanRecordDelivery, CanPersist
    <3>3. IsTerminalState(task'[T(e)].state)
      BY <1>1, <3>2, WrittenStates
    <3> QED BY <1>1, <3>1, <3>3, ReturnProceeds
  <2> QED BY <2>1, <2>2
<1> QED BY <1>2, <1>3, <1>4, <1>5

\* The server's own retry of a pipeline wait.
LEMMA ResumptionProceeds ==
    ASSUME RunInv, NEW e \in Executions, ~Idle(e), ResumePipelineRetry(e)
    PROVE  /\ Proceeds(e)
           /\ \/ UNCHANGED vars /\ runs'[e].stage = "failed"
              \/ IsTerminalState(task'[T(e)].state)
              \/ task'[T(e)].state # "waiting"
<1>1. /\ runs \in [Executions -> Run] /\ runs[e] \in Run /\ T(e) \in Tasks /\ IInv
  BY Working DEF RunInv
<1>2. CASE Fail(e, "conflict") /\ UNCHANGED vars
  BY <1>2, FailProceeds, Outcomes
<1>3. CASE RetryTask(T(e), Unlimited) /\ Returned(e, "loop")
  <2>1. \/ IsTerminalState(task'[T(e)].state)
        \/ task'[T(e)].state # "waiting"
    BY <1>1, <1>3, RetriedStates
  <2>2. ~RetryWait(task'[T(e)]) /\ "loop" \in Answered
    BY <2>1 DEF RetryWait, IsTerminalState, TerminalStates, Stages, Answered
  <2> QED BY <1>3, <2>1, <2>2, ReturnProceeds
<1> QED BY <1>2, <1>3 DEF ResumePipelineRetry, Call, Returned

\* Every step of an execution.
LEMMA StepsProceed ==
    ASSUME RunInv, NEW e \in Executions, ExecutionStep(e), SeenIsSound(e)
    PROVE  Proceeds(e)
<1>1. WaitStep(e) \/ WorkStep(e)
  BY DEF ExecutionStep
<1>2. ~Idle(e)
  BY <1>1, StepsAreNotIdle
<1> QED
  BY <1>1, <1>2, EntriesProceed, LoopMovesProceed, ActivationsProceed, CodingProceeds,
     ChecksProceed, ReviewsProceed, DeliveriesProceed, ResumptionProceeds DEF WaitStep, WorkStep

\* A wait that an execution has just seen is left as it is, ended, or retried if it is
\* a pipeline's.
LEMMA FreshWaitSteps ==
    ASSUME RunInv, NEW e \in Executions, ExecutionStep(e), SeenIsSound(e), Fresh(e),
           RetryWait(task[T(e)]), runs[e].stage \in {"loop", "resuming"},
           At(e, "resuming") => PipelineWait(Seen(e))
    PROVE  \/ /\ UNCHANGED vars
              /\ \/ runs'[e].stage \in {"ended", "failed"}
                 \/ runs'[e].stage = "resuming" /\ runs'[e].seen = Seen(e)
           \/ IsTerminalState(task'[T(e)].state)
           \/ PipelineWait(task[T(e)]) /\ task'[T(e)].state # "waiting"
<1>1. ~Idle(e) /\ Seen(e) = task[T(e)]
  BY StepsAreNotIdle DEF ExecutionStep, SeenIsSound, Fresh
<1>2. /\ Seen(e).state = "waiting" /\ RetryWait(Seen(e))
  BY <1>1 DEF RetryWait
<1>3. CASE At(e, "resuming")
  <2>1. ResumePipelineRetry(e)
    BY <1>3, StageSteps
  <2> QED BY <1>1, <1>3, <2>1, ResumptionProceeds
<1>4. CASE At(e, "loop")
  <2>1. CASE ReturnResult(e)
    BY <1>1, <2>1, Outcomes DEF ReturnResult
  <2>2. CASE ReachDeadline(e)
    BY <1>1, <2>2, Outcomes DEF ReachDeadline
  <2>3. CASE ResumePipeline(e)
    <3>1. UNCHANGED vars /\ (Goto(e, "resuming") \/ Fail(e, "conflict"))
      BY <2>3 DEF ResumePipeline
    <3> QED BY <1>1, <3>1, Outcomes
  <2>4. ~(\/ RecoverReview(e) \/ StartImplementing(e) \/ RepairFailedCheck(e)
          \/ RepairReviewed(e) \/ StartCheck(e) \/ StartReview(e) \/ TakeOverReview(e)
          \/ BeginReview(e) \/ EndInconclusive(e) \/ StartDelivery(e))
    BY <1>2 DEF RecoverReview, StartImplementing, RepairFailedCheck, RepairReviewed, StartCheck,
       StartReview, TakeOverReview, BeginReview, EndInconclusive, StartDelivery, InPhase,
       ReviewWait, RetryWait
  <2> QED BY <1>4, <2>1, <2>2, <2>3, <2>4, StageSteps
<1> QED BY <1>3, <1>4 DEF At

\* What an execution that keeps its Task and its result has seen is fresh only if it was.
LEMMA FreshWas ==
    ASSUME RunInv, [Next]_vars, NEW f \in Executions, ~Idle(f), SeenIsSound(f),
           runs'[f].task = runs[f].task, runs'[f].seen = runs[f].seen, Fresh(f)'
    PROVE  Fresh(f) /\ task'[T(f)] = task[T(f)]
<1>1. /\ T(f) \in Tasks /\ Admitted(T(f)) /\ IInv /\ task[T(f)] \in TaskResult
      /\ Seen(f) \in TaskResult \cup {Null}
  BY Working, RowOfAdmitted DEF RunInv, RunTypeOK, Run, Seen
<1>2. task[T(f)].revision \in Nat /\ (Seen(f) # Null => Rev(f) \in Nat)
  BY <1>1 DEF TaskResult, Rev, Seen
<1>3. \/ task'[T(f)] = task[T(f)]
      \/ task'[T(f)].revision = task[T(f)].revision + 1
  BY <1>1, RowsGrow
<1>4. T(f)' = T(f) /\ Seen(f)' = Seen(f) /\ (Seen(f) # Null => Rev(f)' = Rev(f))
  BY DEF T, Seen, Rev
<1> QED BY <1>2, <1>3, <1>4 DEF Fresh, SeenIsSound

\* A spent execution that is left where it is stays spent.
LEMMA SpentStays ==
    ASSUME RunInv, [Next]_vars, NEW f \in Executions, ~Idle(f), SeenIsSound(f), Remains(f)
    PROVE  /\ Spent(f) => Spent(f)'
           /\ Harmless(f) => Harmless(f)'
           /\ runs[f].aborted => runs'[f].aborted
<1>1. Bygone(f) => Bygone(f)'
  BY FreshWas DEF Bygone, Remains, Seen
<1>2. Spent(f) => Spent(f)'
  BY <1>1 DEF Spent, Remains, Seen, At
<1> QED BY <1>2 DEF Harmless, Remains, At

\* So does one that takes a step, unless it enters the loop with the row.
LEMMA SpentGoesOn ==
    ASSUME NEW e \in Executions, Moves(e), SpentlyMoves(e)
    PROVE  /\ \/ Spent(e)'
              \/ /\ At(e, "admit") /\ ~runs[e].aborted /\ UNCHANGED vars
                 /\ runs'[e].stage = "loop" /\ runs'[e].seen = task[T(e)]
           /\ runs[e].aborted => Harmless(e)'
<1>1. \/ Spent(e)' /\ ~At(e, "resuming")'
      \/ /\ At(e, "admit") /\ ~runs[e].aborted /\ UNCHANGED vars
         /\ runs'[e].stage = "loop" /\ runs'[e].seen = task[T(e)]
  BY DEF SpentlyMoves, Spent, At
<1> QED BY <1>1 DEF Moves, Harmless

(***************************************************************************)
(* The invariant                                                           *)
(***************************************************************************)

\* What holds of an execution while it lasts.  One that was told to stop cannot start
\* anything; a wait is left to those that saw it begin, and a retry to its launch; and
\* one that acts, acts on the row.
StopsWhenTold(f) == server = "up" /\ runs[f].aborted => Harmless(f)

LeavesWaits(f) ==
    RetryWait(task[T(f)]) =>
        /\ Spent(f) \/ (runs[f].stage \in {"loop", "resuming"} /\ Fresh(f))
        /\ Starting(f) => ApprovedReview(task[T(f)])

IsReplaced(f) ==
    pending[T(f)] = "replace" =>
        /\ Spent(f)
        /\ Active(T(f)) /\ Starting(f) => ForDelivery(task[T(f)])

EndsApproved(f) == At(f, "ended") /\ PipelineWait(Seen(f)) => ApprovedReview(task[T(f)])

ActsOnTheRow(f) ==
    server = "up" /\ ~runs[f].aborted /\ Active(T(f)) /\ runs[f].stage \in Acting =>
        Fresh(f) \/ pending[T(f)] = "replace"

ResumesItsWait(f) ==
    At(f, "resuming") => PipelineWait(Seen(f)) /\ (Fresh(f) \/ task[T(f)].state # "waiting")

Minds(f) ==
    /\ StopsWhenTold(f) /\ LeavesWaits(f) /\ IsReplaced(f)
    /\ EndsApproved(f) /\ ActsOnTheRow(f) /\ ResumesItsWait(f)

\* An execution of the Task that will bring it to its next wait, or leave a timer.
Attends(f, t) ==
    /\ T(f) = t /\ ~Idle(f) /\ ~runs[f].aborted
    /\ Over(f) => At(f, "ended") /\ PipelineWait(Seen(f))

\* What holds of a Task that was admitted.  A request's or a timer's launch finds a
\* wait only of an approved bundle, a request that is not a retry is the first for its
\* Task, and a Task the server may continue is attended.
RequestsFindWork(t) == pending[t] # "none" /\ RetryWait(task[t]) => ApprovedReview(task[t])

RequestsComeFirst(t) == pending[t] = "deduplicated" => ~Busy(t) /\ t \notin timers

TimersAreForBundles(t) == t \in timers => ApprovedReview(task[t])

IsAttended(t) ==
    server = "up" /\ Active(t) /\ Restartable(task[t]) =>
        pending[t] # "none" \/ t \in timers \/ \E f \in Executions : Attends(f, t)

Minded(t) ==
    /\ RequestsFindWork(t) /\ RequestsComeFirst(t) /\ TimersAreForBundles(t) /\ IsAttended(t)

\* Of two executions of a Task, one was told to stop and can only end it.
Apart ==
    \A e, f \in Executions :
        e # f /\ ~Idle(e) /\ ~Idle(f) /\ T(e) = T(f) => Harmless(e) \/ Harmless(f)

\* A server that closes has no timers and no requests; one that is down runs nothing.
Rests ==
    /\ server # "up" => timers = {} /\ \A t \in Tasks : pending[t] = "none"
    /\ server = "down" => \A f \in Executions : Idle(f)

AttendanceInv ==
    /\ Rests /\ Apart
    /\ \A f \in Executions : ~Idle(f) => Minds(f)
    /\ \A t \in Tasks : Admitted(t) => Minded(t)

\* A wait that a delivery or a pipeline is left with stands on an approved bundle.
LEMMA WaitsAreApproved ==
    ASSUME IInv, NEW t \in Tasks, Admitted(t), PipelineWait(task[t])
    PROVE  ApprovedReview(task[t])
<1>1. SoundWait(task[t])
  BY DEF IInv, Rows, RowInv
<1> QED BY <1>1 DEF SoundWait, PipelineWait, DeliveryReasons

\* An execution that is left where it is minds its Task as before, if the row and the
\* requests are left alone.
LEMMA BystanderMinds ==
    ASSUME RunInv, [Next]_vars, NEW f \in Executions, ~Idle(f), SeenIsSound(f), Minds(f),
           runs'[f] = runs[f], task'[T(f)] = task[T(f)], pending'[T(f)] = pending[T(f)],
           server' = server
    PROVE  Minds(f)'
<1>1. Remains(f)
  BY DEF Remains
<1>2. T(f)' = T(f) /\ Seen(f)' = Seen(f) /\ (Fresh(f) <=> Fresh(f)')
  BY DEF T, Seen, Fresh, Rev
<1>3. Spent(f) <=> Spent(f)'
  BY <1>2 DEF Spent, Bygone, At
<1>4. (Harmless(f) <=> Harmless(f)') /\ (Starting(f) <=> Starting(f)')
  BY <1>3 DEF Harmless, Starting, At
<1>5. StopsWhenTold(f)'
  BY <1>4 DEF Minds, StopsWhenTold
<1>6. LeavesWaits(f)'
  BY <1>2, <1>3, <1>4 DEF Minds, LeavesWaits
<1>7. IsReplaced(f)'
  BY <1>2, <1>3, <1>4 DEF Minds, IsReplaced, Active, Admitted
<1>8. EndsApproved(f)'
  BY <1>2 DEF Minds, EndsApproved, At
<1>9. ActsOnTheRow(f)'
  BY <1>2 DEF Minds, ActsOnTheRow, Active, Admitted
<1>10. ResumesItsWait(f)'
  BY <1>2 DEF Minds, ResumesItsWait, At
<1> QED BY <1>5, <1>6, <1>7, <1>8, <1>9, <1>10 DEF Minds

\* What a step of an execution means to its Task, where the invariant holds: a wait it
\* finds is not followed by another one; a wait it begins, it begins as the Task's one
\* execution that may; and an execution that can only end the Task does no more.
Respects(e) ==
    /\ RetryWait(task[T(e)]) /\ RetryWait(task'[T(e)]) => task'[T(e)] = task[T(e)]
    /\ RetryWait(task'[T(e)]) /\ task'[T(e)] # task[T(e)] =>
          /\ runs'[e].seen = task'[T(e)] /\ runs'[e].stage \in {"loop", "ended"}
          /\ ~Harmless(e) /\ (Spent(e) => At(e, "delivering"))
    /\ RetryWait(task[T(e)]) /\ ~PipelineWait(task[T(e)]) =>
          task'[T(e)] = task[T(e)] \/ IsTerminalState(task'[T(e)].state)
    /\ Harmless(e) => task'[T(e)] = task[T(e)] \/ IsTerminalState(task'[T(e)].state)
    /\ Spent(e) =>
          \/ task'[T(e)] = task[T(e)] \/ IsTerminalState(task'[T(e)].state)
          \/ At(e, "delivering") /\ ~runs[e].aborted

LEMMA StepsRespect ==
    ASSUME RunInv, NEW e \in Executions, ExecutionStep(e), SeenIsSound(e), Minds(e)
    PROVE  Respects(e) /\ (Spent(e) => SpentlyMoves(e))
<1> DEFINE r == task[T(e)]
           n == task'[T(e)]
<1>1. Proceeds(e)
  BY StepsProceed
<1>2. UNCHANGED vars => n = r
  BY DEF vars
<1>3. Spent(e) => SpentlyWrites(e) /\ SpentlyMoves(e)
  <2>1. Spent(e) /\ At(e, "resuming") => r.state # "waiting"
    BY DEF Minds, ResumesItsWait, Spent, Bygone, At
  <2> QED BY <2>1, SpentSteps
<1>4. IsTerminalState(n.state) => ~RetryWait(n)
  BY DEF RetryWait, IsTerminalState, TerminalStates
<1>5. RetryWait(r) =>
          \/ n = r \/ IsTerminalState(n.state)
          \/ PipelineWait(r) /\ n.state # "waiting"
  <2>1. ASSUME RetryWait(r), Spent(e) PROVE n = r \/ IsTerminalState(n.state)
    BY <1>2, <1>3, <2>1 DEF SpentlyWrites, RetryWait
  <2>2. ASSUME RetryWait(r), ~Spent(e)
        PROVE  \/ n = r \/ IsTerminalState(n.state)
               \/ PipelineWait(r) /\ n.state # "waiting"
    <3>1. runs[e].stage \in {"loop", "resuming"} /\ Fresh(e)
      BY <2>2 DEF Minds, LeavesWaits
    <3>2. At(e, "resuming") => PipelineWait(Seen(e))
      BY DEF Minds, ResumesItsWait
    <3> QED BY <1>2, <2>2, <3>1, <3>2, FreshWaitSteps
  <2> QED BY <2>1, <2>2
<1>6. RetryWait(r) /\ RetryWait(n) => n = r
  BY <1>4, <1>5 DEF RetryWait
<1>7. Spent(e) => n = r \/ IsTerminalState(n.state) \/ (At(e, "delivering") /\ ~runs[e].aborted)
  BY <1>2, <1>3 DEF SpentlyWrites
<1>8. Harmless(e) => n = r \/ IsTerminalState(n.state)
  BY <1>7 DEF Harmless
<1>9. RetryWait(n) /\ n # r =>
          /\ runs'[e].seen = n /\ runs'[e].stage \in {"loop", "ended"}
          /\ ~Harmless(e) /\ (Spent(e) => At(e, "delivering"))
  BY <1>1, <1>4, <1>6, <1>7, <1>8 DEF Proceeds, BeginsWait
<1>10. RetryWait(r) /\ ~PipelineWait(r) => n = r \/ IsTerminalState(n.state)
  BY <1>5
<1> QED BY <1>3, <1>6, <1>7, <1>8, <1>9, <1>10 DEF Respects

\* A step changes the row of its own Task only.
LEMMA OthersStay ==
    ASSUME RunInv, BundleInv, NEW e \in Executions, ExecutionStep(e),
           NEW u \in Tasks, u # T(e)
    PROVE  task'[u] = task[u]
<1>1. ~Idle(e) /\ [Next]_vars /\ IInv
  BY StepsAreNotIdle, ExecutionsTakeSteps DEF ExecutionStep, RunInv
<1>2. T(e) \in Tasks /\ Admitted(T(e)) /\ task[T(e)].revision \in Nat
  BY <1>1, Working, RowOfAdmitted DEF TaskResult
<1>3. Writes(e)
  BY <1>1, <1>2, StepsWrite DEF BundleInv, Prepared, AttemptsAreOwned
<1>4. CASE UNCHANGED vars
  BY <1>4 DEF vars
<1>5. CASE ~UNCHANGED vars
  <2>1. task'[T(e)].revision = task[T(e)].revision + 1
    BY <1>3, <1>5 DEF Writes, Plain, Checks, Starts
  <2> QED BY <1>1, <1>2, <2>1, RowsGrow
<1> QED BY <1>4, <1>5

\* The execution that takes the step still minds its Task.
LEMMA ActorMinds ==
    ASSUME RunInv, RunInv', OneLiveExecution, BundleInv, [RunNext]_allVars, AttendanceInv,
           NEW e \in Executions, ExecutionStep(e)
    PROVE  Minds(e)'
<1> DEFINE t == T(e)
           r == task[T(e)]
           n == task'[T(e)]
<1>1. /\ ~Idle(e) /\ [Next]_vars /\ IInv' /\ Minds(e) /\ SeenIsSound(e)
      /\ UNCHANGED <<server, pending>>
  BY StepsAreNotIdle, SystemTakesSteps
     DEF ExecutionStep, RunInv, AttendanceInv, BundleInv
<1>2. /\ Moves(e) /\ t \in Tasks /\ Admitted(t) /\ n # Null
  BY <1>1, StepsMove, Working, StaysAdmitted DEF Admitted
<1>3. T(e)' = t /\ Seen(e)' = runs'[e].seen /\ (runs'[e].aborted <=> runs[e].aborted)
  BY <1>2 DEF Moves, T, Seen
<1>4. Proceeds(e) /\ Respects(e) /\ (Spent(e) => SpentlyMoves(e))
  BY <1>1, StepsProceed, StepsRespect
<1>5. Spent(e) =>
          /\ \/ Spent(e)'
             \/ /\ At(e, "admit") /\ ~runs[e].aborted /\ UNCHANGED vars
                /\ runs'[e].stage = "loop" /\ runs'[e].seen = task[T(e)]
          /\ runs[e].aborted => Harmless(e)'
  BY <1>2, <1>4, SpentGoesOn
<1>6. UNCHANGED vars => n = r
  BY DEF vars
<1>7. runs'[e].seen = n => Fresh(e)'
  BY <1>2, <1>3 DEF Fresh, Seen, Rev
<1>8. ApprovedReview(r) => ApprovedReview(n)
  BY <1>2, BundleStays
<1>9. Starting(e)' => UNCHANGED vars /\ At(e, "prelude") /\ Starting(e)
  <2>1. Starting(e)' => runs'[e].stage \in {"prelude", "admit"} /\ ~runs[e].aborted
    BY <1>3 DEF Starting
  <2>2. runs'[e].stage \in {"prelude", "admit"} => At(e, "prelude") /\ UNCHANGED vars
    BY <1>4 DEF Proceeds, Follows
  <2> QED BY <2>1, <2>2 DEF Starting, At
<1>10. StopsWhenTold(e)'
  BY <1>1, <1>3, <1>5 DEF Minds, StopsWhenTold, Harmless
<1>11. LeavesWaits(e)'
  <2> SUFFICES ASSUME RetryWait(n)
               PROVE  /\ Spent(e)' \/ (runs'[e].stage \in {"loop", "resuming"} /\ Fresh(e)')
                      /\ Starting(e)' => ApprovedReview(n)
    BY <1>3 DEF LeavesWaits
  <2>1. CASE n # r
    <3>1. runs'[e].seen = n /\ runs'[e].stage \in {"loop", "ended"}
      BY <1>4, <2>1 DEF Respects
    <3> QED BY <1>7, <3>1 DEF Spent, Starting
  <2>2. CASE n = r
    <3>1. Starting(e)' => ApprovedReview(n)
      BY <1>1, <1>9, <2>2 DEF Minds, LeavesWaits
    <3>2. CASE Spent(e)
      BY <1>5, <1>7, <2>2, <3>1, <3>2
    <3>3. CASE ~Spent(e)
      <4>1. runs[e].stage \in {"loop", "resuming"} /\ Fresh(e)
            /\ (At(e, "resuming") => PipelineWait(Seen(e)))
        BY <1>1, <2>2, <3>3 DEF Minds, LeavesWaits, ResumesItsWait
      <4>2. \/ runs'[e].stage \in {"ended", "failed"}
            \/ runs'[e].stage = "resuming" /\ runs'[e].seen = Seen(e)
        BY <1>1, <2>2, <4>1, FreshWaitSteps DEF RetryWait, IsTerminalState, TerminalStates
      <4>3. CASE runs'[e].stage \in {"ended", "failed"}
        BY <3>1, <4>3 DEF Spent
      <4>4. CASE runs'[e].stage = "resuming" /\ runs'[e].seen = Seen(e)
        <5>1. Seen(e) = r
          BY <1>1, <4>1 DEF SeenIsSound, Fresh
        <5> QED BY <1>7, <2>2, <3>1, <4>4, <5>1
      <4> QED BY <4>2, <4>3, <4>4
    <3> QED BY <3>2, <3>3
  <2> QED BY <2>1, <2>2
<1>12. IsReplaced(e)'
  <2> SUFFICES ASSUME pending[t] = "replace"
               PROVE  Spent(e)' /\ (~IsTerminalState(n.state) /\ Starting(e)' => ForDelivery(n))
    BY <1>1, <1>3 DEF IsReplaced, Active, Admitted
  <2>1. Spent(e) /\ (Active(t) /\ Starting(e) => ForDelivery(r))
    BY <1>1 DEF Minds, IsReplaced
  <2>2. ~IsTerminalState(n.state) /\ Starting(e)' => ForDelivery(n)
    BY <1>2, <1>6, <1>9, <2>1 DEF Active, Admitted
  <2>3. CASE Spent(e)'
    BY <2>2, <2>3
  <2>4. CASE /\ At(e, "admit") /\ ~runs[e].aborted /\ UNCHANGED vars
             /\ runs'[e].stage = "loop" /\ runs'[e].seen = task[T(e)]
    <3>1. Starting(e)
      BY <2>4 DEF Starting, At
    <3>2. IsTerminalState(r.state) \/ ForDelivery(r)
      BY <1>2, <2>1, <3>1 DEF Active
    <3>3. Spent(e)'
      BY <1>3, <2>4, <3>2 DEF Spent, At
    <3> QED BY <2>2, <3>3
  <2> QED BY <1>5, <2>1, <2>3, <2>4
<1>13. EndsApproved(e)'
  <2> SUFFICES ASSUME runs'[e].stage = "ended", PipelineWait(runs'[e].seen)
               PROVE  ApprovedReview(n)
    BY <1>3 DEF EndsApproved, At
  <2>1. runs'[e].seen = n
    BY <1>4 DEF Proceeds, Follows
  <2>2. PipelineWait(n)
    BY <2>1
  <2>3. SoundWait(n)
    BY <1>1, <1>2 DEF IInv, Rows, RowInv, Admitted
  <2> QED BY <2>2, <2>3 DEF SoundWait, PipelineWait, DeliveryReasons
<1>14. ActsOnTheRow(e)'
  <2> SUFFICES ASSUME server = "up", ~runs[e].aborted, ~IsTerminalState(n.state), runs'[e].stage \in Acting
               PROVE  Fresh(e)' \/ pending[t] = "replace"
    BY <1>1, <1>3 DEF ActsOnTheRow, Active, Admitted
  <2>1. CASE runs'[e].seen = n
    BY <1>7, <2>1
  <2>2. CASE UNCHANGED vars /\ runs'[e].seen = Seen(e) /\ runs[e].stage \in Acting
    <3>1. Active(t)
      BY <1>2, <1>6, <2>2 DEF Active
    <3>2. Fresh(e) \/ pending[t] = "replace"
      BY <1>1, <2>2, <3>1 DEF Minds, ActsOnTheRow
    <3>3. Fresh(e) => Fresh(e)'
      BY <1>3, <1>6, <2>2 DEF Fresh, Seen, Rev
    <3> QED BY <3>2, <3>3
  <2> QED BY <1>4, <2>1, <2>2 DEF Proceeds, Follows
<1>15. ResumesItsWait(e)'
  <2> SUFFICES ASSUME runs'[e].stage = "resuming"
               PROVE  PipelineWait(runs'[e].seen) /\ Fresh(e)'
    BY <1>3 DEF ResumesItsWait, At
  <2>1. UNCHANGED vars /\ PipelineWait(Seen(e)) /\ Fresh(e) /\ runs'[e].seen = Seen(e)
    BY <1>4 DEF Proceeds, Follows
  <2>2. Fresh(e)'
    BY <1>3, <1>6, <2>1 DEF Fresh, Seen, Rev
  <2> QED BY <2>1, <2>2
<1> QED BY <1>10, <1>11, <1>12, <1>13, <1>14, <1>15 DEF Minds

\* A delivery that begins to wait stands on an approved bundle.
LEMMA DeliveryWaits ==
    ASSUME RunInv, IInv', NEW e \in Executions, ExecutionStep(e), At(e, "delivering"),
           RetryWait(task'[T(e)]), task'[T(e)] # task[T(e)]
    PROVE  ApprovedReview(task'[T(e)])
<1> DEFINE n == task'[T(e)]
<1>1. ~Idle(e) /\ T(e) \in Tasks /\ IInv /\ Admitted(T(e))
  BY StepsAreNotIdle, Working DEF ExecutionStep, RunInv
<1>2. ~IsTerminalState(n.state) /\ ~UNCHANGED vars
  BY DEF RetryWait, IsTerminalState, TerminalStates, vars
<1>3. ~DeliveryAborted(e)
  BY <1>2 DEF DeliveryAborted
<1>4. ~DeliveryFails(e)
  BY <1>1, <1>2, Outcomes DEF DeliveryFails
<1>5. ~DeliverySucceeds(e)
  <2> SUFFICES ASSUME DeliverySucceeds(e) PROVE FALSE
    OBVIOUS
  <2>1. PICK d : RecordDelivery(T(e), Rev(e), d)
    BY <1>2 DEF DeliverySucceeds, Call
  <2>2. HoldsLease(T(e)) /\ Save(T(e), ApplyDelivery(task[T(e)], d), <<"delivery", d.sha>>)
    BY <2>1 DEF RecordDelivery, CanRecordDelivery, CanPersist
  <2> QED BY <1>1, <1>2, <2>2, WrittenStates
<1>6. DeliveryPending(e)
  BY <1>3, <1>4, <1>5, StageSteps
<1> DEFINE fence == Seen(e).candidateFence
<1>7. PICK reason \in DeliveryReasons : RecordWaiting(T(e), Rev(e), reason, "reviewed", fence)
  BY <1>2, <1>6 DEF DeliveryPending, WaitFor, Call
<1>8. HoldsLease(T(e))
      /\ Save(T(e), ApplyWaiting(task[T(e)], reason, "reviewed", fence),
              <<"waiting", reason, fence>>)
  BY <1>7 DEF RecordWaiting, CanRecordWaiting, CanPersist
<1>9. n.state = "waiting" /\ n.waiting.reason \in DeliveryReasons
  BY <1>1, <1>8, WrittenStates
<1>10. n # Null
  BY <1>1, ExecutionsTakeSteps, AdmittedStays DEF ExecutionStep, Admitted
<1>11. SoundWait(n)
  BY <1>1, <1>10 DEF IInv, Rows, RowInv, Admitted
<1> QED BY <1>9, <1>11 DEF SoundWait

\* The executions that do not take the step mind their Tasks as before: where the row
\* is written, by one that may, they were told to stop; or it was ended.
LEMMA OthersMind ==
    ASSUME RunInv, RunInv', OneLiveExecution, BundleInv, [RunNext]_allVars, AttendanceInv,
           NEW e \in Executions, ExecutionStep(e), NEW f \in Executions, f # e, ~Idle(f)
    PROVE  Minds(f)'
<1> DEFINE t == T(f)
           n == task'[T(f)]
<1>1. /\ ~Idle(e) /\ [Next]_vars /\ Minds(e) /\ SeenIsSound(e) /\ Minds(f) /\ SeenIsSound(f)
      /\ UNCHANGED <<server, pending>>
  BY StepsAreNotIdle, SystemTakesSteps DEF ExecutionStep, RunInv, AttendanceInv, BundleInv
<1>2. /\ runs'[f] = runs[f] /\ t \in Tasks /\ Admitted(t) /\ n # Null
  BY <1>1, StepsMove, Working, StaysAdmitted DEF Moves, Admitted
<1>3. Remains(f) /\ T(f)' = t /\ Seen(f)' = Seen(f)
  BY <1>2 DEF Remains, T, Seen
<1>4. CASE n = task[T(f)]
  BY <1>1, <1>2, <1>4, BystanderMinds
<1>5. CASE n # task[T(f)]
  <2>1. T(e) = T(f)
    BY <1>2, <1>5, OthersStay
  <2>2. Harmless(e) \/ Harmless(f)
    BY <1>1, <2>1 DEF AttendanceInv, Apart
  <2>3. /\ Spent(f) => Spent(f)'
        /\ Harmless(f) => Harmless(f)'
    BY <1>1, <1>3, SpentStays
  <2>4. EndsApproved(f)'
    <3>1. ApprovedReview(task[t]) => ApprovedReview(n)
      BY <1>2, BundleStays
    <3> QED BY <1>1, <1>3, <3>1 DEF Minds, EndsApproved, At, Remains
  <2>5. CASE Harmless(f)
    <3>1. Spent(f)' /\ runs'[f].aborted /\ ~At(f, "resuming")' /\ ~Starting(f)'
      BY <2>3, <2>5 DEF Harmless, Starting
    <3> QED BY <2>3, <2>4, <2>5, <3>1
            DEF Minds, StopsWhenTold, LeavesWaits, IsReplaced, ActsOnTheRow, ResumesItsWait
  <2>6. CASE ~Harmless(f)
    <3>1. IsTerminalState(n.state)
      BY <1>1, <1>5, <2>1, <2>2, <2>6, StepsRespect DEF Respects
    <3>2. ~RetryWait(n) /\ n.state # "waiting" /\ ~Active(T(f))'
      BY <1>3, <3>1 DEF RetryWait, Active, IsTerminalState, TerminalStates
    <3>3. StopsWhenTold(f)'
      BY <1>1, <1>2, <2>6 DEF Minds, StopsWhenTold
    <3>4. LeavesWaits(f)' /\ ActsOnTheRow(f)'
      BY <1>3, <3>2 DEF LeavesWaits, ActsOnTheRow
    <3>5. IsReplaced(f)'
      BY <1>1, <1>3, <2>3, <3>2 DEF Minds, IsReplaced
    <3>6. ResumesItsWait(f)'
      BY <1>1, <1>2, <1>3, <3>2 DEF Minds, ResumesItsWait, At
    <3> QED BY <2>4, <3>3, <3>4, <3>5, <3>6 DEF Minds
  <2> QED BY <2>5, <2>6
<1> QED BY <1>4, <1>5

\* The executions of a Task stay apart.
LEMMA StepsStayApart ==
    ASSUME RunInv, BundleInv, [RunNext]_allVars, AttendanceInv,
           NEW e \in Executions, ExecutionStep(e)
    PROVE  Apart'
<1>1. ~Idle(e) /\ [Next]_vars /\ Moves(e)
  BY StepsAreNotIdle, SystemTakesSteps, StepsMove DEF ExecutionStep, RunInv
<1>2. ASSUME NEW f \in Executions
      PROVE  /\ ~Idle(f)' => ~Idle(f) /\ T(f)' = T(f)
             /\ ~Idle(f) /\ Harmless(f) => Harmless(f)'
  <2>1. CASE f = e
    <3>1. Harmless(e) => SpentlyMoves(e)
      BY <1>1, StepsRespect DEF AttendanceInv, BundleInv, Harmless
    <3>2. Harmless(e) => Harmless(e)'
      BY <1>1, <3>1, SpentGoesOn DEF Harmless
    <3> QED BY <1>1, <2>1, <3>2 DEF Moves, T
  <2>2. CASE f # e
    <3>1. runs'[f] = runs[f]
      BY <1>1, <2>2 DEF Moves
    <3>2. Remains(f)
      BY <3>1 DEF Remains
    <3>3. ~Idle(f) => SeenIsSound(f)
      BY DEF BundleInv
    <3> QED BY <1>1, <3>1, <3>2, <3>3, SpentStays DEF Idle, T
  <2> QED BY <2>1, <2>2
<1> QED BY <1>2 DEF AttendanceInv, Apart

\* Every Task is minded after the step.
LEMMA StepsMindTasks ==
    ASSUME RunInv, RunInv', OneLiveExecution, BundleInv, [RunNext]_allVars, AttendanceInv,
           NEW e \in Executions, ExecutionStep(e), NEW t \in Tasks, Admitted(t)'
    PROVE  Minded(t)'
<1> DEFINE r == task[t]
           n == task'[t]
<1>1. /\ ~Idle(e) /\ [Next]_vars /\ IInv /\ IInv' /\ Minds(e) /\ SeenIsSound(e) /\ Moves(e)
      /\ UNCHANGED <<server, timers, pending>>
  BY StepsAreNotIdle, SystemTakesSteps, StepsMove
     DEF ExecutionStep, RunInv, AttendanceInv, BundleInv
<1>2. t # T(e) => n = r
  BY OthersStay
<1>3. Admitted(t) /\ Minded(t)
  BY <1>1, <1>2, Working DEF Admitted, AttendanceInv
<1>4. Proceeds(e) /\ Respects(e) /\ (Spent(e) => SpentlyMoves(e))
  BY <1>1, StepsProceed, StepsRespect
<1>5. ApprovedReview(r) => ApprovedReview(n)
  BY <1>3, BundleStays
<1>6. Busy(t)' <=> Busy(t)
  BY <1>1 DEF Busy, Moves, Idle
<1>7. RequestsFindWork(t)'
  <2> SUFFICES ASSUME pending[t] # "none", RetryWait(n) PROVE ApprovedReview(n)
    BY <1>1 DEF RequestsFindWork
  <2>1. CASE n = r
    BY <1>3, <1>5, <2>1 DEF Minded, RequestsFindWork
  <2>2. CASE n # r
    <3>1. t = T(e) /\ Busy(t)
      BY <1>1, <1>2, <2>2 DEF Busy, T
    <3>2. pending[t] = "replace"
      BY <1>3, <3>1 DEF Minded, RequestsComeFirst, RunInv, RunTypeOK, LaunchModes
    <3>3. Spent(e)
      BY <1>1, <3>1, <3>2 DEF Minds, IsReplaced
    <3>4. At(e, "delivering")
      BY <1>4, <2>2, <3>1, <3>3 DEF Respects
    <3> QED BY <1>1, <2>2, <3>1, <3>4, DeliveryWaits
  <2> QED BY <2>1, <2>2
<1>8. RequestsComeFirst(t)'
  BY <1>1, <1>3, <1>6 DEF Minded, RequestsComeFirst
<1>9. TimersAreForBundles(t)'
  BY <1>1, <1>3, <1>5 DEF Minded, TimersAreForBundles
<1>10. IsAttended(t)'
  <2> SUFFICES ASSUME server = "up", Active(t)', Restartable(n), pending[t] = "none", t \notin timers
               PROVE  \E f \in Executions : Attends(f, t)'
    BY <1>1 DEF IsAttended
  <2>1. Active(t)
    BY <1>1, <1>3, RowsGrow DEF Active, Admitted
  <2>2. Restartable(r)
    <3>1. CASE n = r
      BY <3>1
    <3>2. CASE n # r
      <4>1. ~IsTerminalState(n.state) /\ t = T(e)
        BY <1>2, <3>2 DEF Active
      <4>2. ~(RetryWait(r) /\ ~PipelineWait(r))
        BY <1>4, <3>2, <4>1 DEF Respects
      <4> QED BY <2>1, <4>2 DEF Restartable, Launchable, RetryWait, ReviewWait, Active
    <3> QED BY <3>1, <3>2
  <2>3. PICK f \in Executions : Attends(f, t)
    BY <1>3, <2>1, <2>2 DEF Minded, IsAttended
  <2>4. CASE f # e
    <3>1. runs'[f] = runs[f]
      BY <1>1, <2>4 DEF Moves
    <3> QED BY <2>3, <3>1 DEF Attends, T, Idle, Over, At, Seen
  <2>5. CASE f = e
    <3>1. /\ t = T(e) /\ ~runs[e].aborted
      BY <2>3, <2>5 DEF Attends
    <3>2. runs[e].stage \in Acting => Fresh(e)
      BY <1>1, <2>1, <3>1 DEF Minds, ActsOnTheRow
    <3>3. runs'[e].stage \in {"ended", "rejected"}
              => runs'[e].stage = "ended" /\ PipelineWait(runs'[e].seen)
      <4>1. T(e)' = t
        BY <1>1, <3>1 DEF Moves, T
      <4> QED BY <1>4, <2>1, <3>1, <3>2, <4>1 DEF Proceeds, Leaves, Active, Admitted
    <3>4. Attends(e, t)'
      BY <1>1, <3>1, <3>3 DEF Attends, Moves, T, Idle, Over, At, Seen
    <3> QED BY <3>4
  <2> QED BY <2>4, <2>5
<1> QED BY <1>7, <1>8, <1>9, <1>10 DEF Minded

\* A step of an execution keeps the invariant.
LEMMA ExecutionKeepsAttendance ==
    ASSUME RunInv, RunInv', OneLiveExecution, BundleInv, [RunNext]_allVars, AttendanceInv,
           NEW e \in Executions, ExecutionStep(e)
    PROVE  AttendanceInv'
<1>1. ~Idle(e) /\ Moves(e) /\ UNCHANGED <<server, timers, pending>>
  BY StepsAreNotIdle, SystemTakesSteps, StepsMove DEF ExecutionStep, RunInv
<1>2. Rests'
  BY <1>1 DEF AttendanceInv, Rests
<1>3. Apart'
  BY StepsStayApart
<1>4. ASSUME NEW f \in Executions, ~Idle(f)' PROVE Minds(f)'
  <2>1. f # e => ~Idle(f)
    BY <1>1, <1>4 DEF Moves, Idle
  <2> QED BY <2>1, ActorMinds, OthersMind
<1>5. ASSUME NEW t \in Tasks, Admitted(t)' PROVE Minded(t)'
  BY <1>5, StepsMindTasks
<1> QED BY <1>2, <1>3, <1>4, <1>5 DEF AttendanceInv

\* The invariant speaks of rows, executions, requests and timers only.
LEMMA SameAttendance ==
    ASSUME AttendanceInv, UNCHANGED <<task, runs, server, timers, pending>>
    PROVE  AttendanceInv'
  BY DEF AttendanceInv, Rests, Apart, Minds, Minded, StopsWhenTold, LeavesWaits, IsReplaced,
     EndsApproved, ActsOnTheRow, ResumesItsWait, RequestsFindWork, RequestsComeFirst,
     TimersAreForBundles, IsAttended, Attends, Harmless, Spent, Bygone, Starting, Fresh, Busy,
     Idle, Over, At, T, Seen, Rev, Active, Admitted

\* Executions that a step leaves alone stay apart.
LEMMA BystandersStayApart ==
    ASSUME RunInv, BundleInv, [Next]_vars, Apart,
           \A f \in Executions : runs'[f] = runs[f] \/ runs'[f].stage = "idle"
    PROVE  Apart'
<1>1. ASSUME NEW f \in Executions
      PROVE  /\ ~Idle(f)' => ~Idle(f) /\ T(f)' = T(f)
             /\ ~Idle(f)' /\ Harmless(f) => Harmless(f)'
  <2>1. CASE runs'[f].stage = "idle"
    BY <2>1 DEF Idle
  <2>2. CASE runs'[f] = runs[f]
    <3>1. ~Idle(f) => SeenIsSound(f) /\ Remains(f)
      BY <2>2 DEF BundleInv, Remains
    <3>2. (~Idle(f)' <=> ~Idle(f)) /\ T(f)' = T(f)
      BY <2>2 DEF Idle, T
    <3> QED BY <3>1, <3>2, SpentStays
  <2> QED BY <2>1, <2>2
<1> QED BY <1>1 DEF Apart

\* A Task whose row, requests and timer a step leaves alone is minded as before, if its
\* executions are left to it.
LEMMA TaskStaysMinded ==
    ASSUME NEW t \in Tasks, Minded(t), server' = server,
           task'[t] = task[t], pending'[t] = pending[t], t \in timers' <=> t \in timers,
           \A f \in Executions :
              /\ ~Idle(f) /\ T(f) = t => runs'[f] = runs[f]
              /\ ~Idle(f)' /\ T(f)' = t => ~Idle(f) /\ T(f) = t
    PROVE  Minded(t)'
<1>1. RequestsFindWork(t)' /\ TimersAreForBundles(t)'
  BY DEF Minded, RequestsFindWork, TimersAreForBundles
<1>2. Busy(t)' => Busy(t)
  BY DEF Busy, T
<1>3. RequestsComeFirst(t)'
  BY <1>2 DEF Minded, RequestsComeFirst
<1>4. \A f \in Executions : Attends(f, t) => Attends(f, t)'
  BY DEF Attends, T, Idle, Over, At, Seen
<1>5. IsAttended(t)'
  BY <1>4 DEF Minded, IsAttended, Active, Admitted
<1> QED BY <1>1, <1>3, <1>5 DEF Minded

\* A new Task has no execution and no timer, and is requested.
LEMMA SubmitKeepsAttendance ==
    ASSUME RunInv, BundleInv, [RunNext]_allVars, AttendanceInv, NEW t \in Tasks, Submit(t)
    PROVE  AttendanceInv'
<1>1. [Next]_vars /\ IInv
  BY SystemTakesSteps DEF RunInv
<1>2. /\ ~Admitted(t) /\ task'[t] = NewTask(t) /\ \A u \in Tasks \ {t} : task'[u] = task[u]
      /\ UNCHANGED <<runs, server, timers>> /\ server = "up"
      /\ pending'[t] = "deduplicated" /\ \A u \in Tasks \ {t} : pending'[u] = pending[u]
  BY <1>1, AdmittedActive DEF Submit, RunInv, RunTypeOK
<1>3. ASSUME NEW f \in Executions, ~Idle(f)' PROVE Minds(f)'
  <2>1. ~Idle(f) /\ T(f) \in Tasks \ {t} /\ runs'[f] = runs[f] /\ SeenIsSound(f) /\ Minds(f)
    BY <1>2, <1>3, Working DEF Idle, BundleInv, AttendanceInv
  <2> QED BY <1>1, <1>2, <2>1, BystanderMinds
<1>4. ASSUME NEW u \in Tasks \ {t}, Admitted(u)' PROVE Minded(u)'
  <2>1. Minded(u)
    BY <1>2, <1>4 DEF Admitted, AttendanceInv
  <2>2. \A f \in Executions :
              /\ ~Idle(f) /\ T(f) = u => runs'[f] = runs[f]
              /\ ~Idle(f)' /\ T(f)' = u => ~Idle(f) /\ T(f) = u
    BY <1>2 DEF Idle, T
  <2> QED BY <1>2, <2>1, <2>2, TaskStaysMinded
<1>5. Minded(t)'
  <2>1. ~RetryWait(task'[t])
    BY <1>2 DEF NewTask, RetryWait
  <2>2. ~Busy(t) /\ t \notin timers
    BY <1>2, Working DEF Busy, RunInv, T
  <2>3. ~Busy(t)'
    BY <1>2, <2>2 DEF Busy, Idle
  <2> QED BY <1>2, <2>1, <2>2, <2>3
          DEF Minded, RequestsFindWork, RequestsComeFirst, TimersAreForBundles, IsAttended
<1>6. Apart'
  BY <1>1, <1>2, BystandersStayApart DEF AttendanceInv
<1>7. Rests'
  BY <1>2 DEF AttendanceInv, Rests
<1> QED BY <1>3, <1>4, <1>5, <1>6, <1>7 DEF AttendanceInv

\* The operator's retry: whoever saw the wait has nothing left to write, and whoever has
\* yet to read the row finds an approved bundle to deliver.
LEMMA RetryKeepsAttendance ==
    ASSUME RunInv, RunInv', OneLiveExecution, BundleInv, [RunNext]_allVars, AttendanceInv,
           NEW t \in Tasks, OperatorRetry(t)
    PROVE  AttendanceInv'
<1> DEFINE r == task[t]
           n == task'[t]
<1>1. [Next]_vars /\ IInv
  BY SystemTakesSteps DEF RunInv
<1>2. /\ Active(t) /\ RetryWait(r)
      /\ \/ IsTerminalState(n.state)
         \/ /\ n.state = r.waiting.resumeState
            /\ n.state \in ResumeStates
            /\ n.review = r.review
      /\ n.state # "waiting"
      /\ n.revision = r.revision + 1
      /\ \A u \in Tasks \ {t} : task'[u] = task[u]
  BY <1>1, RetriedStates DEF OperatorRetry
<1>3. /\ UNCHANGED <<runs, server, timers>> /\ server = "up" /\ pending[t] = "none"
      /\ pending'[t] = (IF IsTerminalState(n.state) THEN "none" ELSE "replace")
      /\ \A u \in Tasks \ {t} : pending'[u] = pending[u]
  BY DEF OperatorRetry, RunInv, RunTypeOK
<1>4. Admitted(t) /\ r \in TaskResult /\ SoundWait(r) /\ SoundProgress(r) /\ n # Null
  BY <1>1, <1>2, StaysAdmitted DEF Active, IInv, Rows, RowInv, Admitted
<1>5. ApprovedReview(r) => ApprovedReview(n)
  BY <1>4, BundleStays
<1>6. ApprovedReview(r) => IsTerminalState(n.state) \/ ForDelivery(n)
  BY <1>2, <1>4 DEF SoundProgress, Stands, ApprovedReview, ForDelivery, RetryWait, Active
<1>7. ~RetryWait(n)
  BY <1>2 DEF RetryWait
<1>8. ASSUME NEW f \in Executions, ~Idle(f), T(f) = t PROVE Minds(f)'
  <2>1. Remains(f) /\ SeenIsSound(f) /\ Minds(f) /\ T(f)' = t /\ Seen(f)' = Seen(f)
    BY <1>3, <1>8 DEF Remains, BundleInv, AttendanceInv, T, Seen
  <2>2. /\ Spent(f) => Spent(f)'
        /\ Harmless(f) => Harmless(f)'
    BY <1>1, <1>8, <2>1, SpentStays
  <2>3. ~Fresh(f)'
    BY <1>1, <1>2, <1>4, <1>8, <2>1, FreshWas DEF TaskResult, Remains
  <2>4. Fresh(f) => Seen(f) = r
    BY <1>8, <2>1 DEF SeenIsSound, Fresh
  <2>5. Spent(f)'
    <3>1. CASE Spent(f)
      BY <2>2, <3>1
    <3>2. CASE runs[f].stage \in {"loop", "resuming"} /\ Fresh(f)
      <4>1. Bygone(f)'
        BY <1>2, <2>1, <2>3, <2>4, <3>2 DEF Bygone
      <4> QED BY <2>1, <3>2, <4>1 DEF Spent, Remains
    <3> QED BY <1>2, <1>8, <2>1, <3>1, <3>2 DEF Minds, LeavesWaits
  <2>6. Starting(f)' => ApprovedReview(r)
    BY <1>2, <1>3, <1>8, <2>1 DEF Minds, LeavesWaits, Starting
  <2>7. StopsWhenTold(f)'
    BY <1>3, <2>1, <2>2 DEF Minds, StopsWhenTold
  <2>8. LeavesWaits(f)'
    BY <1>7, <2>1 DEF LeavesWaits
  <2>9. IsReplaced(f)'
    BY <1>6, <2>1, <2>5, <2>6 DEF IsReplaced, Active
  <2>10. EndsApproved(f)'
    BY <1>3, <1>5, <1>8, <2>1 DEF Minds, EndsApproved, At
  <2>11. ActsOnTheRow(f)'
    BY <1>3, <2>1 DEF ActsOnTheRow, Active
  <2>12. ResumesItsWait(f)'
    BY <1>2, <1>3, <2>1 DEF Minds, ResumesItsWait, At
  <2> QED BY <2>7, <2>8, <2>9, <2>10, <2>11, <2>12 DEF Minds
<1>9. ASSUME NEW f \in Executions, ~Idle(f)' PROVE Minds(f)'
  <2>1. ~Idle(f) /\ T(f) \in Tasks /\ runs'[f] = runs[f] /\ SeenIsSound(f) /\ Minds(f)
    BY <1>3, <1>9, Working DEF Idle, BundleInv, AttendanceInv
  <2>2. CASE T(f) # t
    BY <1>1, <1>2, <1>3, <2>1, <2>2, BystanderMinds
  <2> QED BY <1>8, <2>1, <2>2
<1>10. ASSUME NEW u \in Tasks \ {t}, Admitted(u)' PROVE Minded(u)'
  <2>1. Minded(u)
    BY <1>2, <1>10 DEF Admitted, AttendanceInv
  <2>2. \A f \in Executions :
              /\ ~Idle(f) /\ T(f) = u => runs'[f] = runs[f]
              /\ ~Idle(f)' /\ T(f)' = u => ~Idle(f) /\ T(f) = u
    BY <1>3 DEF Idle, T
  <2> QED BY <1>2, <1>3, <2>1, <2>2, TaskStaysMinded
<1>11. Minded(t)'
  <2>1. Minded(t)
    BY <1>4 DEF AttendanceInv
  <2>2. RequestsFindWork(t)' /\ RequestsComeFirst(t)'
    BY <1>3, <1>7 DEF RequestsFindWork, RequestsComeFirst
  <2>3. TimersAreForBundles(t)'
    BY <1>3, <1>5, <2>1 DEF Minded, TimersAreForBundles
  <2>4. IsAttended(t)'
    BY <1>3 DEF IsAttended, Active
  <2> QED BY <2>2, <2>3, <2>4 DEF Minded
<1>12. Apart'
  BY <1>1, <1>3, BystandersStayApart DEF AttendanceInv
<1>13. Rests'
  BY <1>3 DEF AttendanceInv, Rests
<1> QED BY <1>9, <1>10, <1>11, <1>12, <1>13 DEF AttendanceInv

\* The executions that a launch of e leaves.
Launched(e, t) ==
    runs' = [f \in Executions |->
               CASE f = e -> StartedRun(t)
                 [] f # e /\ runs[f].task = t -> [runs[f] EXCEPT !.aborted = TRUE]
                 [] OTHER -> runs[f]]

\* A launch starts an execution for its Task where every other one has nothing left to
\* write but the Task's end, and a wait it finds is an approved bundle's.
LEMMA StartKeepsAttendance ==
    ASSUME RunInv, BundleInv, [RunNext]_allVars, AttendanceInv, NEW t \in Tasks, Admitted(t),
           UNCHANGED <<vars, server>>, server = "up",
           pending'[t] = "none", \A u \in Tasks \ {t} : pending'[u] = pending[u],
           timers' = timers \ {t},
           NEW e \in Executions, Idle(e), Launched(e, t),
           RetryWait(task[t]) => ApprovedReview(task[t]),
           \A f \in Executions : ~Idle(f) /\ T(f) = t => Spent(f) /\ ~At(f, "resuming")
    PROVE  AttendanceInv'
<1>1. [Next]_vars /\ IInv /\ task' = task
  BY SystemTakesSteps DEF RunInv, vars
<1>2. /\ runs \in [Executions -> Run]
      /\ \A f \in Executions : Idle(f) <=> T(f) = Null
  BY DEF RunInv, RunTypeOK
<1>3. /\ runs'[e].stage = "prelude" /\ runs'[e].task = t /\ runs'[e].aborted = FALSE
  BY FreshRuns DEF Launched
<1>4. ASSUME NEW f \in Executions, f # e
      PROVE  /\ T(f) # t => runs'[f] = runs[f]
             /\ T(f) = t => Remains(f) /\ runs'[f].aborted
             /\ (Idle(f)' <=> Idle(f)) /\ T(f)' = T(f)
  <2>1. CASE T(f) = t
    <3>1. runs'[f] = [runs[f] EXCEPT !.aborted = TRUE] /\ runs[f] \in Run
      BY <1>2, <1>4, <2>1 DEF Launched, T
    <3>2. /\ runs'[f].stage = runs[f].stage /\ runs'[f].task = runs[f].task
          /\ runs'[f].seen = runs[f].seen /\ runs'[f].aborted = TRUE
      BY <3>1 DEF Run
    <3> QED BY <2>1, <3>2 DEF Remains, Idle, T
  <2>2. CASE T(f) # t
    <3>1. runs'[f] = runs[f]
      BY <1>4, <2>2 DEF Launched, T
    <3> QED BY <2>2, <3>1 DEF Idle, T
  <2> QED BY <2>1, <2>2
<1>5. T(e)' = t /\ ~Idle(e)' /\ Spent(e)' /\ ~runs'[e].aborted /\ T(e) # t
  BY <1>2, <1>3, RunNullAssumption DEF T, Idle, Spent
<1>6. Minds(e)'
  <2>1. StopsWhenTold(e)'
    BY <1>5 DEF StopsWhenTold
  <2>2. LeavesWaits(e)'
    BY <1>1, <1>5 DEF LeavesWaits
  <2>3. IsReplaced(e)'
    BY <1>5 DEF IsReplaced
  <2>4. EndsApproved(e)' /\ ResumesItsWait(e)' /\ ActsOnTheRow(e)'
    BY <1>3 DEF EndsApproved, ResumesItsWait, ActsOnTheRow, At, Acting
  <2> QED BY <2>1, <2>2, <2>3, <2>4 DEF Minds
<1>7. ASSUME NEW f \in Executions, f # e, ~Idle(f), T(f) = t
      PROVE  Harmless(f)' /\ Minds(f)'
  <2>1. /\ Remains(f) /\ runs'[f].aborted /\ SeenIsSound(f) /\ Minds(f)
        /\ T(f)' = t /\ Seen(f)' = Seen(f)
    BY <1>4, <1>7 DEF BundleInv, AttendanceInv, Remains, Seen
  <2>2. Spent(f)'
    BY <1>1, <1>7, <2>1, SpentStays
  <2>3. ~At(f, "resuming")'
    BY <1>7, <2>1 DEF At, Remains
  <2>4. Harmless(f)' /\ ~Starting(f)'
    BY <2>1, <2>2, <2>3 DEF Harmless, Starting
  <2>5. EndsApproved(f)'
    BY <1>1, <1>7, <2>1 DEF Minds, EndsApproved, At, Remains
  <2>6. IsReplaced(f)'
    BY <2>1 DEF IsReplaced
  <2> QED BY <2>1, <2>2, <2>3, <2>4, <2>5, <2>6
          DEF Minds, StopsWhenTold, LeavesWaits, ActsOnTheRow, ResumesItsWait
<1>8. ASSUME NEW f \in Executions, ~Idle(f)' PROVE Minds(f)'
  <2>1. CASE f # e /\ T(f) # t
    <3>1. /\ ~Idle(f) /\ T(f) \in Tasks /\ runs'[f] = runs[f] /\ SeenIsSound(f) /\ Minds(f)
      BY <1>4, <1>8, <2>1, Working DEF BundleInv, AttendanceInv
    <3> QED BY <1>1, <2>1, <3>1, BystanderMinds
  <2> QED BY <1>4, <1>6, <1>7, <1>8, <2>1
<1>9. ASSUME NEW f \in Executions, ~Idle(f), Harmless(f) PROVE Harmless(f)'
  <2>1. CASE T(f) = t
    BY <1>5, <1>7, <1>9, <2>1
  <2>2. CASE T(f) # t
    <3>1. f # e /\ Remains(f) /\ SeenIsSound(f)
      BY <1>4, <1>9, <2>2 DEF Remains, BundleInv
    <3> QED BY <1>1, <1>9, <3>1, SpentStays
  <2> QED BY <2>1, <2>2
<1>10. Apart'
  <2> SUFFICES ASSUME NEW f \in Executions, NEW g \in Executions, f # g,
                      ~Idle(f)', ~Idle(g)', T(f)' = T(g)'
               PROVE  Harmless(f)' \/ Harmless(g)'
    BY DEF Apart
  <2>1. CASE f # e /\ g # e
    <3>1. Harmless(f) \/ Harmless(g)
      BY <1>4, <2>1 DEF AttendanceInv, Apart
    <3> QED BY <1>4, <1>9, <2>1, <3>1
  <2>2. CASE f = e
    BY <1>4, <1>5, <1>7, <2>2
  <2>3. CASE g = e
    BY <1>4, <1>5, <1>7, <2>3
  <2> QED BY <2>1, <2>2, <2>3
<1>11. ASSUME NEW u \in Tasks \ {t}, Admitted(u)' PROVE Minded(u)'
  <2>1. Minded(u)
    BY <1>1, <1>11 DEF Admitted, AttendanceInv
  <2>2. \A f \in Executions :
              /\ ~Idle(f) /\ T(f) = u => runs'[f] = runs[f]
              /\ ~Idle(f)' /\ T(f)' = u => ~Idle(f) /\ T(f) = u
    BY <1>4, <1>5
  <2> QED BY <1>1, <2>1, <2>2, TaskStaysMinded
<1>12. Minded(t)'
  <2>1. Attends(e, t)'
    BY <1>3, <1>5 DEF Attends, Over
  <2> QED BY <2>1
          DEF Minded, RequestsFindWork, RequestsComeFirst, TimersAreForBundles, IsAttended
<1>13. Rests'
  BY DEF Rests
<1> QED BY <1>8, <1>10, <1>11, <1>12, <1>13 DEF AttendanceInv

\* The launch that ends a request.
LEMMA LaunchKeepsAttendance ==
    ASSUME RunInv, BundleInv, [RunNext]_allVars, AttendanceInv, NEW t \in Tasks,
           CompleteLaunch(t)
    PROVE  AttendanceInv'
<1>1. /\ server = "up" /\ UNCHANGED <<vars, server>> /\ pending[t] # "none" /\ Admitted(t)
      /\ pending'[t] = "none" /\ \A u \in Tasks \ {t} : pending'[u] = pending[u]
  BY DEF CompleteLaunch, RunInv, RunTypeOK
<1>2. Minded(t) /\ pending[t] \in {"deduplicated", "replace"}
  BY <1>1 DEF AttendanceInv, RunInv, RunTypeOK, LaunchModes
<1>3. Launch(t, pending[t], timers)
  BY DEF CompleteLaunch
<1>4. pending[t] = "deduplicated" => ~Busy(t) /\ t \notin timers
  BY <1>2 DEF Minded, RequestsComeFirst
<1>5. timers' = timers \ {t} /\ \E e \in Executions : Idle(e) /\ Launched(e, t)
  BY <1>2, <1>3, <1>4 DEF Launch, Launched
<1>6. RetryWait(task[t]) => ApprovedReview(task[t])
  BY <1>1, <1>2 DEF Minded, RequestsFindWork
<1>7. \A f \in Executions : ~Idle(f) /\ T(f) = t => Spent(f) /\ ~At(f, "resuming")
  <2> SUFFICES ASSUME NEW f \in Executions, ~Idle(f), T(f) = t
               PROVE  Spent(f) /\ ~At(f, "resuming")
    OBVIOUS
  <2>1. pending[t] = "replace"
    BY <1>2, <1>4 DEF Busy, T
  <2>2. Spent(f)
    BY <2>1 DEF AttendanceInv, Minds, IsReplaced
  <2>3. ~At(f, "resuming")
    BY DEF CompleteLaunch, Requested, At, T
  <2> QED BY <2>2, <2>3
<1> QED BY <1>1, <1>5, <1>6, <1>7, StartKeepsAttendance

\* A timer fires: it launches, or finds an execution that has still to end.
LEMMA TimerKeepsAttendance ==
    ASSUME RunInv, BundleInv, [RunNext]_allVars, AttendanceInv, NEW t \in Tasks, FireTimer(t)
    PROVE  AttendanceInv'
<1>1. /\ server = "up" /\ UNCHANGED <<vars, server, pending>> /\ pending[t] = "none"
      /\ t \in timers /\ Admitted(t) /\ task' = task
  BY DEF FireTimer, RunInv, vars
<1>2. Minded(t)
  BY <1>1 DEF AttendanceInv
<1>3. CASE ~Busy(t)
  <2>1. timers' = timers \ {t} /\ \E e \in Executions : Idle(e) /\ Launched(e, t)
    BY <1>3 DEF FireTimer, Launch, Launched
  <2>2. RetryWait(task[t]) => ApprovedReview(task[t])
    BY <1>1, <1>2 DEF Minded, TimersAreForBundles
  <2>3. \A f \in Executions : ~Idle(f) /\ T(f) = t => Spent(f) /\ ~At(f, "resuming")
    BY <1>3 DEF Busy, T
  <2> QED BY <1>1, <2>1, <2>2, <2>3, StartKeepsAttendance
<1>4. CASE Busy(t)
  <2>1. timers' = timers \ {t} /\ UNCHANGED runs
    BY <1>4 DEF FireTimer, Launch
  <2>2. [Next]_vars
    BY SystemTakesSteps
  <2>3. Apart'
    BY <2>1, <2>2, BystandersStayApart DEF AttendanceInv
  <2>4. ASSUME NEW f \in Executions, ~Idle(f)' PROVE Minds(f)'
    <3>1. ~Idle(f) /\ runs'[f] = runs[f] /\ SeenIsSound(f) /\ Minds(f)
      BY <2>1, <2>4 DEF Idle, BundleInv, AttendanceInv
    <3> QED BY <1>1, <2>2, <3>1, BystanderMinds
  <2>5. ASSUME NEW u \in Tasks \ {t}, Admitted(u)' PROVE Minded(u)'
    <3>1. Minded(u)
      BY <1>1, <2>5 DEF Admitted, AttendanceInv
    <3>2. \A f \in Executions :
                /\ ~Idle(f) /\ T(f) = u => runs'[f] = runs[f]
                /\ ~Idle(f)' /\ T(f)' = u => ~Idle(f) /\ T(f) = u
      BY <2>1 DEF Idle, T
    <3> QED BY <1>1, <2>1, <3>1, <3>2, TaskStaysMinded
  <2>6. Minded(t)'
    <3>1. PICK f \in Executions : ~Idle(f) /\ T(f) = t
      BY <1>4 DEF Busy, T
    <3>2. runs[f].stage \in Serving \cup {"admit"} /\ ~runs[f].aborted
      BY <3>1 DEF FireTimer, T
    <3>3. Attends(f, t)'
      BY <2>1, <3>1, <3>2 DEF Attends, Serving, Over, Idle, T
    <3> QED BY <1>1, <2>1, <3>3
            DEF Minded, RequestsFindWork, RequestsComeFirst, TimersAreForBundles, IsAttended
  <2>7. Rests'
    BY <1>1 DEF Rests
  <2> QED BY <2>3, <2>4, <2>5, <2>6, <2>7 DEF AttendanceInv
<1> QED BY <1>3, <1>4

\* An execution that settles after a pipeline wait leaves the Task a timer.
LEMMA SettleKeepsAttendance ==
    ASSUME RunInv, BundleInv, [RunNext]_allVars, AttendanceInv,
           NEW e \in Executions, Settle(e), NEW t \in Tasks, T(e) = t
    PROVE  AttendanceInv'
<1>1. /\ [Next]_vars /\ UNCHANGED <<vars, server, pending>> /\ task' = task
      /\ ~Idle(e) /\ t \in Tasks /\ Admitted(t) /\ Minds(e)
  BY SystemTakesSteps, Working DEF Settle, Over, Idle, vars, AttendanceInv
<1>2. /\ runs'[e].stage = "idle"
      /\ \A f \in Executions \ {e} : runs'[f] = runs[f]
  BY FreshRuns DEF Settle, RunInv, RunTypeOK
<1>3. timers' = IF /\ At(e, "ended") /\ PipelineWait(Seen(e)) /\ server = "up"
                THEN timers \cup {t} ELSE timers
  BY DEF Settle, At, Seen, T
<1>4. Rests'
  BY <1>1, <1>2, <1>3 DEF AttendanceInv, Rests, Idle
<1>5. Apart'
  BY <1>1, <1>2, BystandersStayApart DEF AttendanceInv
<1>6. ASSUME NEW f \in Executions, ~Idle(f)' PROVE Minds(f)'
  <2>1. ~Idle(f) /\ runs'[f] = runs[f] /\ SeenIsSound(f) /\ Minds(f)
    BY <1>2, <1>6 DEF Idle, BundleInv, AttendanceInv
  <2> QED BY <1>1, <2>1, BystanderMinds
<1>7. ASSUME NEW u \in Tasks \ {t}, Admitted(u)' PROVE Minded(u)'
  <2>1. Minded(u)
    BY <1>1, <1>7 DEF Admitted, AttendanceInv
  <2>2. ASSUME NEW f \in Executions
        PROVE  /\ ~Idle(f) /\ T(f) = u => runs'[f] = runs[f]
               /\ ~Idle(f)' /\ T(f)' = u => ~Idle(f) /\ T(f) = u
    <3>1. CASE f = e
      BY <1>2, <3>1 DEF Idle
    <3>2. CASE f # e
      BY <1>2, <3>2 DEF Idle, T
    <3> QED BY <3>1, <3>2
  <2>3. u \in timers' <=> u \in timers
    BY <1>3, <1>7
  <2> QED BY <1>1, <2>1, <2>2, <2>3, TaskStaysMinded
<1>8. Minded(t)'
  <2>1. Minded(t) /\ Busy(t)
    BY <1>1 DEF AttendanceInv, Busy, T
  <2>2. RequestsFindWork(t)'
    BY <1>1, <2>1 DEF Minded, RequestsFindWork
  <2>3. RequestsComeFirst(t)'
    BY <1>1, <2>1 DEF Minded, RequestsComeFirst
  <2>4. TimersAreForBundles(t)'
    BY <1>1, <1>3, <2>1 DEF Minded, TimersAreForBundles, Minds, EndsApproved
  <2>5. IsAttended(t)'
    <3> SUFFICES ASSUME server = "up", Active(t), Restartable(task[t]), pending[t] = "none",
                        t \notin timers'
                 PROVE  \E f \in Executions : Attends(f, t)'
      BY <1>1 DEF IsAttended, Active, Admitted
    <3>1. t \notin timers /\ ~(At(e, "ended") /\ PipelineWait(Seen(e)))
      BY <1>3
    <3>2. PICK f \in Executions : Attends(f, t)
      BY <2>1, <3>1 DEF Minded, IsAttended
    <3>3. f # e
      BY <3>1, <3>2 DEF Attends, Settle
    <3>4. Attends(f, t)'
      BY <1>2, <3>2, <3>3 DEF Attends, T, Idle, Over, At, Seen
    <3> QED BY <3>4
  <2> QED BY <2>2, <2>3, <2>4, <2>5 DEF Minded
<1> QED BY <1>4, <1>5, <1>6, <1>7, <1>8 DEF AttendanceInv

\* A close tells every execution to stop; a server that is not up owes no attendance.
LEMMA CloseKeepsAttendance ==
    ASSUME RunInv, BundleInv, [RunNext]_allVars, AttendanceInv, Close
    PROVE  AttendanceInv'
<1>1. /\ [Next]_vars /\ UNCHANGED vars /\ task' = task /\ server' = "closing" /\ timers' = {}
      /\ \A t \in Tasks : pending'[t] = "none"
  BY SystemTakesSteps DEF Close, vars
<1>2. ASSUME NEW f \in Executions
      PROVE  /\ (Idle(f)' <=> Idle(f)) /\ T(f)' = T(f)
             /\ ~Idle(f) => Remains(f) /\ runs'[f].aborted
  <2>1. runs[f] \in Run
    BY DEF RunInv, RunTypeOK
  <2>2. CASE Idle(f)
    <3>1. runs'[f] = runs[f]
      BY <2>2 DEF Close
    <3> QED BY <2>2, <3>1 DEF Idle, T
  <2>3. CASE ~Idle(f)
    <3>1. runs'[f] = [runs[f] EXCEPT !.aborted = TRUE]
      BY <2>3 DEF Close
    <3>2. /\ runs'[f].stage = runs[f].stage /\ runs'[f].task = runs[f].task
          /\ runs'[f].seen = runs[f].seen /\ runs'[f].aborted = TRUE
      BY <2>1, <3>1 DEF Run
    <3> QED BY <2>3, <3>2 DEF Remains, Idle, T
  <2> QED BY <2>2, <2>3
<1>3. ASSUME NEW f \in Executions, ~Idle(f)
      PROVE  Minds(f)' /\ (Harmless(f) => Harmless(f)')
  <2>1. /\ Remains(f) /\ runs'[f].aborted /\ SeenIsSound(f) /\ Minds(f) /\ T(f) \in Tasks
        /\ T(f)' = T(f) /\ Seen(f)' = Seen(f)
    BY <1>2, <1>3, Working DEF BundleInv, AttendanceInv, Remains, Seen
  <2>2. /\ Spent(f) => Spent(f)'
        /\ Harmless(f) => Harmless(f)'
    BY <1>1, <1>3, <2>1, SpentStays
  <2>3. Fresh(f) => Fresh(f)'
    BY <1>1, <2>1 DEF Fresh, Seen, Rev, Remains
  <2>4. StopsWhenTold(f)' /\ ActsOnTheRow(f)'
    BY <1>1 DEF StopsWhenTold, ActsOnTheRow
  <2>5. LeavesWaits(f)'
    BY <1>1, <2>1, <2>2, <2>3 DEF Minds, LeavesWaits, Starting, Remains
  <2>6. IsReplaced(f)'
    BY <1>1, <2>1 DEF IsReplaced
  <2>7. EndsApproved(f)' /\ ResumesItsWait(f)'
    BY <1>1, <2>1, <2>3 DEF Minds, EndsApproved, ResumesItsWait, At, Remains
  <2> QED BY <2>2, <2>4, <2>5, <2>6, <2>7 DEF Minds
<1>4. Apart'
  BY <1>2, <1>3 DEF AttendanceInv, Apart
<1>5. ASSUME NEW t \in Tasks PROVE Minded(t)'
  BY <1>1 DEF Minded, RequestsFindWork, RequestsComeFirst, TimersAreForBundles, IsAttended
<1>6. Rests'
  BY <1>1 DEF Rests
<1> QED BY <1>2, <1>3, <1>4, <1>5, <1>6 DEF AttendanceInv

\* A server that is down, or has just started again, runs nothing yet.
LEMMA ServersKeepAttendance ==
    ASSUME RunInv, BundleInv, AttendanceInv, Closed \/ Crash \/ Restart
    PROVE  AttendanceInv'
<1>1. task' = task /\ timers' = {}
  BY DEF Closed, Crash, Restart, vars, AttendanceInv, Rests
<1>2. \A f \in Executions : Idle(f)'
  BY FreshRuns DEF Closed, Crash, Restart, AttendanceInv, Rests, Idle
<1>3. Rests'
  BY <1>1, <1>2 DEF Rests, Closed, Crash, Restart, AttendanceInv
<1>4. Apart' /\ \A f \in Executions : ~Idle(f)' => Minds(f)'
  BY <1>2 DEF Apart
<1>5. ASSUME NEW t \in Tasks, Admitted(t)' PROVE Minded(t)'
  <2>1. ~Busy(t)'
    BY <1>2 DEF Busy, Idle
  <2>2. RequestsComeFirst(t)' /\ TimersAreForBundles(t)'
    BY <1>1, <2>1 DEF RequestsComeFirst, TimersAreForBundles
  <2>3. CASE Restart
    <3>1. pending'[t] = IF Admitted(t) /\ Restartable(task[t]) THEN "deduplicated" ELSE "none"
      BY <2>3 DEF Restart
    <3>2. PipelineWait(task[t]) /\ Admitted(t) => ApprovedReview(task[t])
      BY WaitsAreApproved DEF RunInv
    <3>3. RequestsFindWork(t)'
      BY <1>1, <3>1, <3>2
         DEF RequestsFindWork, Restartable, Launchable, ReviewWait, RetryWait
    <3>4. IsAttended(t)'
      BY <1>1, <1>5, <3>1 DEF IsAttended, Admitted
    <3> QED BY <2>2, <3>3, <3>4 DEF Minded
  <2>4. CASE Closed \/ Crash
    <3>1. server' # "up" /\ pending'[t] = "none"
      BY <2>4 DEF Closed, Crash, AttendanceInv, Rests
    <3> QED BY <2>2, <3>1 DEF Minded, RequestsFindWork, IsAttended
  <2> QED BY <2>3, <2>4
<1> QED BY <1>3, <1>4, <1>5 DEF AttendanceInv

\* Every step keeps the invariant, where no contract is submitted again.
LEMMA AttendanceInductive ==
    ASSUME Resubmitted = {},
           RunInv, RunInv', OneLiveExecution, BundleInv, [RunNext]_allVars, AttendanceInv
    PROVE  AttendanceInv'
<1>1. ASSUME NEW t \in Tasks,
             \/ Submit(t) \/ Resubmit(t) \/ OperatorRetry(t)
             \/ CompleteLaunch(t) \/ FireTimer(t) \/ Deadline(t)
      PROVE  AttendanceInv'
  <2>1. CASE Submit(t)
    BY <2>1, SubmitKeepsAttendance
  <2>2. ~Resubmit(t)
    BY DEF Resubmit
  <2>3. CASE OperatorRetry(t)
    BY <2>3, RetryKeepsAttendance
  <2>4. CASE CompleteLaunch(t)
    BY <2>4, LaunchKeepsAttendance
  <2>5. CASE FireTimer(t)
    BY <2>5, TimerKeepsAttendance
  <2>6. CASE Deadline(t)
    <3>1. UNCHANGED <<task, runs, server, timers, pending>>
      BY <2>6 DEF Deadline, PassDeadline, runVars
    <3> QED BY <3>1, SameAttendance
  <2> QED BY <1>1, <2>1, <2>2, <2>3, <2>4, <2>5, <2>6
<1>2. ASSUME NEW e \in Executions, ExecutionStep(e) PROVE AttendanceInv'
  BY <1>2, ExecutionKeepsAttendance
<1>3. ASSUME NEW e \in Executions, Settle(e) PROVE AttendanceInv'
  <2>1. T(e) \in Tasks
    BY <1>3, Working DEF Settle, Over, Idle
  <2> QED BY <1>3, <2>1, SettleKeepsAttendance
<1>4. CASE Close
  BY <1>4, CloseKeepsAttendance
<1>5. CASE Closed \/ Crash \/ Restart
  BY <1>5, ServersKeepAttendance
<1>6. CASE UNCHANGED allVars
  <2>1. UNCHANGED <<task, runs, server, timers, pending>>
    BY <1>6 DEF allVars
  <2> QED BY <2>1, SameAttendance
<1> QED BY <1>1, <1>2, <1>3, <1>4, <1>5, <1>6 DEF RunNext

\* The initial state has it.
LEMMA AttendanceInitially == RunInit => AttendanceInv
<1> SUFFICES ASSUME RunInit PROVE AttendanceInv
  OBVIOUS
<1>1. \A e \in Executions : Idle(e)
  BY FreshRuns DEF RunInit, Idle
<1>2. \A t \in Tasks : ~Admitted(t)
  BY DEF RunInit, Init, Admitted
<1> QED BY <1>1, <1>2 DEF AttendanceInv, Rests, Apart, RunInit

\* Where no caller submits a contract again, at most one execution of a Task acts, it
\* acts on the row as it is, and a Task the server may continue is attended: by an
\* execution, a launch under way or a timer (server.ts, launchTask and its callers).
THEOREM AttendanceInvariance ==
    ASSUME Resubmitted = {}
    PROVE  RunSpec => []AttendanceInv
  BY AttendanceInitially, AttendanceInductive, RunInvariance, ExecutionsReplaceEachOther,
     BundleInvariance, PTL DEF RunSpec

\* While the server is up, a Task that may continue without the operator has an
\* execution, a launch under way or an armed timer.
THEOREM TasksAreAttended ==
    ASSUME Resubmitted = {}
    PROVE  RunSpec => []NoTaskIsStranded
<1>1. RunInv /\ AttendanceInv => NoTaskIsStranded
  <2> SUFFICES ASSUME RunInv, AttendanceInv, server = "up", NEW t \in Tasks, Active(t),
                      Restartable(task[t]), pending[t] = "none", t \notin timers
               PROVE  Busy(t)
    BY DEF NoTaskIsStranded
  <2>1. Minded(t)
    BY DEF AttendanceInv, Active
  <2>2. \E f \in Executions : Attends(f, t)
    BY <2>1 DEF Minded, IsAttended
  <2> QED BY <2>2 DEF Attends, Busy, T
<1> QED BY <1>1, RunInvariance, AttendanceInvariance, PTL

\* A wait for the operator ends by the operator's retry or with the Task: no execution,
\* timer or restart resumes it.
THEOREM OperatorWaitsAreKept ==
    ASSUME Resubmitted = {}
    PROVE  RunSpec => OperatorWaitsResumeByRetry
<1>1. ASSUME RunInv, BundleInv, AttendanceInv, RunNext, NEW t \in Tasks,
             OperatorWait(t), task'[t] # task[t]
      PROVE  IsTerminalState(task'[t].state) \/ pending'[t] = "replace"
  <2>1. /\ RetryWait(task[t]) /\ ~PipelineWait(task[t]) /\ IInv /\ Admitted(t)
        /\ [RunNext]_allVars
    BY <1>1 DEF OperatorWait, RetryWait, PipelineWait, RunInv
  <2>2. ASSUME NEW e \in Executions, ExecutionStep(e) PROVE IsTerminalState(task'[t].state)
    <3>1. t = T(e)
      BY <1>1, <2>2, OthersStay
    <3>2. ~Idle(e) /\ SeenIsSound(e) /\ Minds(e)
      BY <1>1, <2>2, StepsAreNotIdle DEF ExecutionStep, BundleInv, AttendanceInv
    <3> QED BY <1>1, <2>1, <2>2, <3>1, <3>2, StepsRespect DEF Respects
  <2>3. ASSUME NEW u \in Tasks, Submit(u) PROVE FALSE
    <3>1. t # u /\ task'[t] = task[t]
      BY <2>1, <2>3, AdmittedActive DEF Submit
    <3> QED BY <1>1, <3>1
  <2>4. ASSUME NEW u \in Tasks, OperatorRetry(u)
        PROVE  IsTerminalState(task'[t].state) \/ pending'[t] = "replace"
    <3>1. t = u
      BY <1>1, <2>1, <2>4, RetriedStates DEF OperatorRetry
    <3> QED BY <1>1, <2>4, <3>1 DEF OperatorRetry, RunInv, RunTypeOK
  <2>5. ASSUME NEW u \in Tasks, Resubmit(u) PROVE FALSE
    BY <2>5 DEF Resubmit
  <2>6. ASSUME \/ \E u \in Tasks : CompleteLaunch(u) \/ FireTimer(u) \/ Deadline(u)
               \/ \E e \in Executions : Settle(e)
               \/ Close \/ Closed \/ Crash \/ Restart
        PROVE  FALSE
    <3>1. task' = task
      BY <2>6 DEF CompleteLaunch, FireTimer, Deadline, PassDeadline, Settle, Close, Closed, Crash,
         Restart, vars
    <3> QED BY <1>1, <3>1
  <2> QED BY <1>1, <2>2, <2>3, <2>4, <2>5, <2>6 DEF RunNext
<1>2. RunInv /\ BundleInv /\ AttendanceInv /\ [RunNext]_allVars
      => [\A t \in Tasks :
            OperatorWait(t) /\ task'[t] # task[t] =>
                IsTerminalState(task'[t].state) \/ pending'[t] = "replace"]_allVars
  BY <1>1
<1> QED
  BY <1>2, RunInvariance, BundleInvariance, AttendanceInvariance, PTL
     DEF RunSpec, OperatorWaitsResumeByRetry
====
