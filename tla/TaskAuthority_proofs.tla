---- MODULE TaskAuthority_proofs ----
(***************************************************************************)
(* Theorems about Task Authority, for every set of Tasks, Repositories and *)
(* owners, every budget and every bound.                                   *)
(***************************************************************************)
EXTENDS TaskAuthority, FiniteSetTheorems, TLAPS

(***************************************************************************)
(* The inductive invariant of one row.                                     *)
(***************************************************************************)

\* Reservations, fences and candidates go together: the active reservation is
\* the newest one, no candidate's fence is newer, and an active reservation has
\* not produced the candidate yet.
SoundFences(r) ==
    /\ r.candidateFence <= r.implementerActivations
    /\ r.activeActivation # 0 =>
          /\ r.activeActivation = r.implementerActivations
          /\ r.candidateFence < r.activeActivation
    /\ r.candidateSha = 0 => r.candidateFence = 0
    /\ r.candidateSha \in 0..MaxCommit

\* Where a row is, or will be when its wait is over.
Stands(r, s) == r.state = s \/ (r.state = "waiting" /\ r.waiting.resumeState = s)

RequestsChanges(r) == r.review # Null /\ r.review.verdict = "changes_requested"

\* What each place of the row stands on: a Task that still implements has no
\* candidate, one in review has a passing check, a review is kept only where it is
\* acted upon; and the candidates before this one pay for the batches before its own.
SoundProgress(r) ==
    /\ r.candidateSha # 0 => r.candidateFence > 0
    /\ Stands(r, "admitted") => r.candidateSha = 0
    /\ Stands(r, "reviewing") => PassingCheck(r)
    /\ ~IsTerminalState(r.state) => (r.review # Null <=> Stands(r, "reviewed"))
    /\ r.repairBatchRecorded => RequestsChanges(r)
    /\ r.changesRequestedBatches <=
          (IF r.candidateFence > 0 THEN r.candidateFence - 1 ELSE 0)
              + (IF r.repairBatchRecorded THEN 1 ELSE 0)

RowInv(t, r) ==
    /\ r \in TaskResult
    /\ r.mergeAuthorized <=> t \in MergeAuthorized
    /\ SoundFences(r)
    /\ SoundEvidence(t, r)
    /\ SoundWait(r)
    /\ SoundAccounts(t, r)
    /\ SoundProgress(r)

\* What a fact may do to a row: a new candidate is the newest reservation's.
RowStep(r, next) ==
    next.candidateSha # r.candidateSha =>
        /\ next.candidateFence = r.implementerActivations
        /\ next.candidateFence > r.candidateFence
        /\ next.candidateSha > r.candidateSha

(***************************************************************************)
(* Each fact the reducer accepts gives a TaskResult.                       *)
(***************************************************************************)

\* An accepted candidate gives a TaskResult.
LEMMA CandidateType ==
    ASSUME NEW r \in TaskResult, NEW sha \in Nat, NEW fence \in Nat
    PROVE  ApplyCandidate(r, sha, fence) \in TaskResult
  BY DEF TaskResult, ApplyCandidate, States, ResumeStates

\* A check gives a TaskResult.
LEMMA CheckType ==
    ASSUME NEW r \in TaskResult, NEW check \in CheckResult
    PROVE  ApplyCheck(r, check) \in TaskResult
  BY DEF TaskResult, ApplyCheck, States, ResumeStates

\* A review gives a TaskResult.
LEMMA ReviewType ==
    ASSUME NEW r \in TaskResult, NEW review \in ReviewVerdict
    PROVE  ApplyReview(r, review) \in TaskResult
  BY DEF TaskResult, ApplyReview, States, ResumeStates

\* A started review attempt gives a TaskResult.
LEMMA ReviewStartedType ==
    ASSUME NEW r \in TaskResult, NEW owner \in Owners
    PROVE  ApplyReviewStarted(r, owner) \in TaskResult
<1>1. r.reviewCycles + 1 \in Nat
  BY DEF TaskResult
<1> QED BY <1>1 DEF TaskResult, ApplyReviewStarted, States, ResumeStates

\* A released review attempt gives a TaskResult: the cycle count stays natural.
LEMMA ReviewReleasedType ==
    ASSUME NEW r \in TaskResult
    PROVE  ApplyReviewReleased(r) \in TaskResult
<1> DEFINE cycles == IF r.reviewCycles > 0 THEN r.reviewCycles - 1 ELSE 0
<1>1. cycles \in Nat
  BY DEF TaskResult
<1>2. ApplyReviewReleased(r) =
        [r EXCEPT !.state = "checked", !.waiting = Null, !.review = Null,
                  !.repairBatchRecorded = FALSE, !.reviewAttempt = Null,
                  !.delivery = Null, !.blocker = Null, !.reviewCycles = cycles]
  BY DEF ApplyReviewReleased
<1> HIDE DEF cycles
<1> QED BY <1>1, <1>2 DEF TaskResult, States, ResumeStates

\* An interrupted review gives a TaskResult.
LEMMA ReviewInterruptedType ==
    ASSUME NEW r \in TaskResult, NEW c \in FailureClasses
    PROVE  /\ ApplyReviewInterrupted(r, c) \in TaskResult
           /\ ApplyReviewInterrupted(r, c).waiting \in TaskWaiting
<1>1. [reason |-> "review_interruption", resumeState |-> "reviewing",
       activation |-> r.candidateFence, failureClass |-> c] \in TaskWaiting
  BY DEF TaskWaiting, TaskResult, WaitingReasons, ResumeStates
<1> QED BY <1>1 DEF TaskResult, ApplyReviewInterrupted, States

\* A delivery gives a TaskResult.
LEMMA DeliveryType ==
    ASSUME NEW r \in TaskResult, NEW delivery \in DeliveryEffect
    PROVE  ApplyDelivery(r, delivery) \in TaskResult
<1>1. DeliveredState(delivery) \in States
  BY DEF DeliveredState, States, TerminalStates
<1> QED BY <1>1 DEF TaskResult, ApplyDelivery

\* A repair batch gives a TaskResult.
LEMMA RepairBatchType ==
    ASSUME NEW r \in TaskResult
    PROVE  ApplyRepairBatch(r) \in TaskResult
<1>1. r.changesRequestedBatches + 1 \in Nat
  BY DEF TaskResult
<1> QED BY <1>1 DEF TaskResult, ApplyRepairBatch

\* A wait gives a TaskResult.
LEMMA WaitingType ==
    ASSUME NEW r \in TaskResult, NEW reason \in RetryReasons,
           NEW resumeState \in ResumeStates, NEW activation \in Nat
    PROVE  /\ ApplyWaiting(r, reason, resumeState, activation) \in TaskResult
           /\ ApplyWaiting(r, reason, resumeState, activation).waiting \in TaskWaiting
<1>1. [reason |-> reason, resumeState |-> resumeState,
       activation |-> activation, failureClass |-> Null] \in TaskWaiting
  BY DEF TaskWaiting, WaitingReasons
<1> QED BY <1>1 DEF TaskResult, ApplyWaiting, States

\* The retry of a wait gives a TaskResult.
LEMMA RetryType ==
    ASSUME NEW r \in TaskResult, r.waiting # Null
    PROVE  ApplyRetry(r) \in TaskResult
<1>1. r.waiting.resumeState \in States
  BY DEF TaskResult, TaskWaiting, States
<1> QED BY <1>1 DEF TaskResult, ApplyRetry

\* A blocker gives a TaskResult.
LEMMA BlockedType ==
    ASSUME NEW r \in TaskResult, NEW blocker \in Blockers
    PROVE  ApplyBlocked(r, blocker) \in TaskResult
  BY DEF TaskResult, ApplyBlocked, States, TerminalStates

\* A reserved activation gives a TaskResult.
LEMMA ActivationType ==
    ASSUME NEW r \in TaskResult
    PROVE  ApplyActivation(r) \in TaskResult
<1>1. r.implementerActivations + 1 \in Nat
  BY DEF TaskResult
<1>2. r.restartRecoveries + (IF r.activeActivation # 0 THEN 1 ELSE 0) \in Nat
  BY DEF TaskResult
<1> QED BY <1>1, <1>2 DEF TaskResult, ApplyActivation

(***************************************************************************)
(* Each fact the reducer accepts keeps the row's invariant.                *)
(***************************************************************************)

\* A candidate accepted from the active reservation keeps the row sound.
LEMMA CandidateKeepsRow ==
    ASSUME NEW t \in Tasks, NEW r, RowInv(t, r),
           NEW sha \in Commits, NEW baseSha \in 0..MaxCommit, NEW fence \in Nat,
           baseSha < sha, AcceptsCandidate(r, sha, baseSha, fence)
    PROVE  /\ RowInv(t, ApplyCandidate(r, sha, fence))
           /\ RowStep(r, ApplyCandidate(r, sha, fence))
<1> DEFINE n == ApplyCandidate(r, sha, fence)
<1>1. n \in TaskResult
  BY CandidateType, BudgetsAssumption DEF RowInv, Commits
<1>2. SoundFences(n) /\ RowStep(r, n)
  BY BudgetsAssumption DEF RowInv, TaskResult, ApplyCandidate, Commits, SoundFences,
     AcceptsCandidate, RowStep
<1>3. SoundEvidence(t, n)
  BY DEF RowInv, TaskResult, ApplyCandidate, SoundEvidence
<1>4. SoundWait(n)
  BY DEF RowInv, TaskResult, ApplyCandidate, SoundWait, AcceptsCandidate, CanTransition
<1>5. SoundAccounts(t, n)
  BY DEF RowInv, TaskResult, ApplyCandidate, SoundAccounts, PendingBatch
<1>6. n.mergeAuthorized <=> t \in MergeAuthorized
  BY DEF RowInv, TaskResult, ApplyCandidate
<1>7. SoundProgress(n)
  <2>1. /\ n.state = "candidate" /\ n.waiting = r.waiting /\ n.check = Null
        /\ n.review = Null /\ n.candidateSha = sha /\ n.candidateFence = fence
        /\ n.repairBatchRecorded = FALSE
        /\ n.changesRequestedBatches = r.changesRequestedBatches
    BY DEF RowInv, TaskResult, ApplyCandidate
  <2> HIDE DEF n
  <2>2. fence > r.candidateFence /\ fence > 0
    BY DEF RowInv, SoundFences, AcceptsCandidate, TaskResult
  <2>3. r.repairBatchRecorded => r.candidateFence > 0
    BY DEF RowInv, SoundProgress, RequestsChanges, SoundEvidence, PassingCheck
  <2>4. r.changesRequestedBatches <= fence - 1
    BY <2>2, <2>3 DEF RowInv, SoundProgress, TaskResult
  <2> QED BY <2>1, <2>2, <2>4 DEF SoundProgress, Stands, RequestsChanges, PassingCheck
<1> QED BY <1>1, <1>2, <1>3, <1>4, <1>5, <1>6, <1>7 DEF RowInv

\* A check of the current candidate keeps the row sound.
LEMMA CheckKeepsRow ==
    ASSUME NEW t \in Tasks, NEW r, RowInv(t, r), NEW check \in CheckResult,
           AcceptsCheck(r, check)
    PROVE  RowInv(t, ApplyCheck(r, check)) /\ RowStep(r, ApplyCheck(r, check))
<1> DEFINE n == ApplyCheck(r, check)
<1>1. n \in TaskResult
  BY CheckType DEF RowInv
<1>2. SoundFences(n) /\ RowStep(r, n)
  BY DEF RowInv, TaskResult, ApplyCheck, SoundFences, RowStep
<1>3. SoundEvidence(t, n)
  BY DEF RowInv, TaskResult, ApplyCheck, SoundEvidence, AcceptsCheck, CanTransition
<1>4. SoundWait(n)
  BY DEF RowInv, TaskResult, ApplyCheck, SoundWait, AcceptsCheck, CanTransition
<1>5. SoundAccounts(t, n)
  BY DEF RowInv, TaskResult, ApplyCheck, SoundAccounts, PendingBatch
<1>6. n.mergeAuthorized <=> t \in MergeAuthorized
  BY DEF RowInv, TaskResult, ApplyCheck
<1>7. SoundProgress(n)
  <2>1. /\ n.state = "checked" /\ n.waiting = r.waiting /\ n.check = check
        /\ n.review = Null /\ n.candidateSha = r.candidateSha
        /\ n.candidateFence = r.candidateFence
        /\ n.repairBatchRecorded = FALSE
        /\ n.changesRequestedBatches = r.changesRequestedBatches
    BY DEF RowInv, TaskResult, ApplyCheck
  <2> HIDE DEF n
  <2>2. r.candidateSha # 0 /\ r.state \in {"candidate", "checked", "reviewing"}
    BY DEF AcceptsCheck, CanTransition, TerminalStates
  <2>3. ~r.repairBatchRecorded
    BY <2>2 DEF RowInv, SoundProgress, Stands, RequestsChanges, IsTerminalState, TerminalStates
  <2> QED BY <2>1, <2>2, <2>3 DEF RowInv, SoundProgress, Stands, RequestsChanges, TaskResult
<1> QED BY <1>1, <1>2, <1>3, <1>4, <1>5, <1>6, <1>7 DEF RowInv

\* A review by the owner of the attempt keeps the row sound.
LEMMA ReviewKeepsRow ==
    ASSUME NEW t \in Tasks, NEW r, RowInv(t, r), NEW review \in ReviewVerdict,
           NEW owner \in Owners,
           AcceptsReview(r, review, owner)
    PROVE  RowInv(t, ApplyReview(r, review)) /\ RowStep(r, ApplyReview(r, review))
<1> DEFINE n == ApplyReview(r, review)
<1>1. n \in TaskResult
  BY ReviewType DEF RowInv
<1>2. SoundFences(n) /\ RowStep(r, n)
  BY DEF RowInv, TaskResult, ApplyReview, SoundFences, RowStep
<1>3. SoundEvidence(t, n)
  BY DEF RowInv, TaskResult, ApplyReview, SoundEvidence, AcceptsReview, PassingCheck
<1>4. SoundWait(n)
  BY DEF RowInv, TaskResult, ApplyReview, SoundWait, AcceptsReview
<1>5. SoundAccounts(t, n)
  BY DEF RowInv, TaskResult, ApplyReview, SoundAccounts, PendingBatch, AcceptsReview,
     OwnsReview
<1>6. n.mergeAuthorized <=> t \in MergeAuthorized
  BY DEF RowInv, TaskResult, ApplyReview
<1>7. SoundProgress(n)
  <2>1. /\ n.state = "reviewed" /\ n.waiting = r.waiting /\ n.check = r.check
        /\ n.review = review /\ n.candidateSha = r.candidateSha
        /\ n.candidateFence = r.candidateFence
        /\ n.repairBatchRecorded = FALSE
        /\ n.changesRequestedBatches = r.changesRequestedBatches
    BY DEF RowInv, TaskResult, ApplyReview
  <2> HIDE DEF n
  <2>2. PassingCheck(r) /\ r.state = "reviewing"
    BY DEF AcceptsReview
  <2>3. ~r.repairBatchRecorded
    BY <2>2 DEF RowInv, SoundProgress, Stands, RequestsChanges, IsTerminalState, TerminalStates
  <2>4. review # Null
    BY NullAssumption
  <2> QED BY <2>1, <2>2, <2>3, <2>4
           DEF RowInv, SoundProgress, Stands, RequestsChanges, PassingCheck, TaskResult
<1> QED BY <1>1, <1>2, <1>3, <1>4, <1>5, <1>6, <1>7 DEF RowInv

\* A started or taken over review attempt keeps it, while the budget lasts.
LEMMA ReviewStartedKeepsRow ==
    ASSUME NEW t \in Tasks, NEW r, RowInv(t, r), NEW owner \in Owners,
           NEW takeover \in BOOLEAN,
           AcceptsReviewStarted(r, takeover),
           ~CountBudgetExhausted(ReviewLimit[t], r.reviewCycles)
    PROVE  /\ RowInv(t, ApplyReviewStarted(r, owner))
           /\ RowStep(r, ApplyReviewStarted(r, owner))
<1> DEFINE n == ApplyReviewStarted(r, owner)
<1>1. n \in TaskResult
  BY ReviewStartedType DEF RowInv
<1>2. SoundFences(n) /\ RowStep(r, n)
  BY DEF RowInv, TaskResult, ApplyReviewStarted, SoundFences, RowStep
<1>3. SoundEvidence(t, n)
  BY DEF RowInv, TaskResult, ApplyReviewStarted, SoundEvidence, AcceptsReviewStarted,
     PassingCheck
<1>4. SoundWait(n)
  BY DEF RowInv, TaskResult, ApplyReviewStarted, SoundWait, AcceptsReviewStarted
<1>5. SoundAccounts(t, n)
  BY BudgetsAssumption DEF RowInv, TaskResult, ApplyReviewStarted, SoundAccounts,
     PendingBatch, AcceptsReviewStarted, CountBudgetExhausted
<1>6. n.mergeAuthorized <=> t \in MergeAuthorized
  BY DEF RowInv, TaskResult, ApplyReviewStarted
<1>7. SoundProgress(n)
  <2>1. /\ n.state = "reviewing" /\ n.waiting = Null /\ n.check = r.check
        /\ n.review = Null /\ n.candidateSha = r.candidateSha
        /\ n.candidateFence = r.candidateFence
        /\ n.repairBatchRecorded = FALSE
        /\ n.changesRequestedBatches = r.changesRequestedBatches
    BY DEF RowInv, TaskResult, ApplyReviewStarted
  <2> HIDE DEF n
  <2> QED BY <2>1 DEF RowInv, SoundProgress, Stands, RequestsChanges, PassingCheck,
     AcceptsReviewStarted, CanTransition, SoundWait, TaskResult, IsTerminalState, TerminalStates
<1> QED BY <1>1, <1>2, <1>3, <1>4, <1>5, <1>6, <1>7 DEF RowInv

\* A released review attempt keeps the row sound.
LEMMA ReviewReleasedKeepsRow ==
    ASSUME NEW t \in Tasks, NEW r, RowInv(t, r), NEW owner \in Owners,
           AcceptsReviewReleased(r, owner)
    PROVE  RowInv(t, ApplyReviewReleased(r)) /\ RowStep(r, ApplyReviewReleased(r))
<1> DEFINE n == ApplyReviewReleased(r)
<1>1. n \in TaskResult
  BY ReviewReleasedType DEF RowInv
<1>2. SoundFences(n) /\ RowStep(r, n)
  BY DEF RowInv, TaskResult, ApplyReviewReleased, SoundFences, RowStep
<1>3. SoundEvidence(t, n)
  BY DEF RowInv, TaskResult, ApplyReviewReleased, SoundEvidence, AcceptsReviewReleased,
     PassingCheck
<1>4. SoundWait(n)
  BY DEF RowInv, TaskResult, ApplyReviewReleased, SoundWait
<1>5. SoundAccounts(t, n)
  BY BudgetsAssumption DEF RowInv, TaskResult, ApplyReviewReleased, SoundAccounts,
     PendingBatch, AcceptsReviewReleased, OwnsReview
<1>6. n.mergeAuthorized <=> t \in MergeAuthorized
  BY DEF RowInv, TaskResult, ApplyReviewReleased
<1>7. SoundProgress(n)
  <2>1. /\ n.state = "checked" /\ n.waiting = Null /\ n.check = r.check
        /\ n.review = Null /\ n.candidateSha = r.candidateSha
        /\ n.candidateFence = r.candidateFence
        /\ n.repairBatchRecorded = FALSE
        /\ n.changesRequestedBatches = r.changesRequestedBatches
    BY DEF RowInv, TaskResult, ApplyReviewReleased
  <2> HIDE DEF n
  <2> QED BY <2>1 DEF RowInv, SoundProgress, Stands, RequestsChanges,
     PassingCheck, AcceptsReviewReleased, CanTransition, SoundWait, TaskResult, IsTerminalState,
     TerminalStates
<1> QED BY <1>1, <1>2, <1>3, <1>4, <1>5, <1>6, <1>7 DEF RowInv

\* An interrupted review keeps the row sound.
LEMMA ReviewInterruptedKeepsRow ==
    ASSUME NEW t \in Tasks, NEW r, RowInv(t, r), NEW sha, NEW c \in FailureClasses,
           NEW owner \in Owners,
           AcceptsReviewInterrupted(r, sha, owner)
    PROVE  /\ RowInv(t, ApplyReviewInterrupted(r, c))
           /\ RowStep(r, ApplyReviewInterrupted(r, c))
<1> DEFINE n == ApplyReviewInterrupted(r, c)
<1>1. n \in TaskResult
  BY ReviewInterruptedType DEF RowInv
<1>2. SoundFences(n) /\ RowStep(r, n)
  BY DEF RowInv, TaskResult, ApplyReviewInterrupted, SoundFences, RowStep
<1>3. SoundEvidence(t, n)
  BY DEF RowInv, TaskResult, ApplyReviewInterrupted, SoundEvidence,
     AcceptsReviewInterrupted, DeliveredState
<1>w. n.waiting # Null
  BY ReviewInterruptedType, NullAssumption DEF RowInv
<1>4. SoundWait(n)
  BY <1>w DEF RowInv, TaskResult, ApplyReviewInterrupted, SoundWait,
     AcceptsReviewInterrupted, PassingCheck, DeliveryReasons
<1>5. SoundAccounts(t, n)
  BY DEF RowInv, TaskResult, ApplyReviewInterrupted, SoundAccounts, PendingBatch,
     AcceptsReviewInterrupted, OwnsReview
<1>6. n.mergeAuthorized <=> t \in MergeAuthorized
  BY DEF RowInv, TaskResult, ApplyReviewInterrupted
<1>7. SoundProgress(n)
  <2>1. /\ n.state = "waiting" /\ n.waiting.resumeState = "reviewing" /\ n.check = r.check
        /\ n.review = Null /\ n.candidateSha = r.candidateSha
        /\ n.candidateFence = r.candidateFence
        /\ n.repairBatchRecorded = FALSE
        /\ n.changesRequestedBatches = r.changesRequestedBatches
    BY DEF RowInv, TaskResult, ApplyReviewInterrupted
  <2> HIDE DEF n
  <2> QED BY <2>1 DEF RowInv, SoundProgress, Stands, RequestsChanges,
     PassingCheck, AcceptsReviewInterrupted, TaskResult, IsTerminalState, TerminalStates
<1> QED BY <1>1, <1>2, <1>3, <1>4, <1>5, <1>6, <1>7 DEF RowInv

\* A confirmed delivery of the approved candidate keeps the row sound.
LEMMA DeliveryKeepsRow ==
    ASSUME NEW t \in Tasks, NEW r, RowInv(t, r), NEW delivery \in DeliveryEffect,
           AcceptsDelivery(r, delivery)
    PROVE  RowInv(t, ApplyDelivery(r, delivery)) /\ RowStep(r, ApplyDelivery(r, delivery))
<1> DEFINE n == ApplyDelivery(r, delivery)
<1>1. n \in TaskResult
  BY DeliveryType DEF RowInv
<1>2. SoundFences(n) /\ RowStep(r, n)
  BY DEF RowInv, TaskResult, ApplyDelivery, SoundFences, RowStep
<1>a. /\ n.candidateSha = r.candidateSha /\ n.check = r.check /\ n.review = r.review
      /\ n.delivery = delivery /\ n.state = DeliveredState(delivery)
  BY DEF RowInv, TaskResult, ApplyDelivery
<1>b. delivery.merge # Null <=> t \in MergeAuthorized
  BY Zenon DEF RowInv, AcceptsDelivery
<1>c. PassingCheck(r) /\ ApprovedReview(r) /\ delivery.sha = r.candidateSha
  BY DEF RowInv, SoundEvidence, AcceptsDelivery, ApprovedReview
<1>d. delivery # Null
  BY NullAssumption
<1>e. delivery.merge # Null => /\ delivery.merge.approvedHeadSha = delivery.sha
                               /\ delivery.merge.prNumber = delivery.prNumber
  BY DEF AcceptsDelivery
<1>3. SoundEvidence(t, n)
  BY <1>a, <1>b, <1>c, <1>d, <1>e DEF SoundEvidence, PassingCheck, ApprovedReview,
     DeliveredState
<1>4. SoundWait(n)
  BY DEF RowInv, TaskResult, ApplyDelivery, SoundWait, AcceptsDelivery, CanTransition,
     DeliveredState, TerminalStates
<1>5. SoundAccounts(t, n)
  BY DEF RowInv, TaskResult, ApplyDelivery, SoundAccounts, PendingBatch
<1>6. n.mergeAuthorized <=> t \in MergeAuthorized
  BY DEF RowInv, TaskResult, ApplyDelivery
<1>7. SoundProgress(n)
  <2>1. /\ n.state = DeliveredState(delivery) /\ n.waiting = r.waiting /\ n.check = r.check
        /\ n.review = r.review /\ n.candidateSha = r.candidateSha
        /\ n.candidateFence = r.candidateFence
        /\ n.repairBatchRecorded = r.repairBatchRecorded
       
        /\ n.changesRequestedBatches = r.changesRequestedBatches
    BY DEF RowInv, TaskResult, ApplyDelivery
  <2> HIDE DEF n
  <2> QED BY <2>1 DEF RowInv, SoundProgress, Stands, RequestsChanges,
     PassingCheck, AcceptsDelivery, DeliveredState, IsTerminalState, TerminalStates, TaskResult
<1> QED BY <1>1, <1>2, <1>3, <1>4, <1>5, <1>6, <1>7 DEF RowInv

\* A repair batch not yet recorded keeps the row sound.
LEMMA RepairBatchKeepsRow ==
    ASSUME NEW t \in Tasks, NEW r, RowInv(t, r),
           AcceptsRepairBatch(r), ~r.repairBatchRecorded
    PROVE  RowInv(t, ApplyRepairBatch(r)) /\ RowStep(r, ApplyRepairBatch(r))
<1> DEFINE n == ApplyRepairBatch(r)
<1>1. n \in TaskResult
  BY RepairBatchType DEF RowInv
<1>2. SoundFences(n) /\ RowStep(r, n)
  BY DEF RowInv, TaskResult, ApplyRepairBatch, SoundFences, RowStep
<1>3. SoundEvidence(t, n)
  BY DEF RowInv, TaskResult, ApplyRepairBatch, SoundEvidence, AcceptsRepairBatch,
     PassingCheck, ApprovedReview
<1>4. SoundWait(n)
  BY DEF RowInv, TaskResult, ApplyRepairBatch, SoundWait, AcceptsRepairBatch,
     PassingCheck, ApprovedReview, UnavailableCheck
<1>5. SoundAccounts(t, n)
  BY DEF RowInv, TaskResult, ApplyRepairBatch, SoundAccounts, PendingBatch,
     AcceptsRepairBatch
<1>6. n.mergeAuthorized <=> t \in MergeAuthorized
  BY DEF RowInv, TaskResult, ApplyRepairBatch
<1>7. SoundProgress(n)
  <2>1. /\ n.state = r.state /\ n.waiting = r.waiting /\ n.check = r.check
        /\ n.review = r.review /\ n.candidateSha = r.candidateSha
        /\ n.candidateFence = r.candidateFence
        /\ n.repairBatchRecorded = TRUE /\ n.changesRequestedBatches = r.changesRequestedBatches + 1
    BY DEF RowInv, TaskResult, ApplyRepairBatch
  <2> HIDE DEF n
  <2> QED BY <2>1 DEF RowInv, SoundProgress, Stands, RequestsChanges,
     PassingCheck, AcceptsRepairBatch, TaskResult
<1> QED BY <1>1, <1>2, <1>3, <1>4, <1>5, <1>6, <1>7 DEF RowInv

\* A wait keeps the row sound.
LEMMA WaitingKeepsRow ==
    ASSUME NEW t \in Tasks, NEW r, RowInv(t, r), NEW reason \in RetryReasons,
           NEW resumeState \in ResumeStates, NEW activation \in Nat,
           AcceptsWaiting(r, reason, resumeState, activation)
    PROVE  /\ RowInv(t, ApplyWaiting(r, reason, resumeState, activation))
           /\ RowStep(r, ApplyWaiting(r, reason, resumeState, activation))
<1> DEFINE n == ApplyWaiting(r, reason, resumeState, activation)
<1>1. n \in TaskResult
  BY WaitingType DEF RowInv
<1>2. SoundFences(n) /\ RowStep(r, n)
  BY DEF RowInv, TaskResult, ApplyWaiting, SoundFences, RowStep
<1>3. SoundEvidence(t, n)
  BY DEF RowInv, TaskResult, ApplyWaiting, SoundEvidence, AcceptsWaiting, CanTransition,
     PassingCheck, ApprovedReview, DeliveredState
<1>w. n.waiting # Null
  BY WaitingType, NullAssumption DEF RowInv
<1>4. SoundWait(n)
  BY <1>w DEF RowInv, TaskResult, ApplyWaiting, SoundWait, AcceptsWaiting,
     ValidActivation, NetworkWait, CapabilityWait,
     DeliveryWait, PassingCheck, ApprovedReview, UnavailableCheck, DeliveryReasons
<1>5. SoundAccounts(t, n)
  BY DEF RowInv, TaskResult, ApplyWaiting, SoundAccounts, PendingBatch
<1>6. n.mergeAuthorized <=> t \in MergeAuthorized
  BY DEF RowInv, TaskResult, ApplyWaiting
<1>7. SoundProgress(n)
  <2>1. /\ n.state = "waiting" /\ n.waiting.resumeState = resumeState /\ n.check = r.check
        /\ n.review = r.review /\ n.candidateSha = r.candidateSha
        /\ n.candidateFence = r.candidateFence
        /\ n.repairBatchRecorded = r.repairBatchRecorded
       
        /\ n.changesRequestedBatches = r.changesRequestedBatches
    BY DEF RowInv, TaskResult, ApplyWaiting
  <2> HIDE DEF n
  <2>2. /\ r.state \notin TerminalStates /\ r.state # "waiting"
        /\ resumeState = r.state \/ (r.state = "checked" /\ resumeState = "candidate")
    BY DEF AcceptsWaiting, CanTransition, ResumeStates, TerminalStates
  <2>3. \A s \in {"admitted", "reviewing", "reviewed"} : Stands(n, s) <=> Stands(r, s)
    BY <2>1, <2>2 DEF Stands
  <2> QED BY <2>1, <2>2, <2>3 DEF RowInv, SoundProgress, RequestsChanges, PassingCheck,
     IsTerminalState
<1> QED BY <1>1, <1>2, <1>3, <1>4, <1>5, <1>6, <1>7 DEF RowInv

\* The retry of a wait keeps the row sound.
LEMMA RetryKeepsRow ==
    ASSUME NEW t \in Tasks, NEW r, RowInv(t, r),
           r.state = "waiting"
    PROVE  RowInv(t, ApplyRetry(r)) /\ RowStep(r, ApplyRetry(r))
<1> DEFINE n == ApplyRetry(r)
<1>1. n \in TaskResult
  BY RetryType DEF RowInv, SoundWait
<1>2. SoundFences(n) /\ RowStep(r, n)
  BY DEF RowInv, TaskResult, ApplyRetry, SoundFences, RowStep
<1>3. SoundEvidence(t, n)
  BY DEF RowInv, TaskResult, ApplyRetry, SoundEvidence, SoundWait, PassingCheck,
     ApprovedReview, UnavailableCheck, DeliveredState, CheckResult, TaskWaiting,
     ResumeStates
<1>4. SoundWait(n)
  BY DEF RowInv, TaskResult, ApplyRetry, SoundWait, PassingCheck, ApprovedReview,
     TaskWaiting, ResumeStates
<1>5. SoundAccounts(t, n)
  BY DEF RowInv, TaskResult, ApplyRetry, SoundAccounts, PendingBatch
<1>6. n.mergeAuthorized <=> t \in MergeAuthorized
  BY DEF RowInv, TaskResult, ApplyRetry
<1>7. SoundProgress(n)
  <2>1. /\ n.state = r.waiting.resumeState /\ n.waiting = Null
        /\ r.waiting.resumeState # "candidate" => n.check = r.check
        /\ n.review = r.review /\ n.candidateSha = r.candidateSha
        /\ n.candidateFence = r.candidateFence
        /\ n.repairBatchRecorded = r.repairBatchRecorded
       
        /\ n.changesRequestedBatches = r.changesRequestedBatches
    BY DEF RowInv, TaskResult, ApplyRetry
  <2> HIDE DEF n
  <2> QED BY <2>1 DEF RowInv, SoundProgress, Stands, RequestsChanges, PassingCheck, SoundWait,
     TaskResult, TaskWaiting, ResumeStates, IsTerminalState, TerminalStates
<1> QED BY <1>1, <1>2, <1>3, <1>4, <1>5, <1>6, <1>7 DEF RowInv

\* A blocker keeps the row sound.
LEMMA BlockedKeepsRow ==
    ASSUME NEW t \in Tasks, NEW r, RowInv(t, r), NEW blocker \in Blockers,
           ~IsTerminalState(r.state)
    PROVE  RowInv(t, ApplyBlocked(r, blocker)) /\ RowStep(r, ApplyBlocked(r, blocker))
<1> DEFINE n == ApplyBlocked(r, blocker)
<1>1. n \in TaskResult
  BY BlockedType DEF RowInv
<1>2. SoundFences(n) /\ RowStep(r, n)
  BY DEF RowInv, TaskResult, ApplyBlocked, SoundFences, RowStep
<1>3. SoundEvidence(t, n)
  BY DEF RowInv, TaskResult, ApplyBlocked, SoundEvidence, IsTerminalState,
     TerminalStates, PassingCheck, ApprovedReview, DeliveredState
<1>4. SoundWait(n)
  BY DEF RowInv, TaskResult, ApplyBlocked, SoundWait
<1>5. SoundAccounts(t, n)
  BY DEF RowInv, TaskResult, ApplyBlocked, SoundAccounts, PendingBatch
<1>6. n.mergeAuthorized <=> t \in MergeAuthorized
  BY DEF RowInv, TaskResult, ApplyBlocked
<1>7. SoundProgress(n)
  <2>1. /\ n.state = "blocked" /\ n.waiting = Null /\ n.check = r.check
        /\ n.review = r.review /\ n.candidateSha = r.candidateSha
        /\ n.candidateFence = r.candidateFence
        /\ n.repairBatchRecorded = r.repairBatchRecorded
       
        /\ n.changesRequestedBatches = r.changesRequestedBatches
    BY DEF RowInv, TaskResult, ApplyBlocked
  <2> HIDE DEF n
  <2> QED BY <2>1 DEF RowInv, SoundProgress, Stands, RequestsChanges,
     PassingCheck, IsTerminalState, TerminalStates, TaskResult
<1> QED BY <1>1, <1>2, <1>3, <1>4, <1>5, <1>6, <1>7 DEF RowInv

\* A reserved activation keeps the row sound.
LEMMA ActivationKeepsRow ==
    ASSUME NEW t \in Tasks, NEW r, RowInv(t, r),
           ~IsTerminalState(r.state)
    PROVE  RowInv(t, ApplyActivation(r)) /\ RowStep(r, ApplyActivation(r))
<1> DEFINE n == ApplyActivation(r)
<1>1. n \in TaskResult
  BY ActivationType DEF RowInv
<1>2. SoundFences(n) /\ RowStep(r, n)
  BY DEF RowInv, TaskResult, ApplyActivation, SoundFences, RowStep
<1>3. SoundEvidence(t, n)
  BY DEF RowInv, TaskResult, ApplyActivation, SoundEvidence, PassingCheck, ApprovedReview
<1>4. SoundWait(n)
  BY DEF RowInv, TaskResult, ApplyActivation, SoundWait, PassingCheck, ApprovedReview,
     UnavailableCheck
<1>5. SoundAccounts(t, n)
  BY DEF RowInv, TaskResult, ApplyActivation, SoundAccounts, PendingBatch
<1>6. n.mergeAuthorized <=> t \in MergeAuthorized
  BY DEF RowInv, TaskResult, ApplyActivation
<1>7. SoundProgress(n)
  <2>1. /\ n.state = r.state /\ n.waiting = r.waiting /\ n.check = r.check
        /\ n.review = r.review /\ n.candidateSha = r.candidateSha
        /\ n.candidateFence = r.candidateFence
        /\ n.repairBatchRecorded = r.repairBatchRecorded
       
        /\ n.changesRequestedBatches = r.changesRequestedBatches
    BY DEF RowInv, TaskResult, ApplyActivation
  <2> HIDE DEF n
  <2> QED BY <2>1 DEF RowInv, SoundProgress, Stands, RequestsChanges,
     PassingCheck, TaskResult
<1> QED BY <1>1, <1>2, <1>3, <1>4, <1>5, <1>6, <1>7 DEF RowInv
(***************************************************************************)
(* The tables                                                              *)
(***************************************************************************)

Types ==
    /\ task \in [Tasks -> TaskResult \cup {Null}]
    /\ lease \in [Repositories -> Tasks \cup {Null}]
    /\ expired \subseteq Tasks
    /\ events \in [Tasks -> Seq(EventIds)]

Rows == \A t \in Tasks : Admitted(t) => RowInv(t, task[t])

IInv == Types /\ Rows /\ LeaseMatchesActive

\* What every operation on an admitted Task amounts to: the Task is in progress
\* and holds its lease, and one accepted fact and its event are saved.
SavesFact(t, next, id) ==
    /\ Active(t) /\ HoldsLease(t)
    /\ RowInv(t, next) /\ RowStep(task[t], next)
    /\ id \in EventIds /\ id[1] # "terminal"
    /\ Save(t, next, id)

TaskStep(t) ==
    \/ Admit(t)
    \/ Admitted(t) /\ Fact(t, task[t].revision)
    \/ ReviewReservation(t)
    \/ ReserveActivation(t)
    \/ Retry(t)
    \/ PassDeadline(t)

\* The identities of events have their type.
LEMMA EventIdType ==
    /\ \A n \in Nat, k \in {"candidate", "check", "review", "review-started",
                            "review-released", "delivery", "repair", "blocked",
                            "activation", "retry"} :
          <<k, n>> \in EventIds /\ <<k, n>>[1] # "terminal"
    /\ \A n \in Nat, reason \in WaitingReasons :
          <<"waiting", reason, n>> \in EventIds /\ <<"waiting", reason, n>>[1] # "terminal"
    /\ \A s \in TerminalStates : <<"terminal", s>> \in EventIds
    /\ <<"task-admitted">> \in EventIds
  BY DEF EventIds

\* A Task that holds its lease is in progress, and its row is sound.
LEMMA HolderIsActive ==
    ASSUME IInv, NEW t \in Tasks, HoldsLease(t)
    PROVE  /\ Active(t)
           /\ RowInv(t, task[t])
           /\ task[t].revision \in Nat
<1>1. Active(t)
  BY DEF IInv, LeaseMatchesActive
<1>2. RowInv(t, task[t])
  BY <1>1 DEF IInv, Rows, Active
<1> QED BY <1>1, <1>2 DEF RowInv, TaskResult

\* Every fact with the row's revision saves an accepted row, or finds its repair
\* batch already recorded.
LEMMA FactSaves ==
    ASSUME IInv, NEW t \in Tasks, Admitted(t), Fact(t, task[t].revision)
    PROVE  UNCHANGED vars \/ \E next, id : SavesFact(t, next, id)
<1> DEFINE r == task[t]
           rev == task[t].revision
<1>1. HoldsLease(t)
  BY DEF Fact, CandidateFact, CheckFact, ReviewFact, ReviewInterruptionFact,
     ReviewReleaseFact, DeliveryFact, WaitingFact, BlockedFact, RecordCandidate,
     RecordCheck, RecordReview, RecordReviewInterruption, ReleaseReviewAttempt,
     RecordRepairBatch, RecordDelivery, RecordWaiting, Block, CanRecordCandidate,
     CanRecordCheck, CanRecordReview, CanRecordReviewInterruption,
     CanReleaseReviewAttempt, CanRecordRepairBatch, CanRecordDelivery,
     CanRecordWaiting, CanBlock, CanPersist
<1>2. Active(t) /\ RowInv(t, r) /\ rev \in Nat /\ r \in TaskResult
  BY <1>1, HolderIsActive DEF RowInv
<1>3. Issued(t) \subseteq Nat
  BY <1>2 DEF Issued, TaskResult
<1>4. CASE CandidateFact(t, rev)
  <2>1. PICK sha \in Commits, baseSha \in 0..MaxCommit, fence \in Issued(t) :
            baseSha < sha /\ RecordCandidate(t, rev, sha, baseSha, fence)
    BY <1>4 DEF CandidateFact
  <2>2. fence \in Nat /\ AcceptsCandidate(r, sha, baseSha, fence)
    BY <2>1, <1>3 DEF RecordCandidate, CanRecordCandidate
  <2>3. /\ RowInv(t, ApplyCandidate(r, sha, fence))
        /\ RowStep(r, ApplyCandidate(r, sha, fence))
    BY <1>2, <2>1, <2>2, CandidateKeepsRow
  <2>a. sha \in Nat
    BY BudgetsAssumption DEF Commits
  <2>4. <<"candidate", sha>> \in EventIds /\ <<"candidate", sha>>[1] # "terminal"
    BY <2>a, EventIdType
  <2>5. SavesFact(t, ApplyCandidate(r, sha, fence), <<"candidate", sha>>)
    BY <1>1, <1>2, <2>1, <2>3, <2>4 DEF SavesFact, RecordCandidate
  <2> QED BY <2>5
<1>5. CASE CheckFact(t, rev)
  <2>1. PICK check \in CheckResult : RecordCheck(t, rev, check)
    BY <1>5 DEF CheckFact
  <2>2. RowInv(t, ApplyCheck(r, check)) /\ RowStep(r, ApplyCheck(r, check))
    BY <1>2, <2>1, CheckKeepsRow DEF RecordCheck, CanRecordCheck
  <2>3. SavesFact(t, ApplyCheck(r, check), <<"check", rev>>)
    BY <1>1, <1>2, <2>1, <2>2, EventIdType DEF SavesFact, RecordCheck
  <2> QED BY <2>3
<1>6. CASE ReviewFact(t, rev)
  <2>1. PICK review \in ReviewVerdict, owner \in Owners : RecordReview(t, rev, review, owner)
    BY <1>6 DEF ReviewFact
  <2>2. RowInv(t, ApplyReview(r, review)) /\ RowStep(r, ApplyReview(r, review))
    BY <1>2, <2>1, ReviewKeepsRow DEF RecordReview, CanRecordReview
  <2>3. SavesFact(t, ApplyReview(r, review), <<"review", rev>>)
    BY <1>1, <1>2, <2>1, <2>2, EventIdType DEF SavesFact, RecordReview
  <2> QED BY <2>3
<1>7. CASE ReviewInterruptionFact(t, rev)
  <2>1. PICK sha \in Commits, c \in FailureClasses, owner \in Owners :
            RecordReviewInterruption(t, rev, sha, c, owner)
    BY <1>7 DEF ReviewInterruptionFact
  <2>2. /\ RowInv(t, ApplyReviewInterrupted(r, c))
        /\ RowStep(r, ApplyReviewInterrupted(r, c))
    BY <1>2, <2>1, ReviewInterruptedKeepsRow
       DEF RecordReviewInterruption, CanRecordReviewInterruption
  <2>3. SavesFact(t, ApplyReviewInterrupted(r, c), <<"review", rev>>)
    BY <1>1, <1>2, <2>1, <2>2, EventIdType DEF SavesFact, RecordReviewInterruption
  <2> QED BY <2>3
<1>8. CASE ReviewReleaseFact(t, rev)
  <2>1. PICK owner \in Owners : ReleaseReviewAttempt(t, rev, owner)
    BY <1>8 DEF ReviewReleaseFact
  <2>2. RowInv(t, ApplyReviewReleased(r)) /\ RowStep(r, ApplyReviewReleased(r))
    BY <1>2, <2>1, ReviewReleasedKeepsRow
       DEF ReleaseReviewAttempt, CanReleaseReviewAttempt
  <2>3. SavesFact(t, ApplyReviewReleased(r), <<"review-released", rev>>)
    BY <1>1, <1>2, <2>1, <2>2, EventIdType DEF SavesFact, ReleaseReviewAttempt
  <2> QED BY <2>3
<1>9. CASE RecordRepairBatch(t, rev)
  <2>1. CASE r.repairBatchRecorded
    BY <1>9, <2>1 DEF RecordRepairBatch
  <2>2. CASE ~r.repairBatchRecorded
    <3>1. RowInv(t, ApplyRepairBatch(r)) /\ RowStep(r, ApplyRepairBatch(r))
      BY <1>2, <1>9, <2>2, RepairBatchKeepsRow DEF RecordRepairBatch, CanRecordRepairBatch
    <3>2. SavesFact(t, ApplyRepairBatch(r), <<"repair", rev>>)
      BY <1>1, <1>2, <1>9, <2>2, <3>1, EventIdType DEF SavesFact, RecordRepairBatch
    <3> QED BY <3>2
  <2> QED BY <2>1, <2>2
<1>10. CASE DeliveryFact(t, rev)
  <2>1. PICK delivery \in DeliveryEffect : RecordDelivery(t, rev, delivery)
    BY <1>10 DEF DeliveryFact
  <2>2. RowInv(t, ApplyDelivery(r, delivery)) /\ RowStep(r, ApplyDelivery(r, delivery))
    BY <1>2, <2>1, DeliveryKeepsRow DEF RecordDelivery, CanRecordDelivery
  <2>3. delivery.sha \in Nat
    BY BudgetsAssumption DEF DeliveryEffect, Commits
  <2>4. <<"delivery", delivery.sha>> \in EventIds /\ <<"delivery", delivery.sha>>[1] # "terminal"
    BY <2>3, EventIdType
  <2>5. SavesFact(t, ApplyDelivery(r, delivery), <<"delivery", delivery.sha>>)
    BY <1>1, <1>2, <2>1, <2>2, <2>4 DEF SavesFact, RecordDelivery
  <2> QED BY <2>5
<1>11. CASE WaitingFact(t, rev)
  <2>1. PICK reason \in RetryReasons, s \in ResumeStates, activation \in Issued(t) :
            RecordWaiting(t, rev, reason, s, activation)
    BY <1>11 DEF WaitingFact
  <2>2. activation \in Nat
    BY <1>3
  <2>3. /\ RowInv(t, ApplyWaiting(r, reason, s, activation))
        /\ RowStep(r, ApplyWaiting(r, reason, s, activation))
    BY <1>2, <2>1, <2>2, WaitingKeepsRow DEF RecordWaiting, CanRecordWaiting
  <2>4. /\ <<"waiting", reason, activation>> \in EventIds
        /\ <<"waiting", reason, activation>>[1] # "terminal"
    BY <2>2, EventIdType DEF WaitingReasons
  <2>5. SavesFact(t, ApplyWaiting(r, reason, s, activation), <<"waiting", reason, activation>>)
    BY <1>1, <1>2, <2>1, <2>3, <2>4 DEF SavesFact, RecordWaiting
  <2> QED BY <2>5
<1>12. CASE BlockedFact(t, rev)
  <2>1. PICK blocker \in Blockers : Block(t, rev, blocker)
    BY <1>12 DEF BlockedFact
  <2>2. RowInv(t, ApplyBlocked(r, blocker)) /\ RowStep(r, ApplyBlocked(r, blocker))
    BY <1>2, <2>1, BlockedKeepsRow DEF Active
  <2>3. SavesFact(t, ApplyBlocked(r, blocker), <<"blocked", rev>>)
    BY <1>1, <1>2, <2>1, <2>2, EventIdType DEF SavesFact, Block
  <2> QED BY <2>3
<1> QED BY <1>4, <1>5, <1>6, <1>7, <1>8, <1>9, <1>10, <1>11, <1>12 DEF Fact

\* The same of the operations that read the row themselves.
LEMMA ReservationSaves ==
    ASSUME IInv, NEW t \in Tasks,
           ReviewReservation(t) \/ ReserveActivation(t) \/ Retry(t)
    PROVE  \E next, id : SavesFact(t, next, id)
<1> DEFINE r == task[t]
           rev == task[t].revision
<1>1. HoldsLease(t)
  BY DEF ReviewReservation, ReserveReviewAttempt, TakeOverReviewAttempt, ReserveActivation,
     Retry, RetryTask, CanReserveReviewAttempt, CanTakeOverReviewAttempt, CanReserveActivation,
     CanRetry
<1>2. Active(t) /\ RowInv(t, r) /\ rev \in Nat /\ r \in TaskResult
  BY <1>1, HolderIsActive DEF RowInv
<1>3. CASE ReviewReservation(t)
  <2>1. PICK owner \in Owners : ReserveReviewAttempt(t, owner) \/ TakeOverReviewAttempt(t, owner)
    BY <1>3 DEF ReviewReservation
  <2>2. /\ \E takeover \in BOOLEAN : AcceptsReviewStarted(r, takeover)
        /\ ~CountBudgetExhausted(ReviewLimit[t], r.reviewCycles)
        /\ Save(t, ApplyReviewStarted(r, owner), <<"review-started", rev>>)
    BY <2>1 DEF ReserveReviewAttempt, TakeOverReviewAttempt, CanReserveReviewAttempt,
       CanTakeOverReviewAttempt
  <2>3. RowInv(t, ApplyReviewStarted(r, owner)) /\ RowStep(r, ApplyReviewStarted(r, owner))
    BY <1>2, <2>2, ReviewStartedKeepsRow
  <2>4. SavesFact(t, ApplyReviewStarted(r, owner), <<"review-started", rev>>)
    BY <1>1, <1>2, <2>2, <2>3, EventIdType DEF SavesFact
  <2> QED BY <2>4
<1>4. CASE ReserveActivation(t)
  <2>1. RowInv(t, ApplyActivation(r)) /\ RowStep(r, ApplyActivation(r))
    BY <1>2, ActivationKeepsRow DEF Active
  <2>2. ApplyActivation(r).implementerActivations \in Nat
    BY <2>1 DEF RowInv, TaskResult
  <2>3. SavesFact(t, ApplyActivation(r),
                  <<"activation", ApplyActivation(r).implementerActivations>>)
    BY <1>1, <1>2, <1>4, <2>1, <2>2, EventIdType DEF SavesFact, ReserveActivation
  <2> QED BY <2>3
<1>5. CASE Retry(t)
  <2>1. r.state = "waiting"
    BY <1>5 DEF Retry, RetryTask, CanRetry
  <2>2. CASE Save(t, ApplyBlocked(r, "elapsed_budget"), <<"blocked", rev>>)
    <3>1. /\ RowInv(t, ApplyBlocked(r, "elapsed_budget"))
          /\ RowStep(r, ApplyBlocked(r, "elapsed_budget"))
      BY <1>2, BlockedKeepsRow, BudgetsAssumption DEF Active
    <3>2. SavesFact(t, ApplyBlocked(r, "elapsed_budget"), <<"blocked", rev>>)
      BY <1>1, <1>2, <2>2, <3>1, EventIdType DEF SavesFact
    <3> QED BY <3>2
  <2>3. CASE Save(t, ApplyRetry(r), <<"retry", rev>>)
    <3>1. RowInv(t, ApplyRetry(r)) /\ RowStep(r, ApplyRetry(r))
      BY <1>2, <2>1, RetryKeepsRow
    <3>2. SavesFact(t, ApplyRetry(r), <<"retry", rev>>)
      BY <1>1, <1>2, <2>3, <3>1, EventIdType DEF SavesFact
    <3> QED BY <3>2
  <2> QED BY <1>5, <2>2, <2>3 DEF Retry, RetryTask
<1> QED BY <1>3, <1>4, <1>5

\* A step of the authority admits a Task, passes a deadline, or saves one fact
\* about one Task in progress.
LEMMA StepShape ==
    ASSUME IInv, [Next]_vars
    PROVE  \/ UNCHANGED vars
           \/ \E t \in Tasks : \/ Admit(t)
                               \/ PassDeadline(t)
                               \/ \E next, id : SavesFact(t, next, id)
<1>1. CASE UNCHANGED vars BY <1>1
<1>2. CASE Next
  <2>1. PICK t \in Tasks : TaskStep(t)
    BY <1>2 DEF Next, TaskStep
  <2> QED BY <2>1, FactSaves, ReservationSaves DEF TaskStep
<1> QED BY <1>1, <1>2

(***************************************************************************)
(* The invariant                                                           *)
(***************************************************************************)

\* The revision is no part of what makes a row sound.
LEMMA RevisionKeepsRow ==
    ASSUME NEW t \in Tasks, NEW r, RowInv(t, r), NEW n \in Nat
    PROVE  RowInv(t, [r EXCEPT !.revision = n])
<1> DEFINE s == [r EXCEPT !.revision = n]
<1>1. s \in TaskResult
  BY DEF RowInv, TaskResult
<1>2. SoundFences(s) BY DEF RowInv, TaskResult, SoundFences
<1>3. SoundEvidence(t, s)
  BY DEF RowInv, TaskResult, SoundEvidence, PassingCheck, ApprovedReview
<1>4. SoundWait(s)
  BY DEF RowInv, TaskResult, SoundWait, PassingCheck, ApprovedReview, UnavailableCheck
<1>5. SoundAccounts(t, s) BY DEF RowInv, TaskResult, SoundAccounts, PendingBatch
<1>6. s.mergeAuthorized <=> t \in MergeAuthorized BY DEF RowInv, TaskResult
<1>7. SoundProgress(s)
  <2>1. /\ s.state = r.state /\ s.waiting = r.waiting /\ s.check = r.check /\ s.review = r.review
        /\ s.candidateSha = r.candidateSha /\ s.candidateFence = r.candidateFence
        /\ s.repairBatchRecorded = r.repairBatchRecorded
        /\ s.changesRequestedBatches = r.changesRequestedBatches
    BY DEF RowInv, TaskResult
  <2> HIDE DEF s
  <2> QED BY <2>1 DEF RowInv, SoundProgress, Stands, RequestsChanges, PassingCheck
<1> QED BY <1>1, <1>2, <1>3, <1>4, <1>5, <1>6, <1>7 DEF RowInv

\* A new row is sound.
LEMMA NewTaskRow ==
    ASSUME NEW t \in Tasks
    PROVE  RowInv(t, NewTask(t)) /\ NewTask(t).state = "admitted"
<1>1. NewTask(t) \in TaskResult
  BY DEF NewTask, TaskResult, States, ResumeStates
<1>2. SoundFences(NewTask(t)) BY BudgetsAssumption DEF NewTask, SoundFences
<1>3. SoundEvidence(t, NewTask(t)) BY DEF NewTask, SoundEvidence
<1>4. SoundWait(NewTask(t)) BY DEF NewTask, SoundWait
<1>5. SoundAccounts(t, NewTask(t))
  BY BudgetsAssumption DEF NewTask, SoundAccounts, PendingBatch
<1>6. SoundProgress(NewTask(t))
  BY DEF NewTask, SoundProgress, Stands, RequestsChanges, PassingCheck
<1> QED BY <1>1, <1>2, <1>3, <1>4, <1>5, <1>6 DEF RowInv, NewTask

\* Saving a fact writes one sound row and appends typed events.
LEMMA SavedRow ==
    ASSUME IInv, NEW t \in Tasks, NEW next, NEW id, SavesFact(t, next, id)
    PROVE  /\ task' = [task EXCEPT ![t] = [next EXCEPT !.revision = task[t].revision + 1]]
           /\ RowInv(t, task'[t])
           /\ task'[t] # Null
           /\ task'[t].state = next.state
           /\ task'[t].revision = task[t].revision + 1
           /\ events' = [events EXCEPT ![t] = AppendFactEvents(@, id, next.state)]
           /\ AppendFactEvents(events[t], id, next.state) \in Seq(EventIds)
<1> DEFINE row == [next EXCEPT !.revision = task[t].revision + 1]
<1>1. task[t].revision + 1 \in Nat
  BY HolderIsActive DEF SavesFact
<1>2. RowInv(t, row)
  BY <1>1, RevisionKeepsRow DEF SavesFact
<1>3. row \in TaskResult /\ row # Null
  BY <1>2, NullAssumption DEF RowInv
<1>4. row.state = next.state /\ row.revision = task[t].revision + 1
  BY DEF SavesFact, RowInv, TaskResult
<1>5. task' = [task EXCEPT ![t] = row]
  BY DEF SavesFact, Save
<1>6. task'[t] = row
  BY <1>5 DEF IInv, Types
<1>7. events[t] \in Seq(EventIds)
  BY DEF IInv, Types
<1>8. next.state \in TerminalStates => <<"terminal", next.state>> \in EventIds
  BY EventIdType
<1>9. AppendFactEvents(events[t], id, next.state) \in Seq(EventIds)
  BY <1>7, <1>8 DEF AppendFactEvents, AppendEvent, IsTerminalState, SavesFact
<1>10. events' = [events EXCEPT ![t] = AppendFactEvents(@, id, next.state)]
  BY DEF SavesFact, Save
<1> QED BY <1>2, <1>3, <1>4, <1>5, <1>6, <1>9, <1>10

\* Which Tasks are in progress after a fact: the same, less one that ended.
LEMMA SavedActive ==
    ASSUME IInv, NEW t \in Tasks, NEW next, NEW id, SavesFact(t, next, id)
    PROVE  /\ \A u \in Tasks \ {t} : task'[u] = task[u]
           /\ \A u \in Tasks : Admitted(u)' <=> Admitted(u)
           /\ \A u \in Tasks : Active(u)' <=>
                Active(u) /\ (u = t => ~IsTerminalState(next.state))
<1>1. \A u \in Tasks \ {t} : task'[u] = task[u]
  BY SavedRow DEF IInv, Types
<1>2. task'[t] # Null /\ task'[t].state = next.state
  BY SavedRow
<1>3. task[t] # Null /\ Active(t)
  BY DEF SavesFact, Active, Admitted
<1> QED BY <1>1, <1>2, <1>3 DEF Active, Admitted

\* Saving an accepted fact keeps the invariant, the lease of an ended Task included.
LEMMA SaveKeepsInv ==
    ASSUME IInv, NEW t \in Tasks, NEW next, NEW id, SavesFact(t, next, id)
    PROVE  IInv'
<1>1. Types'
  <2>1. task' \in [Tasks -> TaskResult \cup {Null}]
    <3>1. [next EXCEPT !.revision = task[t].revision + 1] = task'[t]
      BY SavedRow DEF IInv, Types
    <3>2. task'[t] \in TaskResult
      BY SavedRow DEF RowInv
    <3> QED BY <3>1, <3>2, SavedRow DEF IInv, Types
  <2>2. lease' \in [Repositories -> Tasks \cup {Null}]
    BY DEF IInv, Types, SavesFact, Save, ReleaseIfTerminal
  <2>3. events' \in [Tasks -> Seq(EventIds)]
    BY SavedRow DEF IInv, Types
  <2>4. expired' \subseteq Tasks
    BY DEF IInv, Types, SavesFact, Save
  <2> QED BY <2>1, <2>2, <2>3, <2>4 DEF Types
<1>2. Rows'
  <2> SUFFICES ASSUME NEW u \in Tasks, Admitted(u)' PROVE RowInv(u, task'[u])
    BY DEF Rows
  <2>1. CASE u = t BY <2>1, SavedRow
  <2>2. CASE u # t
    BY <2>2, SavedActive DEF IInv, Rows
  <2> QED BY <2>1, <2>2
<1>3. LeaseMatchesActive'
  <2> DEFINE own == RepositoryOf[t]
  <2>1. lease[own] = t /\ own \in Repositories
    BY TasksAssumption DEF SavesFact, HoldsLease
  <2>2. CASE ~IsTerminalState(next.state)
    <3>1. lease' = lease
      BY <2>2 DEF SavesFact, Save, ReleaseIfTerminal
    <3> QED BY <2>2, <3>1, SavedActive DEF IInv, LeaseMatchesActive, HoldsLease
  <2>3. CASE IsTerminalState(next.state)
    <3>1. lease' = [lease EXCEPT ![own] = Null]
      BY <2>3 DEF SavesFact, Save, ReleaseIfTerminal
    <3>2. \A r \in Repositories : lease'[r] = IF r = own THEN Null ELSE lease[r]
      BY <2>1, <3>1 DEF IInv, Types
    <3>3. ASSUME NEW u \in Tasks PROVE Active(u)' <=> HoldsLease(u)'
      <4>1. RepositoryOf[u] \in Repositories /\ u # Null
        BY TasksAssumption
      <4>2. CASE RepositoryOf[u] = own
        <5>1. ~HoldsLease(u)'
          BY <3>2, <4>1, <4>2 DEF HoldsLease
        <5>2. Active(u) => u = t
          BY <2>1, <4>2 DEF IInv, LeaseMatchesActive, HoldsLease
        <5> QED BY <2>3, <5>1, <5>2, SavedActive
      <4>3. CASE RepositoryOf[u] # own
        <5>1. HoldsLease(u)' <=> HoldsLease(u)
          BY <3>2, <4>1, <4>3 DEF HoldsLease
        <5> QED BY <4>3, <5>1, SavedActive DEF IInv, LeaseMatchesActive
      <4> QED BY <4>2, <4>3
    <3>4. \A r \in Repositories : lease'[r] # Null => RepositoryOf[lease'[r]] = r
      BY <3>2 DEF IInv, LeaseMatchesActive
    <3> QED BY <3>3, <3>4 DEF LeaseMatchesActive
  <2> QED BY <2>2, <2>3
<1> QED BY <1>1, <1>2, <1>3 DEF IInv

\* Which Tasks are in progress after an admission: one more.
LEMMA AdmittedActive ==
    ASSUME IInv, NEW t \in Tasks, Admit(t)
    PROVE  /\ task'[t] = NewTask(t)
           /\ ~Admitted(t) /\ Admitted(t)' /\ Active(t)'
           /\ \A u \in Tasks \ {t} : task'[u] = task[u]
           /\ \A u \in Tasks \ {t} : Active(u)' <=> Active(u)
<1>1. task'[t] = NewTask(t)
  BY DEF Admit, IInv, Types
<1>2. NewTask(t) # Null /\ NewTask(t).state = "admitted"
  BY NewTaskRow, NullAssumption DEF RowInv
<1>3. ~Admitted(t)
  BY DEF Admit, CanAdmit
<1>4. \A u \in Tasks \ {t} : task'[u] = task[u]
  BY DEF Admit, IInv, Types
<1> QED BY <1>1, <1>2, <1>3, <1>4 DEF Admitted, Active, IsTerminalState, TerminalStates

\* An admission keeps the invariant.
LEMMA AdmitKeepsInv ==
    ASSUME IInv, NEW t \in Tasks, Admit(t)
    PROVE  IInv'
<1> DEFINE own == RepositoryOf[t]
<1>1. own \in Repositories /\ t # Null
  BY TasksAssumption
<1>2. lease' = [lease EXCEPT ![own] = t] /\ lease[own] = Null
  BY DEF Admit, CanAdmit
<1>3. Types'
  <2>1. <<<<"task-admitted">>>> \in Seq(EventIds)
    BY EventIdType
  <2>2. NewTask(t) \in TaskResult
    BY NewTaskRow DEF RowInv
  <2>3. task' \in [Tasks -> TaskResult \cup {Null}]
    BY <2>2 DEF Admit, IInv, Types
  <2>4. events' \in [Tasks -> Seq(EventIds)] /\ expired' \subseteq Tasks
    BY <2>1 DEF Admit, IInv, Types
  <2>5. lease' \in [Repositories -> Tasks \cup {Null}]
    BY <1>1, <1>2 DEF IInv, Types
  <2> QED BY <2>3, <2>4, <2>5 DEF Types
<1>4. Rows'
  <2> SUFFICES ASSUME NEW u \in Tasks, Admitted(u)' PROVE RowInv(u, task'[u])
    BY DEF Rows
  <2>1. CASE u = t BY <2>1, AdmittedActive, NewTaskRow
  <2>2. CASE u # t
    BY <2>2, AdmittedActive DEF IInv, Rows, Admitted
  <2> QED BY <2>1, <2>2
<1>5. LeaseMatchesActive'
  <2>1. \A r \in Repositories : lease'[r] = IF r = own THEN t ELSE lease[r]
    BY <1>1, <1>2 DEF IInv, Types
  <2>2. ASSUME NEW u \in Tasks PROVE Active(u)' <=> HoldsLease(u)'
    <3>1. RepositoryOf[u] \in Repositories /\ u # Null
      BY TasksAssumption
    <3>2. CASE u = t
      BY <2>1, <3>1, <3>2, AdmittedActive DEF HoldsLease
    <3>3. CASE u # t /\ RepositoryOf[u] = own
      <4>1. ~HoldsLease(u)'
        BY <2>1, <3>1, <3>3 DEF HoldsLease
      <4>2. ~Active(u)
        BY <1>2, <3>1, <3>3 DEF IInv, LeaseMatchesActive, HoldsLease
      <4> QED BY <3>3, <4>1, <4>2, AdmittedActive
    <3>4. CASE u # t /\ RepositoryOf[u] # own
      <4>1. HoldsLease(u)' <=> HoldsLease(u)
        BY <2>1, <3>1, <3>4 DEF HoldsLease
      <4> QED BY <3>4, <4>1, AdmittedActive DEF IInv, LeaseMatchesActive
    <3> QED BY <3>2, <3>3, <3>4
  <2>3. \A r \in Repositories : lease'[r] # Null => RepositoryOf[lease'[r]] = r
    BY <2>1 DEF IInv, LeaseMatchesActive
  <2> QED BY <2>2, <2>3 DEF LeaseMatchesActive
<1> QED BY <1>3, <1>4, <1>5 DEF IInv

\* The invariant holds of the empty database.
LEMMA Initially == Init => IInv
<1> SUFFICES ASSUME Init PROVE IInv
  OBVIOUS
<1>1. Types
  BY DEF Init, Types
<1>2. \A t \in Tasks : ~Admitted(t)
  BY DEF Init, Admitted
<1>3. LeaseMatchesActive
  BY <1>2, TasksAssumption DEF Init, LeaseMatchesActive, Active, HoldsLease
<1> QED BY <1>1, <1>2, <1>3 DEF IInv, Rows

\* Every step of the authority keeps the invariant.
LEMMA Inductive == IInv /\ [Next]_vars => IInv'
<1> SUFFICES ASSUME IInv, [Next]_vars PROVE IInv'
  OBVIOUS
<1>1. CASE UNCHANGED vars
  BY <1>1 DEF vars, IInv, Types, Rows, LeaseMatchesActive, Active, Admitted, HoldsLease
<1>2. ASSUME NEW t \in Tasks, PassDeadline(t) PROVE IInv'
  BY <1>2 DEF PassDeadline, IInv, Types, Rows, LeaseMatchesActive, Active, Admitted,
     HoldsLease
<1> QED BY <1>1, <1>2, StepShape, SaveKeepsInv, AdmitKeepsInv

\* The invariant holds in every reachable state, for every value of the constants.
THEOREM Invariance == Spec => []IInv
  BY Initially, Inductive, PTL DEF Spec

(***************************************************************************)
(* The theorems                                                            *)
(***************************************************************************)

\* Every row, lease and event has its type, whatever the callers do.
THEOREM TypeCorrect == Spec => []TypeOK
<1>1. IInv => TypeOK
  BY DEF IInv, Types, TypeOK
<1> QED BY <1>1, Invariance, PTL

\* A Repository's lease is held exactly by its one Task in progress (admit,
\* persistFact and the retry and reservation transactions of task-authority.ts).
THEOREM LeaseIsExclusive == Spec => []LeaseMatchesActive
<1>1. IInv => LeaseMatchesActive
  BY DEF IInv
<1> QED BY <1>1, Invariance, PTL

\* The evidence of a Task is about its current candidate only (applyTaskFact).
THEOREM EvidenceIsCurrent == Spec => []EvidenceChain
<1>1. IInv => EvidenceChain
  BY DEF IInv, Rows, RowInv, EvidenceChain
<1> QED BY <1>1, Invariance, PTL

\* A wait keeps what its resumption relies on (applyTaskFact's waiting and retry).
THEOREM WaitsKeepTheirEvidence == Spec => []AwaitedEvidence
<1>1. IInv => AwaitedEvidence
  BY DEF IInv, Rows, RowInv, AwaitedEvidence
<1> QED BY <1>1, Invariance, PTL

\* Review cycles pay for the batches and the attempts of reviews, within budget.
THEOREM ReviewsArePaid == Spec => []ReviewAccounting
<1>1. IInv => ReviewAccounting
  BY DEF IInv, Rows, RowInv, ReviewAccounting
<1> QED BY <1>1, Invariance, PTL

\* A superseded writer never publishes: each new candidate carries the newest
\* reservation's number, above every earlier fence (reserveActivation, candidate).
THEOREM SupersededWritersAreFenced == Spec => NewestWriterPublishes
<1> DEFINE Published ==
        \A t \in Tasks :
            Admitted(t) /\ task'[t].candidateSha # task[t].candidateSha =>
                /\ task'[t].candidateFence = task[t].implementerActivations
                /\ task'[t].candidateFence > task[t].candidateFence
                /\ task'[t].candidateSha > task[t].candidateSha
<1>1. ASSUME IInv, [Next]_vars PROVE Published
  <2> SUFFICES ASSUME NEW u \in Tasks, Admitted(u),
                      task'[u].candidateSha # task[u].candidateSha
               PROVE  /\ task'[u].candidateFence = task[u].implementerActivations
                      /\ task'[u].candidateFence > task[u].candidateFence
                      /\ task'[u].candidateSha > task[u].candidateSha
    OBVIOUS
  <2>1. PICK t \in Tasks : \/ Admit(t) \/ PassDeadline(t)
                           \/ \E next, id : SavesFact(t, next, id)
    BY <1>1, StepShape DEF vars
  <2>2. ~PassDeadline(t) BY DEF PassDeadline
  <2>3. ~Admit(t)
    BY <1>1, AdmittedActive
  <2>4. PICK next, id : SavesFact(t, next, id) BY <2>1, <2>2, <2>3
  <2>5. u = t BY <1>1, <2>4, SavedActive
  <2>6. /\ task'[t].candidateSha = next.candidateSha
        /\ task'[t].candidateFence = next.candidateFence
    <3>1. next \in TaskResult BY <2>4 DEF SavesFact, RowInv
    <3>2. task' = [task EXCEPT ![t] = [next EXCEPT !.revision = task[t].revision + 1]]
      BY <1>1, <2>4, SavedRow
    <3> QED BY <1>1, <3>1, <3>2 DEF IInv, Types, TaskResult
  <2> QED BY <2>4, <2>5, <2>6 DEF SavesFact, RowStep
<1>2. IInv /\ [Next]_vars => [Published]_vars
  BY <1>1
<1> QED BY <1>2, Invariance, PTL DEF Spec, NewestWriterPublishes

\* A Task that ended is never written again, nor is its history: no operation
\* holds a lease for it (CanPersist, reserveActivation, retryTask).
THEOREM EndedTasksStay == Spec => TerminalIsFinal
<1> DEFINE Kept ==
        \A t \in Tasks :
            Admitted(t) /\ IsTerminalState(task[t].state) =>
                task'[t] = task[t] /\ events'[t] = events[t]
<1>1. ASSUME IInv, [Next]_vars PROVE Kept
  <2> SUFFICES ASSUME NEW u \in Tasks, Admitted(u), IsTerminalState(task[u].state)
               PROVE  task'[u] = task[u] /\ events'[u] = events[u]
    OBVIOUS
  <2>1. CASE UNCHANGED vars BY <2>1 DEF vars
  <2>2. ASSUME NEW t \in Tasks, Admit(t)
        PROVE  task'[u] = task[u] /\ events'[u] = events[u]
    <3>1. u # t BY <1>1, <2>2, AdmittedActive
    <3> QED BY <1>1, <2>2, <3>1 DEF Admit, IInv, Types
  <2>3. ASSUME NEW t \in Tasks, PassDeadline(t)
        PROVE  task'[u] = task[u] /\ events'[u] = events[u]
    BY <2>3 DEF PassDeadline
  <2>4. ASSUME NEW t \in Tasks, NEW next, NEW id, SavesFact(t, next, id)
        PROVE  task'[u] = task[u] /\ events'[u] = events[u]
    <3>1. u # t BY <2>4 DEF SavesFact, Active
    <3> QED BY <1>1, <2>4, <3>1, SavedRow DEF IInv, Types
  <2> QED BY <1>1, <2>1, <2>2, <2>3, <2>4, StepShape
<1>2. IInv /\ [Next]_vars => [Kept]_vars
  BY <1>1
<1> QED BY <1>2, Invariance, PTL DEF Spec, TerminalIsFinal

(***************************************************************************)
(* Capacity, and the abstract service                                      *)
(***************************************************************************)

InProgress == {t \in Tasks : Active(t)}
Ended == {t \in Tasks : Admitted(t) /\ ~Active(t)}

\* The counted set is finite, so that its cardinality means something.
CapacityInv == IsFiniteSet(InProgress) /\ Cardinality(InProgress) <= Capacity

\* How a step changes the sets the service sees.
LEMMA StepOfService ==
    ASSUME IInv, [Next]_vars
    PROVE  \/ InProgress' = InProgress /\ Ended' = Ended
           \/ \E t \in Tasks :
                 /\ t \notin InProgress \cup Ended
                 /\ \A u \in InProgress : RepositoryOf[u] # RepositoryOf[t]
                 /\ Cardinality(InProgress) < Capacity
                 /\ InProgress' = InProgress \cup {t} /\ Ended' = Ended
           \/ \E t \in Tasks :
                 /\ t \in InProgress
                 /\ InProgress' = InProgress \ {t} /\ Ended' = Ended \cup {t}
<1>1. CASE UNCHANGED vars
  BY <1>1 DEF vars, InProgress, Ended, Active, Admitted
<1>2. ASSUME NEW t \in Tasks, Admit(t)
      PROVE  /\ t \notin InProgress \cup Ended
             /\ \A u \in InProgress : RepositoryOf[u] # RepositoryOf[t]
             /\ Cardinality(InProgress) < Capacity
             /\ InProgress' = InProgress \cup {t} /\ Ended' = Ended
  <2>1. ~Admitted(t) /\ Active(t)' /\ Admitted(t)'
    BY <1>2, AdmittedActive
  <2>2. \A u \in Tasks \ {t} : (Active(u)' <=> Active(u)) /\ (Admitted(u)' <=> Admitted(u))
    BY <1>2, AdmittedActive DEF Admitted
  <2>3. lease[RepositoryOf[t]] = Null /\ Cardinality(InProgress) < Capacity
    BY <1>2 DEF Admit, CanAdmit, InProgress
  <2>4. \A u \in InProgress : RepositoryOf[u] # RepositoryOf[t]
    BY <2>3, TasksAssumption DEF InProgress, IInv, LeaseMatchesActive, HoldsLease
  <2>5. InProgress' = InProgress \cup {t}
    BY <2>1, <2>2 DEF InProgress
  <2>6. Ended' = Ended
    BY <2>1, <2>2 DEF Ended
  <2>7. t \notin InProgress \cup Ended
    BY <2>1 DEF InProgress, Ended, Active
  <2> QED BY <2>3, <2>4, <2>5, <2>6, <2>7
<1>3. ASSUME NEW t \in Tasks, PassDeadline(t)
      PROVE  InProgress' = InProgress /\ Ended' = Ended
  BY <1>3 DEF PassDeadline, InProgress, Ended, Active, Admitted
<1>4. ASSUME NEW t \in Tasks, NEW next, NEW id, SavesFact(t, next, id)
      PROVE  \/ InProgress' = InProgress /\ Ended' = Ended
             \/ /\ t \in InProgress
                /\ InProgress' = InProgress \ {t} /\ Ended' = Ended \cup {t}
  <2>1. t \in InProgress /\ Admitted(t)
    BY <1>4 DEF SavesFact, InProgress, Active
  <2>2. CASE IsTerminalState(next.state)
    <3>1. InProgress' = InProgress \ {t}
      BY <1>4, <2>2, SavedActive DEF InProgress
    <3>2. Ended' = Ended \cup {t}
      BY <1>4, <2>1, <2>2, SavedActive DEF Ended
    <3> QED BY <2>1, <3>1, <3>2
  <2>3. CASE ~IsTerminalState(next.state)
    BY <1>4, <2>3, SavedActive DEF InProgress, Ended
  <2> QED BY <2>2, <2>3
<1> QED BY <1>1, <1>2, <1>3, <1>4, StepShape

\* The server's capacity bounds the Tasks in progress (activeTaskCapacity, admit).
THEOREM CapacityHolds == Spec => []WithinCapacity
<1>1. Init => CapacityInv
  <2> SUFFICES ASSUME Init PROVE CapacityInv
    OBVIOUS
  <2>1. InProgress = {}
    BY DEF Init, InProgress, Active, Admitted
  <2> QED BY <2>1, FS_EmptySet, BudgetsAssumption DEF CapacityInv
<1>2. IInv /\ CapacityInv /\ [Next]_vars => CapacityInv'
  <2> SUFFICES ASSUME IInv, CapacityInv, [Next]_vars PROVE CapacityInv'
    OBVIOUS
  <2>1. CASE InProgress' = InProgress
    BY <2>1 DEF CapacityInv
  <2>2. ASSUME NEW t \in Tasks, t \notin InProgress, Cardinality(InProgress) < Capacity,
               InProgress' = InProgress \cup {t}
        PROVE  CapacityInv'
    <3>1. /\ IsFiniteSet(InProgress \cup {t})
          /\ Cardinality(InProgress \cup {t}) = Cardinality(InProgress) + 1
      BY <2>2, FS_AddElement DEF CapacityInv
    <3>2. Cardinality(InProgress) \in Nat
      BY FS_CardinalityType DEF CapacityInv
    <3> QED BY <2>2, <3>1, <3>2, BudgetsAssumption DEF CapacityInv
  <2>3. ASSUME NEW t \in Tasks, t \in InProgress, InProgress' = InProgress \ {t}
        PROVE  CapacityInv'
    <3>1. /\ IsFiniteSet(InProgress \ {t})
          /\ Cardinality(InProgress \ {t}) = Cardinality(InProgress) - 1
      BY <2>3, FS_RemoveElement DEF CapacityInv
    <3>2. Cardinality(InProgress) \in Nat
      BY FS_CardinalityType DEF CapacityInv
    <3> QED BY <2>3, <3>1, <3>2, BudgetsAssumption DEF CapacityInv
  <2> QED BY <2>1, <2>2, <2>3, StepOfService
<1>3. CapacityInv => WithinCapacity
  BY DEF CapacityInv, WithinCapacity, InProgress
<1> QED BY <1>1, <1>2, <1>3, Invariance, PTL DEF Spec

\* The row and lease tables implement the abstract writer service.
THEOREM TablesImplementWriterLeases == Spec => ImplementsWriterLeases
<1>1. Init => Service!Init
  BY DEF Init, Service!Init, Active, Admitted
<1>2. IInv /\ [Next]_vars => [Service!Next]_(Service!serviceVars)
  <2> SUFFICES ASSUME IInv, [Next]_vars PROVE [Service!Next]_(Service!serviceVars)
    OBVIOUS
  <2>1. CASE InProgress' = InProgress /\ Ended' = Ended
    BY <2>1 DEF Service!serviceVars, InProgress, Ended
  <2>2. ASSUME NEW t \in Tasks,
               t \notin InProgress \cup Ended,
               \A u \in InProgress : RepositoryOf[u] # RepositoryOf[t],
               Cardinality(InProgress) < Capacity,
               InProgress' = InProgress \cup {t}, Ended' = Ended
        PROVE  Service!Next
    <3>1. Service!Start(t)
      <4>1. Service!Cardinality(InProgress) = Cardinality(InProgress)
        BY DEF Service!Cardinality, Cardinality
      <4> QED BY <2>2, <4>1, Zenon DEF Service!Start, InProgress, Ended
    <3> QED BY <3>1 DEF Service!Next
  <2>3. ASSUME NEW t \in Tasks, t \in InProgress,
               InProgress' = InProgress \ {t}, Ended' = Ended \cup {t}
        PROVE  Service!Next
    <3>1. Service!End(t)
      BY <2>3 DEF Service!End, InProgress, Ended
    <3> QED BY <3>1 DEF Service!Next
  <2> QED BY <2>1, <2>2, <2>3, StepOfService
<1> QED BY <1>1, <1>2, Invariance, PTL DEF Spec, Service!Spec, ImplementsWriterLeases

(***************************************************************************)
(* History                                                                 *)
(***************************************************************************)

NoTerminalEvent(h) == \A i \in DOMAIN h : h[i][1] # "terminal"

\* An event of another kind leaves a history that has not ended open.
LEMMA FactEventKeepsOpen ==
    ASSUME NEW h \in Seq(EventIds), NoTerminalEvent(h),
           NEW id \in EventIds, id[1] # "terminal"
    PROVE  AppendEvent(h, id) \in Seq(EventIds) /\ NoTerminalEvent(AppendEvent(h, id))
<1>1. CASE HasEvent(h, id)
  BY <1>1 DEF AppendEvent
<1>2. CASE ~HasEvent(h, id)
  <2>1. AppendEvent(h, id) = Append(h, id)
    BY <1>2 DEF AppendEvent
  <2> QED BY <2>1 DEF NoTerminalEvent
<1> QED BY <1>1, <1>2

\* The terminal event of an open history is new, and comes last.
LEMMA TerminalEventComesLast ==
    ASSUME NEW h \in Seq(EventIds), NoTerminalEvent(h), NEW s \in TerminalStates
    PROVE  LET k == AppendEvent(h, <<"terminal", s>>) IN
           \A i \in DOMAIN k : k[i][1] = "terminal" <=> i = Len(k)
<1>1. ~HasEvent(h, <<"terminal", s>>)
  BY DEF HasEvent, NoTerminalEvent
<1> DEFINE last == <<"terminal", s>>
           k == AppendEvent(h, last)
<1>2. k = Append(h, last)
  BY <1>1 DEF AppendEvent
<1>3. last[1] = "terminal" /\ last \in EventIds
  BY EventIdType
<1> HIDE DEF last, k
<1>4. /\ Len(k) = Len(h) + 1 /\ DOMAIN k = 1..(Len(h) + 1)
      /\ DOMAIN h = 1..Len(h) /\ Len(h) \in Nat
      /\ k[Len(h) + 1] = last
      /\ \A i \in 1..Len(h) : k[i] = h[i]
  BY <1>2, <1>3
<1>5. \A i \in DOMAIN k : k[i][1] = "terminal" <=> i = Len(k)
  BY <1>3, <1>4 DEF NoTerminalEvent
<1> QED BY <1>5 DEF last, k

\* The history of a Task ends with its terminal event, exactly when the Task did
\* (appendFactEvents).
THEOREM HistoriesEnd == Spec => []HistoryEndsWithTheTask
<1> DEFINE Ends(t) ==
        \A i \in DOMAIN events[t] :
            events[t][i][1] = "terminal" <=>
                i = Len(events[t]) /\ IsTerminalState(task[t].state)
<1>1. Init => HistoryEndsWithTheTask
  BY DEF Init, HistoryEndsWithTheTask, Admitted
<1>2. ASSUME IInv, HistoryEndsWithTheTask, [Next]_vars
      PROVE  HistoryEndsWithTheTask'
  <2> SUFFICES ASSUME NEW u \in Tasks, Admitted(u)' PROVE Ends(u)'
    BY DEF HistoryEndsWithTheTask
  <2>1. ASSUME task'[u] = task[u], events'[u] = events[u] PROVE Ends(u)'
    <3>1. Admitted(u)
      BY <2>1 DEF Admitted
    <3>2. Ends(u)
      BY <1>2, <3>1 DEF HistoryEndsWithTheTask
    <3> QED BY <2>1, <3>2
  <2>2. ASSUME NEW t \in Tasks, Admit(t) PROVE Ends(u)'
    <3>1. CASE u # t
      BY <1>2, <2>1, <2>2, <3>1 DEF Admit, IInv, Types
    <3>2. CASE u = t
      <4>1. events'[t] = <<<<"task-admitted">>>> /\ task'[t].state = "admitted"
        BY <1>2, <2>2, AdmittedActive, NewTaskRow DEF Admit, IInv, Types
      <4> QED BY <3>2, <4>1 DEF IsTerminalState, TerminalStates
    <3> QED BY <3>1, <3>2
  <2>3. ASSUME NEW t \in Tasks, NEW next, NEW id, SavesFact(t, next, id) PROVE Ends(u)'
    <3>1. CASE u # t
      BY <1>2, <2>1, <2>3, <3>1, SavedRow DEF IInv, Types
    <3>2. CASE u = t
      <4> DEFINE h == events[t]
                 k == AppendEvent(h, id)
      <4>1. h \in Seq(EventIds) /\ NoTerminalEvent(h)
        BY <1>2, <2>3 DEF IInv, Types, HistoryEndsWithTheTask, SavesFact, Active,
           NoTerminalEvent
      <4>2. k \in Seq(EventIds) /\ NoTerminalEvent(k)
        BY <2>3, <4>1, FactEventKeepsOpen DEF SavesFact
      <4>3. /\ events'[t] = AppendFactEvents(h, id, next.state)
            /\ task'[t].state = next.state
        BY <1>2, <2>3, SavedRow DEF IInv, Types
      <4>4. CASE IsTerminalState(next.state)
        <5>1. events'[t] = AppendEvent(k, <<"terminal", next.state>>)
          BY <4>3, <4>4 DEF AppendFactEvents
        <5> HIDE DEF k
        <5> QED
          BY <3>2, <4>2, <4>3, <4>4, <5>1, TerminalEventComesLast DEF IsTerminalState
      <4>5. CASE ~IsTerminalState(next.state)
        <5>1. events'[t] = k
          BY <4>3, <4>5 DEF AppendFactEvents
        <5> HIDE DEF k
        <5> QED BY <3>2, <4>2, <4>3, <4>5, <5>1 DEF NoTerminalEvent
      <4> QED BY <4>4, <4>5
    <3> QED BY <3>1, <3>2
  <2>4. CASE UNCHANGED vars
    BY <2>1, <2>4 DEF vars
  <2>5. ASSUME NEW t \in Tasks, PassDeadline(t) PROVE Ends(u)'
    BY <2>1, <2>5 DEF PassDeadline
  <2> QED BY <1>2, <2>2, <2>3, <2>4, <2>5, StepShape
<1>3. IInv /\ HistoryEndsWithTheTask /\ [Next]_vars => HistoryEndsWithTheTask'
  BY <1>2
<1> QED BY <1>1, <1>3, Invariance, PTL DEF Spec
====
