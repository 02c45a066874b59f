---- MODULE DeliveryRun ----
(***************************************************************************)
(* Delivery Run inside the local server: who calls Task Authority, when,   *)
(* and with what they remember.                                            *)
(*                                                                         *)
(* An execution is one call of executeServerTask: executeAdmittedTask      *)
(* (runtime.ts) around executeDeliveryRun (delivery-run.ts) with its coding*)
(* activation (coding-activation.ts).  It keeps the TaskResult of its last *)
(* authority call (seen) across awaits, so everything it decides may be    *)
(* stale: the operator, a replacement execution, the pipeline timer, the   *)
(* clock and a crash all interleave with it.  Each step below runs up to   *)
(* and including the next authority transaction, or the return of an       *)
(* external service (coding session, Quality Gate, Forge), whose outcomes  *)
(* are the ones those services' code returns.                              *)
(*                                                                         *)
(* The server (server.ts) launches executions, deduplicated or replacing,  *)
(* keeps one pipeline timer per waiting Task, closes gracefully (aborting  *)
(* its executions) or crashes, and restarts from the durable rows.         *)
(***************************************************************************)
EXTENDS TaskAuthority

CONSTANTS
    Executions,     \* bound: executions alive at once
    Processes,      \* bound: server processes, one owner ID each
    MaxWaits,       \* bound: waits a Task's services may cause
    Resubmitted     \* the Tasks whose contract a caller submits again

ASSUME ProcessesAssumption == Processes \in Nat \ {0} /\ Owners = 1..Processes
ASSUME WaitsAssumption == MaxWaits \in Nat
ASSUME ResubmittedAssumption == Resubmitted \subseteq Tasks
ASSUME RunBlockersAssumption == {"failure", "conflict"} \subseteq Blockers
ASSUME RunNullAssumption == Null \notin Tasks

VARIABLES
    runs,       \* [Executions -> Run]: the server's Task operations
    server,     \* "up", "closing" or "down"
    process,    \* executionOwnerId of the current server process
    timers,     \* Tasks with a pipeline recovery timer
    pending,    \* [Tasks -> launch mode]: a request that has still to launch
    waits       \* [Tasks -> 0..MaxWaits]: waits the environment has caused

runVars == <<runs, server, process, timers, pending, waits>>
allVars == <<task, lease, expired, events, runs, server, process, timers, pending, waits>>

LaunchModes == {"none", "deduplicated", "replace"}

Stages ==
    {"idle", "prelude", "admit", "loop", "resuming", "activate", "coding",
     "unprepared", "checking", "unavailable", "reviewing", "delivering",
     "failed", "blocking", "ended", "rejected"}

\* The stages an execution may stay in for long: sessions, checks, network.
Serving == {"coding", "checking", "reviewing", "delivering"}

\* The stages between two calls of the authority with nothing slow in between.
Requested == {"resuming", "unavailable", "blocking"}

Run ==
    [stage : Stages,
     task : Tasks \cup {Null},
     seen : TaskResult \cup {Null},      \* executeDeliveryRun's `result`
     prior : Nat,                        \* revision activateImplementer was given
     aborted : BOOLEAN,                  \* signal.aborted
     claimed : BOOLEAN,                  \* claimedReviewCycle is not null
     cause : Blockers]                   \* what an error was about

IdleRun ==
    [stage |-> "idle", task |-> Null, seen |-> Null, prior |-> 0,
     aborted |-> FALSE, claimed |-> FALSE, cause |-> "failure"]

StartedRun(t) == [IdleRun EXCEPT !.stage = "prelude", !.task = t]

Idle(e) == runs[e].stage = "idle"
Over(e) == runs[e].stage \in {"ended", "rejected"}
Busy(t) == \E e \in Executions : ~Idle(e) /\ runs[e].task = t

\* Restartable and launchable states: every nonterminal one the server may
\* continue without the operator.
\* Fault: every delivery wait is taken for a pipeline wait.
PipelineWait_AnyDelivery(r) ==
    r.state = "waiting" /\ r.waiting.reason \in DeliveryReasons

PipelineWait(r) == r.state = "waiting" /\ r.waiting.reason = "pipeline_checks"
ReviewWait(r) == r.state = "waiting" /\ r.waiting.reason = "review_interruption"
Launchable(r) == ~IsTerminalState(r.state) /\ (r.state # "waiting" \/ PipelineWait(r))
\* Fault: a reviewer's interruption is left to the operator.
Restartable_NoReviewWait(r) == Launchable(r)

Restartable(r) == Launchable(r) \/ ReviewWait(r)

(***************************************************************************)
(* The server                                                              *)
(***************************************************************************)

\* Fault: what the launch replaces is not told to stop.
Launch_KeepsOthers(t, mode, armed) ==
    /\ mode = "replace" \/ ~(t \in armed \/ Busy(t))
    /\ timers' = armed \ {t}
    /\ \E e \in Executions : Idle(e) /\ runs' = [runs EXCEPT ![e] = StartedRun(t)]

\* launchTask: a deduplicated launch is dropped when the Task has a timer or an
\* operation; a replacing one clears the timer and aborts what it replaces.
Launch(t, mode, armed) ==
    \/ /\ mode = "deduplicated" /\ (t \in armed \/ Busy(t))
       /\ timers' = armed
       /\ UNCHANGED runs
    \/ /\ mode = "replace" \/ ~(t \in armed \/ Busy(t))
       /\ timers' = armed \ {t}
       /\ \E e \in Executions :
             /\ Idle(e)
             /\ runs' = [f \in Executions |->
                   CASE f = e -> StartedRun(t)
                     [] f # e /\ runs[f].task = t -> [runs[f] EXCEPT !.aborted = TRUE]
                     [] OTHER -> runs[f]]

\* POST /tasks of a new contract: admit, then launch.
Submit(t) ==
    /\ server = "up" /\ pending[t] = "none"
    /\ Admit(t)
    /\ pending' = [pending EXCEPT ![t] = "deduplicated"]
    /\ UNCHANGED <<runs, server, process, timers, waits>>

\* The same contract again: an expired Task is blocked, a Task the server may
\* continue is launched.
Resubmit(t) ==
    /\ server = "up" /\ pending[t] = "none"
    /\ t \in Resubmitted /\ Active(t)
    /\ \/ /\ t \in expired
          /\ Block(t, task[t].revision, "elapsed_budget")
          /\ UNCHANGED pending
       \/ /\ t \notin expired /\ Launchable(task[t])
          /\ pending' = [pending EXCEPT ![t] = "deduplicated"]
          /\ UNCHANGED vars
    /\ UNCHANGED <<runs, server, process, timers, waits>>

\* POST /tasks/:id/retry: the compare-and-set first, the launch after it.
OperatorRetry(t) ==
    /\ server = "up" /\ pending[t] = "none"
    /\ RetryTask(t, ActivationLimit[t])
    /\ pending' = [pending EXCEPT ![t] =
                      IF IsTerminalState(task'[t].state) THEN "none" ELSE "replace"]
    /\ UNCHANGED <<runs, server, process, timers, waits>>

\* The launch that ends a request, or one step of the restart loop.  A process
\* runs its transactions in the order they were requested (enqueueTransaction):
\* one that an execution has just read the row for comes before the launch's.
CompleteLaunch(t) ==
    /\ server = "up" /\ pending[t] # "none"
    /\ \A e \in Executions : runs[e].task = t => runs[e].stage \notin Requested
    /\ Launch(t, pending[t], timers)
    /\ pending' = [pending EXCEPT ![t] = "none"]
    /\ UNCHANGED <<vars, server, process, waits>>

\* A pipeline timer fires PIPELINE_REOBSERVE_INTERVAL_MS (15 s) after it was armed,
\* or at the deadline if that is sooner.  The execution that armed it has been
\* through the Forge: by then every accepted request has launched, what was aborted
\* has honoured its signal, and an execution still alive is inside a service or the
\* git reads that verify its contract, not between two promises.
\* The timer is removed before the launch is attempted.
FireTimer(t) ==
    /\ server = "up" /\ t \in timers /\ pending[t] = "none"
    /\ \A e \in Executions : runs[e].task = t =>
          runs[e].stage \in Serving \cup {"admit"} /\ ~runs[e].aborted
    /\ Launch(t, "deduplicated", timers \ {t})
    /\ UNCHANGED <<vars, server, process, pending, waits>>

\* Fault: no timer is armed.
Settle_NoTimer(e) ==
    /\ Over(e)
    /\ runs' = [runs EXCEPT ![e] = IdleRun]
    /\ UNCHANGED <<vars, server, process, timers, pending, waits>>

\* An operation settles: cleanup, and a new timer after a pipeline wait.
Settle(e) ==
    /\ Over(e)
    /\ timers' = IF /\ runs[e].stage = "ended"
                    /\ PipelineWait(runs[e].seen)
                    /\ server = "up"
                 THEN timers \cup {runs[e].task}
                 ELSE timers
    /\ runs' = [runs EXCEPT ![e] = IdleRun]
    /\ UNCHANGED <<vars, server, process, pending, waits>>

\* close(): timers cleared, every execution aborted, then awaited.
Close ==
    /\ server = "up" /\ process < Processes
    /\ server' = "closing"
    /\ timers' = {}
    /\ pending' = [t \in Tasks |-> "none"]
    /\ runs' = [e \in Executions |->
                  IF Idle(e) THEN runs[e] ELSE [runs[e] EXCEPT !.aborted = TRUE]]
    /\ UNCHANGED <<vars, process, waits>>

Closed ==
    /\ server = "closing"
    /\ \A e \in Executions : Idle(e)
    /\ server' = "down"
    /\ UNCHANGED <<vars, runs, process, timers, pending, waits>>

\* The process dies: everything but the durable rows is lost.
Crash ==
    /\ server # "down" /\ process < Processes
    /\ server' = "down"
    /\ runs' = [e \in Executions |-> IdleRun]
    /\ timers' = {}
    /\ pending' = [t \in Tasks |-> "none"]
    /\ UNCHANGED <<vars, process, waits>>

\* A new process re-enters every restartable Task.
Restart ==
    /\ server = "down"
    /\ server' = "up"
    /\ process' = process + 1
    /\ pending' = [t \in Tasks |->
                     IF Admitted(t) /\ Restartable(task[t]) THEN "deduplicated" ELSE "none"]
    /\ UNCHANGED <<vars, runs, timers, waits>>

Deadline(t) == PassDeadline(t) /\ UNCHANGED runVars

(***************************************************************************)
(* One execution.  Its steps leave the server alone.                       *)
(***************************************************************************)

T(e) == runs[e].task
Seen(e) == runs[e].seen
Rev(e) == runs[e].seen.revision
At(e, stage) == runs[e].stage = stage

Goto(e, stage) == runs' = [runs EXCEPT ![e].stage = stage]

\* An error reaches executeAdmittedTask's catch.
Fail(e, cause) ==
    runs' = [runs EXCEPT ![e].stage = "failed", ![e].cause = cause, ![e].seen = Null]

\* A call of Task Authority: it commits and its result becomes what the
\* execution has seen, or it throws and nothing changes.
Call(e, accepted, transaction, stage) ==
    \/ /\ accepted
       /\ transaction
       /\ runs' = [runs EXCEPT ![e].stage = stage, ![e].seen = task'[runs[e].task]]
    \/ /\ ~accepted
       /\ Fail(e, "conflict")
       /\ UNCHANGED vars

\* blockTask: a compare-and-set on the revision of the result it is given.
BlockTask(e, rev, cause) ==
    Call(e, CanBlock(T(e), rev), Block(T(e), rev, cause), "ended")

\* executeAdmittedTask reads the row; a Task it may not continue is returned.
Lookup(e) ==
    /\ At(e, "prelude")
    /\ runs' = [runs EXCEPT
                   ![e].seen = task[T(e)],
                   ![e].stage = IF Restartable(task[T(e)]) THEN "admit" ELSE "ended"]
    /\ UNCHANGED vars

\* The registration or the policy is unusable: executeServerTask blocks whatever
\* Task the row still holds, even if the launch was replaced meanwhile.
PolicyFails(e) ==
    /\ At(e, "prelude")
    /\ runs' = [runs EXCEPT ![e].seen = task[T(e)],
                            ![e].stage = IF Active(T(e)) THEN "blocking" ELSE "ended"]
    /\ UNCHANGED vars

\* The committed contract no longer verifies.
VerificationFails(e) == At(e, "admit") /\ Fail(e, "failure") /\ UNCHANGED vars

\* executeDeliveryRun starts from authority.admit, which returns the row.
ReadAdmission(e) ==
    /\ At(e, "admit")
    /\ \/ runs[e].aborted /\ Fail(e, "failure")
       \/ /\ ~runs[e].aborted
          /\ runs' = [runs EXCEPT ![e].seen = task[T(e)], ![e].stage = "loop"]
    /\ UNCHANGED vars

\* Loop top: a terminal result, or a wait for the operator, is returned.
ReturnResult(e) ==
    /\ At(e, "loop")
    /\ \/ IsTerminalState(Seen(e).state)
       \/ T(e) \notin expired /\ ~Restartable(Seen(e))
    /\ Goto(e, "ended")
    /\ UNCHANGED vars

ReachDeadline(e) ==
    /\ At(e, "loop")
    /\ T(e) \in expired /\ ~IsTerminalState(Seen(e).state)
    /\ BlockTask(e, Rev(e), "elapsed_budget")

\* The loop's phases run while the deadline has not passed.
InPhase(e, state) == At(e, "loop") /\ T(e) \notin expired /\ Seen(e).state = state

\* resumePipelineChecks compares the revision outside the transaction ...
ResumePipeline(e) ==
    /\ InPhase(e, "waiting") /\ PipelineWait(Seen(e))
    /\ IF task[T(e)].revision = Rev(e) THEN Goto(e, "resuming") ELSE Fail(e, "conflict")
    /\ UNCHANGED vars

\* ... and retryTask decides again inside it, with no activation budget.
ResumePipelineRetry(e) ==
    /\ At(e, "resuming")
    /\ Call(e, CanRetry(T(e), Unlimited), RetryTask(T(e), Unlimited), "loop")

ReviewBudgetLeft(e) == ~CountBudgetExhausted(ReviewLimit[T(e)], Seen(e).reviewCycles)
ActivationBudgetLeft(e) ==
    ~CountBudgetExhausted(ActivationLimit[T(e)], Seen(e).implementerActivations)

\* reserveReviewAttempt: an attempt already running is returned unclaimed.
ReserveReview(e) ==
    \/ /\ task[T(e)].state = "reviewing"
       /\ runs' = [runs EXCEPT ![e].seen = task[T(e)], ![e].stage = "ended"]
       /\ UNCHANGED vars
    \/ /\ task[T(e)].state # "reviewing" /\ CanReserveReviewAttempt(T(e))
       /\ ReserveReviewAttempt(T(e), process)
       /\ runs' = [runs EXCEPT ![e].seen = task'[runs[e].task], ![e].claimed = TRUE]
    \/ /\ task[T(e)].state # "reviewing" /\ ~CanReserveReviewAttempt(T(e))
       /\ Fail(e, "conflict")
       /\ UNCHANGED vars

\* A reviewer interruption: transient ones get one fresh attempt.
RecoverReview(e) ==
    /\ InPhase(e, "waiting") /\ ReviewWait(Seen(e))
    /\ \/ /\ Seen(e).waiting.failureClass # "transient" \/ ~ReviewBudgetLeft(e)
          /\ BlockTask(e, Rev(e), "failure")
       \/ /\ Seen(e).waiting.failureClass = "transient" /\ ReviewBudgetLeft(e)
          /\ ReserveReview(e)

\* activateImplementer is given the result seen so far.
Activate(e) ==
    runs' = [runs EXCEPT ![e].stage = "activate", ![e].prior = runs[e].seen.revision]

StartImplementing(e) == InPhase(e, "admitted") /\ Activate(e) /\ UNCHANGED vars

RepairFailedCheck(e) ==
    /\ InPhase(e, "checked")
    /\ Seen(e).check.status = "failed"
    /\ Activate(e)
    /\ UNCHANGED vars

StartReview(e) ==
    /\ InPhase(e, "checked")
    /\ Seen(e).check.status = "passed"
    /\ \/ ~ReviewBudgetLeft(e) /\ BlockTask(e, Rev(e), "failure")
       \/ ReviewBudgetLeft(e) /\ ReserveReview(e)

\* The findings of one review are one repair batch, recorded before its writer.
RepairReviewed(e) ==
    /\ InPhase(e, "reviewed") /\ Seen(e).review.verdict = "changes_requested"
    /\ \/ /\ ~ActivationBudgetLeft(e) \/ ~ReviewBudgetLeft(e)
          /\ BlockTask(e, Rev(e), "failure")
       \/ /\ ActivationBudgetLeft(e) /\ ReviewBudgetLeft(e)
          /\ \/ /\ CanRecordRepairBatch(T(e), Rev(e))
                /\ RecordRepairBatch(T(e), Rev(e))
                /\ runs' = [runs EXCEPT
                               ![e].stage = "activate",
                               ![e].seen = task'[runs[e].task],
                               ![e].prior = task'[runs[e].task].revision]
             \/ /\ ~CanRecordRepairBatch(T(e), Rev(e))
                /\ Fail(e, "conflict")
                /\ UNCHANGED vars

EndInconclusive(e) ==
    /\ InPhase(e, "reviewed") /\ Seen(e).review.verdict = "inconclusive"
    /\ BlockTask(e, Rev(e), "failure")

\* runCodingAttempt reserves the activation before the workspace exists.
Reserve(e) ==
    /\ At(e, "activate")
    /\ \/ runs[e].aborted /\ Fail(e, "failure") /\ UNCHANGED vars
       \/ /\ ~runs[e].aborted /\ CanReserveActivation(T(e))
          /\ ReserveActivation(T(e))
          /\ runs' = [runs EXCEPT ![e].stage = "coding", ![e].seen = task'[runs[e].task]]
       \/ /\ ~runs[e].aborted /\ ~CanReserveActivation(T(e))
          /\ Goto(e, "unprepared")
          /\ UNCHANGED vars

\* prepareWriter, the session's start or an observation throws.
PreparationFails(e) ==
    /\ At(e, "coding")
    /\ IF runs[e].aborted THEN Fail(e, "failure") ELSE Goto(e, "unprepared")
    /\ UNCHANGED vars

\* activateImplementer's catch blocks with the result it was given, whose
\* revision the reservation may have replaced.
BlockUnprepared(e) ==
    /\ At(e, "unprepared")
    /\ BlockTask(e, runs[e].prior, "failure")

CodingAborted(e) ==
    At(e, "coding") /\ runs[e].aborted /\ Fail(e, "failure") /\ UNCHANGED vars

\* A turn lost to the network waits for the operator while budget remains.  Here,
\* and where a candidate or a review is recorded, the signal was last tested
\* before the observations of the session were saved: an abort may come late.
CodingFails(e) ==
    /\ At(e, "coding")
    /\ \/ BlockTask(e, Rev(e), "failure")
       \/ /\ ActivationBudgetLeft(e) /\ T(e) \notin expired
          /\ Seen(e).state \in {"admitted", "checked", "reviewed"}
          /\ LET n == Seen(e).implementerActivations
                 s == Seen(e).state IN
             Call(e, CanRecordWaiting(T(e), Rev(e), "network_interruption", s, n),
                  RecordWaiting(T(e), Rev(e), "network_interruption", s, n), "loop")

\* freeze returns a strict descendant of the commit the writer started from.
CodingSucceeds(e) ==
    /\ At(e, "coding")
    /\ \E sha \in Commits :
          /\ sha = Seen(e).candidateSha + 1
          /\ LET base == Seen(e).candidateSha
                 fence == Seen(e).implementerActivations IN
             Call(e, CanRecordCandidate(T(e), Rev(e), sha, base, fence),
                  RecordCandidate(T(e), Rev(e), sha, base, fence), "loop")

\* Earlier writers' worktrees are quarantined first, which may fail.
StartCheck(e) ==
    InPhase(e, "candidate") /\ (Goto(e, "checking") \/ Fail(e, "failure")) /\ UNCHANGED vars

CheckAborted(e) ==
    At(e, "checking") /\ runs[e].aborted /\ Fail(e, "failure") /\ UNCHANGED vars

CheckThrows(e) ==
    At(e, "checking") /\ ~runs[e].aborted /\ BlockTask(e, Rev(e), "failure")

CountWait(e) == waits' = [waits EXCEPT ![runs[e].task] = @ + 1]

\* The project check runs; an unavailable acceptance check fails it.
CheckCompletes(e) ==
    /\ At(e, "checking") /\ ~runs[e].aborted
    /\ \E check \in CheckResult :
          /\ check.sha = Seen(e).candidateSha
          /\ IF check.unavailable THEN waits[T(e)] < MaxWaits /\ CountWait(e)
                                  ELSE UNCHANGED waits
          /\ Call(e, CanRecordCheck(T(e), Rev(e), check), RecordCheck(T(e), Rev(e), check),
                  IF check.unavailable THEN "unavailable" ELSE "loop")

\* A wait for the Quality Gate's capability or for the Forge.
WaitFor(e, reason, resumeState) ==
    LET fence == Seen(e).candidateFence IN
    Call(e, CanRecordWaiting(T(e), Rev(e), reason, resumeState, fence),
         RecordWaiting(T(e), Rev(e), reason, resumeState, fence), "ended")

\* The shell could not start: no check result, the candidate waits.
CheckCapabilityMissing(e) ==
    /\ At(e, "checking") /\ ~runs[e].aborted
    /\ waits[T(e)] < MaxWaits
    /\ WaitFor(e, "project_check_capability", "candidate")
    /\ CountWait(e)

\* The check was recorded by one transaction; the wait is a second one.
RecordUnavailable(e) ==
    /\ At(e, "unavailable")
    /\ WaitFor(e, "project_check_capability", "candidate")

\* A reviewing Task found without a claim of this execution is taken over.
TakeOverReview(e) ==
    /\ InPhase(e, "reviewing") /\ ~runs[e].claimed
    /\ LET exhausted ==
              /\ task[T(e)].state = "reviewing" /\ HoldsLease(T(e))
              /\ CountBudgetExhausted(ReviewLimit[T(e)], task[T(e)].reviewCycles) IN
       \/ exhausted /\ BlockTask(e, task[T(e)].revision, "failure")
       \/ /\ ~exhausted /\ CanTakeOverReviewAttempt(T(e))
          /\ TakeOverReviewAttempt(T(e), process)
          /\ runs' = [runs EXCEPT ![e].stage = "reviewing", ![e].seen = task'[runs[e].task]]
       \/ /\ ~exhausted /\ ~CanTakeOverReviewAttempt(T(e))
          /\ Fail(e, "conflict")
          /\ UNCHANGED vars

BeginReview(e) ==
    /\ InPhase(e, "reviewing") /\ runs[e].claimed
    /\ runs' = [runs EXCEPT ![e].stage = "reviewing", ![e].claimed = FALSE]
    /\ UNCHANGED vars

\* Fault: the reservation is left behind.
ReviewAborted_KeepsReservation(e) ==
    /\ At(e, "reviewing") /\ runs[e].aborted
    /\ runs' = [runs EXCEPT ![e].stage = "rejected", ![e].seen = Null]
    /\ UNCHANGED vars

\* An aborted review gives its reservation back and counts no cycle.
ReviewAborted(e) ==
    /\ At(e, "reviewing") /\ runs[e].aborted
    /\ \/ /\ CanReleaseReviewAttempt(T(e), Rev(e), process)
          /\ ReleaseReviewAttempt(T(e), Rev(e), process)
       \/ /\ ~CanReleaseReviewAttempt(T(e), Rev(e), process)
          /\ UNCHANGED vars
    /\ runs' = [runs EXCEPT ![e].stage = "rejected", ![e].seen = Null]

\* The reviewer throws, or its session ends with neither verdict nor class.
ReviewFails(e) ==
    At(e, "reviewing") /\ ~runs[e].aborted /\ BlockTask(e, Rev(e), "failure")

ReviewCompletes(e) ==
    /\ At(e, "reviewing")
    /\ \E verdict \in Verdicts :
          LET review == [sha |-> Seen(e).candidateSha, verdict |-> verdict] IN
          Call(e, CanRecordReview(T(e), Rev(e), review, process),
               RecordReview(T(e), Rev(e), review, process), "loop")

ReviewInterrupted(e) ==
    /\ At(e, "reviewing")
    /\ \E c \in FailureClasses :
          LET sha == Seen(e).candidateSha IN
          Call(e, CanRecordReviewInterruption(T(e), Rev(e), sha, process),
               RecordReviewInterruption(T(e), Rev(e), sha, c, process), "loop")

StartDelivery(e) ==
    /\ InPhase(e, "reviewed") /\ Seen(e).review.verdict = "approved"
    /\ Goto(e, "delivering")
    /\ UNCHANGED vars

DeliveryAborted(e) ==
    At(e, "delivering") /\ runs[e].aborted /\ Fail(e, "failure") /\ UNCHANGED vars

DeliveryFails(e) ==
    At(e, "delivering") /\ ~runs[e].aborted /\ BlockTask(e, Rev(e), "failure")

\* Pull request checks, an external review or the merge itself is unresolved.
DeliveryPending(e) ==
    /\ At(e, "delivering") /\ ~runs[e].aborted
    /\ waits[T(e)] < MaxWaits
    /\ \E reason \in DeliveryReasons : WaitFor(e, reason, "reviewed")
    /\ CountWait(e)

\* Forge returns the effect it confirmed for this candidate, merged exactly when
\* the contract authorizes the merge.
DeliverySucceeds(e) ==
    /\ At(e, "delivering") /\ ~runs[e].aborted
    /\ \E pr \in PrNumbers :
          LET sha == Seen(e).candidateSha
              merge == IF T(e) \in MergeAuthorized
                       THEN [approvedHeadSha |-> sha, prNumber |-> pr] ELSE Null
              delivery == [sha |-> sha, prNumber |-> pr, merge |-> merge] IN
          Call(e, CanRecordDelivery(T(e), Rev(e), delivery),
               RecordDelivery(T(e), Rev(e), delivery), "ended")

\* executeAdmittedTask's catch: an aborted execution rethrows, any other reads
\* the row again and blocks the Task whatever the error was.
CatchError(e) ==
    /\ At(e, "failed")
    /\ runs' = [runs EXCEPT
                   ![e].stage = IF runs[e].aborted \/ ~Active(T(e))
                                THEN "rejected" ELSE "blocking",
                   ![e].seen = IF runs[e].aborted \/ ~Active(T(e))
                               THEN Null ELSE task[T(e)]]
    /\ UNCHANGED vars

BlockFailed(e) ==
    /\ At(e, "blocking")
    /\ \/ /\ CanBlock(T(e), Rev(e))
          /\ Block(T(e), Rev(e), runs[e].cause)
          /\ runs' = [runs EXCEPT ![e].stage = "ended", ![e].seen = task'[runs[e].task]]
       \/ /\ ~CanBlock(T(e), Rev(e))
          /\ runs' = [runs EXCEPT ![e].stage = "rejected", ![e].seen = Null]
          /\ UNCHANGED vars

\* The steps in which the Forge or the Quality Gate may cause a wait.
WaitStep(e) ==
    CheckCapabilityMissing(e) \/ CheckCompletes(e) \/ DeliveryPending(e)

WorkStep(e) ==
    \/ Lookup(e) \/ PolicyFails(e) \/ VerificationFails(e) \/ ReadAdmission(e)
    \/ ReturnResult(e) \/ ReachDeadline(e)
    \/ ResumePipeline(e) \/ ResumePipelineRetry(e) \/ RecoverReview(e)
    \/ StartImplementing(e) \/ RepairFailedCheck(e) \/ RepairReviewed(e)
    \/ Reserve(e) \/ PreparationFails(e) \/ BlockUnprepared(e)
    \/ CodingAborted(e) \/ CodingFails(e) \/ CodingSucceeds(e)
    \/ StartCheck(e) \/ CheckAborted(e) \/ CheckThrows(e) \/ RecordUnavailable(e)
    \/ StartReview(e) \/ TakeOverReview(e) \/ BeginReview(e) \/ ReviewAborted(e)
    \/ ReviewFails(e) \/ ReviewCompletes(e) \/ ReviewInterrupted(e)
    \/ EndInconclusive(e) \/ StartDelivery(e) \/ DeliveryAborted(e)
    \/ DeliveryFails(e) \/ DeliverySucceeds(e)
    \/ CatchError(e) \/ BlockFailed(e)

ExecutionStep(e) ==
    /\ \/ WaitStep(e)
       \/ WorkStep(e) /\ UNCHANGED waits
    /\ UNCHANGED <<server, process, timers, pending>>

RunInit ==
    /\ Init
    /\ runs = [e \in Executions |-> IdleRun]
    /\ server = "up"
    /\ process = 1
    /\ timers = {}
    /\ pending = [t \in Tasks |-> "none"]
    /\ waits = [t \in Tasks |-> 0]

RunNext ==
    \/ \E t \in Tasks :
          \/ Submit(t) \/ Resubmit(t) \/ OperatorRetry(t)
          \/ CompleteLaunch(t) \/ FireTimer(t) \/ Deadline(t)
    \/ \E e \in Executions : ExecutionStep(e) \/ Settle(e)
    \/ Close \/ Closed \/ Crash \/ Restart

RunSpec == RunInit /\ [][RunNext]_allVars

\* What the code's scheduling guarantees: a service call returns, an accepted
\* request launches, an armed timer fires, a settled operation is cleaned up, a
\* close completes and a stopped server is started again.  Nothing obliges a
\* caller to submit or retry, the clock to pass a deadline or a process to die.
RunFairness ==
    /\ \A e \in Executions : WF_allVars(ExecutionStep(e)) /\ WF_allVars(Settle(e))
    /\ \A t \in Tasks : WF_allVars(CompleteLaunch(t)) /\ WF_allVars(FireTimer(t))
    /\ WF_allVars(Closed) /\ WF_allVars(Restart)

FairRunSpec == RunSpec /\ RunFairness

(***************************************************************************)
(* Properties                                                              *)
(***************************************************************************)

\* What an execution remembers of its Task, by stage.
RunTypeOK ==
    /\ runs \in [Executions -> Run]
    /\ server \in {"up", "closing", "down"}
    /\ process \in Owners
    /\ timers \subseteq Tasks
    /\ pending \in [Tasks -> LaunchModes]
    /\ waits \in [Tasks -> 0..MaxWaits]
    /\ \A e \in Executions :
          /\ Idle(e) <=> T(e) = Null
          /\ Seen(e) = Null =>
                runs[e].stage \in {"idle", "prelude", "failed", "rejected"}

\* No Task is stranded: while the server is up, a Task that may continue without
\* the operator has an execution, a launch under way or an armed timer, whatever
\* races made its executions fail, be replaced or give up (D-025's durable
\* re-entry; DESIGN, pipeline evidence "is re-observed by the server").
NoTaskIsStranded ==
    server = "up" =>
        \A t \in Tasks : Active(t) /\ Restartable(task[t]) =>
            Busy(t) \/ pending[t] # "none" \/ t \in timers

\* At most one execution of a Task may still act on its own: every other one has
\* been told to stop.
OneLiveExecution ==
    \A e, f \in Executions :
        e # f /\ ~Idle(e) /\ ~Idle(f) /\ T(e) = T(f) =>
            \/ runs[e].aborted \/ runs[f].aborted
            \/ Over(e) \/ Over(f)

\* Once a review approved the candidate, no execution, however late, starts
\* another writer or reviewer for the Task: retries, restarts and races deliver
\* that exact bundle or block (DESIGN, "reuse the same approved Candidate").
ApprovedBundleIsFinal ==
    [][\A t \in Tasks :
        Admitted(t) /\ ApprovedReview(task[t]) =>
            /\ ApprovedReview(task'[t])
            /\ task'[t].candidateSha = task[t].candidateSha
            /\ task'[t].check = task[t].check
            /\ task'[t].implementerActivations = task[t].implementerActivations
            /\ task'[t].reviewCycles = task[t].reviewCycles]_allVars

\* A graceful close leaves no reservation of the closing process behind: its
\* reviewing Tasks went back to checked, so the next process reviews afresh
\* instead of taking over (DESIGN, "releases that reservation to checked").
CloseReleasesReviews ==
    [][Closed => \A t \in Tasks :
        Active(t) => task[t].reviewAttempt # process]_allVars

\* Each repair batch was recorded before its own writer, and restarts do not
\* record it twice: batches never outnumber the activations after the first.
OneWriterPerRepairBatch ==
    \A t \in Tasks : Admitted(t) =>
        LET r == task[t]
            unpaid == r.repairBatchRecorded /\ r.implementerActivations = r.candidateFence IN
        r.changesRequestedBatches <=
            (IF r.implementerActivations > 0 THEN r.implementerActivations - 1 ELSE 0)
                + (IF unpaid THEN 1 ELSE 0)

\* A Task left to the server ends, or waits for the operator: no interleaving of
\* failures, restarts, timers and replaced executions makes it run for ever.
OperatorWait(t) ==
    /\ Admitted(t) /\ task[t].state = "waiting"
    /\ task[t].waiting.reason \notin {"pipeline_checks", "review_interruption"}
Settles == \A t \in Tasks : Active(t) ~> (OperatorWait(t) \/ ~Active(t))

\* AGENT_QUICKSTART: the server re-observes an approved bundle until the deadline
\* or cancellation; losing a race with the operator's retry is neither.
ApprovedBundleSurvivesRetry ==
    [][\A t \in Tasks :
        Active(t) /\ ApprovedReview(task[t]) => task'[t].blocker # "conflict"]_allVars

\* DESIGN: every wait but a pipeline's or a reviewer's resumes by task retry only.
OperatorWaitsResumeByRetry ==
    [][\A t \in Tasks :
        OperatorWait(t) /\ task'[t] # task[t] =>
            IsTerminalState(task'[t].state) \/ pending'[t] = "replace"]_allVars
====
