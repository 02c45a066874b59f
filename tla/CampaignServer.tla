---- MODULE CampaignServer ----
(***************************************************************************)
(* The local server's work on Campaigns (packages/runtime/src/server.ts    *)
(* with campaign.ts): the coordination chain, the model work, the Task     *)
(* executions with their pipeline timers, abandonment, retry, crash and    *)
(* restart, interleaved over the transactions of Campaign.tla.             *)
(*                                                                         *)
(* Abstractions.  A Task is what a Campaign tells apart of it; its own     *)
(* protocol is TaskAuthority.tla and DeliveryRun.tla.  The startup loop is *)
(* one step.  Close of the server leaves no more behind than a crash.      *)
(***************************************************************************)
EXTENDS Campaign

CONSTANTS
    Plan,               \* the guardian's proposals for each Campaign, in order
    Published,          \* the Campaigns published at the start, with their plan
    Abandonable,        \* the Campaigns the host may abandon
    Disturbances,       \* bound: crashes, holds, retries, failed model runs, rejected drafts
    MaxCheckpoints      \* bound: checkpoint requests

ASSUME ServerAssumption ==
    /\ Published \subseteq Campaigns /\ Abandonable \subseteq Campaigns
    /\ Plan \in [Campaigns -> Seq(Proposals)]
    /\ Disturbances \in Nat /\ MaxCheckpoints \in Nat

VARIABLES
    up,             \* the server process runs
    wanted,         \* a coordination is queued on the chain
    coord,          \* the coordination that runs
    queued,         \* queuedCampaignModelLaunch: "none", "once", or asked for "again"
    work,           \* the campaign-model-work fiber
    exec,           \* [Campaigns -> [Proposals -> Execution]]
    abandoning,     \* [Campaigns -> handler of POST abandon]
    retrying,       \* Tasks a retry has checked and not committed
    disturbances,   \* what is left of the bound
    checkpoints

volatile == <<wanted, coord, queued, work, exec, abandoning, retrying>>
bounds == <<disturbances, checkpoints>>
vars == <<durable, up, volatile, bounds>>

Tasks == Campaigns \X Proposals
TheTask(k) == task[k[1]][k[2]]
Launchable(t) == ~TerminalTask(t) /\ t.state # "waiting"

NoCoordination == [at |-> "idle", todo |-> {}, c |-> 0, rows |-> {}, p |-> Null, done |-> {}]
NoWork == [at |-> "none", targets |-> {}, t |-> Null, ran |-> FALSE, missed |-> FALSE,
           aborted |-> FALSE, owned |-> {}]
NoExecution == [op |-> "none", abort |-> FALSE, settling |-> "no", timer |-> FALSE]
NotAbandoning == [at |-> "none", todo |-> {}, seen |-> Null]

Init ==
    /\ CampaignsInit(Published, Plan)
    /\ up = TRUE /\ wanted = FALSE
    /\ coord = NoCoordination /\ queued = "none" /\ work = NoWork
    /\ exec = [c \in Campaigns |-> [p \in Proposals |-> NoExecution]]
    /\ abandoning = [c \in Campaigns |-> NotAbandoning]
    /\ retrying = {} /\ disturbances = Disturbances /\ checkpoints = MaxCheckpoints

Disturb == disturbances > 0 /\ disturbances' = disturbances - 1

(***************************************************************************)
(* The API: a transaction of Campaign.tla, then coordinateCampaigns.        *)
(***************************************************************************)
Request ==
    /\ up /\ wanted' = TRUE
    /\ UNCHANGED <<up, coord, queued, work, exec, abandoning, retrying, disturbances>>

Publish(c, observed) == Request /\ PublishCampaign(c, observed) /\ UNCHANGED checkpoints
Propose(c, p, observed) == Request /\ ProposeCampaign(c, p, observed) /\ UNCHANGED checkpoints
Handoff(c, observed) ==
    Request /\ ~campaign[c].handedOff /\ HandoffCampaign(c, observed) /\ UNCHANGED checkpoints
Checkpoint(c, observed) ==
    /\ Request /\ checkpoints > 0 /\ checkpoints' = checkpoints - 1
    /\ CheckpointCampaign(c, observed)

(***************************************************************************)
(* coordinateCampaigns -> reconcileCampaigns -> admitReadyCampaignTasks.    *)
(* Only the reconciliation and each admission are transactions: Campaigns,  *)
(* rows and the taskId are separate statements around them.                 *)
(***************************************************************************)
Coordinating(at) == up /\ coord.at = at
CoordinationOnly == UNCHANGED <<up, queued, work, exec, abandoning, retrying, bounds>>

\* The Campaigns are selected right after the reconciliation commits.
StartCoordination(observed) ==
    /\ Coordinating("idle") /\ wanted
    /\ wanted' = FALSE
    /\ Reconcile(observed)
    /\ coord' = [coord EXCEPT !.at = "admit",
          !.todo = {c \in Campaigns : campaign'[c] # Null /\ campaign'[c].handedOff
                                      /\ ~IsTerminal(campaign'[c].status)}]
    /\ CoordinationOnly

ReadRows ==
    /\ Coordinating("admit") /\ coord.rows = {} /\ coord.todo # {}
    /\ LET c == Min(coord.todo)
       IN  coord' = [coord EXCEPT !.todo = @ \ {c}, !.c = c,
              !.rows = {p \in Present(row[c]) :
                  row[c][p].status = "ready" /\ ~row[c][p].taskId /\ row[c][p].base # 0}]
    /\ UNCHANGED <<durable, wanted>> /\ CoordinationOnly

First(rows, ps) == CHOOSE p \in ps : \A q \in ps : rows[p].seq <= rows[q].seq

AdmitTask ==
    LET c == coord.c
        p == First(row[c], coord.rows)
        exists == task[c][p] # Null
        full == Cardinality(Active) >= Capacity
        created == ~exists /\ ~full /\ ~WriterBusy(RepositoryOf[p])
    IN  /\ Coordinating("admit") /\ coord.rows # {}
        /\ IF created THEN SetTask(c, p, NewTask(c, p)) ELSE UNCHANGED task
        /\ coord' = IF exists \/ created THEN [coord EXCEPT !.at = "record", !.p = p]
                    ELSE IF full THEN [coord EXCEPT !.at = "launch"]
                    ELSE [coord EXCEPT !.rows = @ \ {p}]
        /\ UNCHANGED <<campaign, row, assessment, replacement, pendingRuns, main, wanted>>
        /\ CoordinationOnly

RecordTask ==
    LET c == coord.c
        p == coord.p
    IN  /\ Coordinating("record")
        /\ row' = [row EXCEPT ![c][p].taskId = TRUE]
        /\ coord' = [coord EXCEPT !.at = "admit", !.rows = @ \ {p}, !.p = Null,
              !.done = IF Launchable(task[c][p]) THEN @ \cup {<<c, p>>} ELSE @]
        /\ UNCHANGED <<campaign, task, assessment, replacement, pendingRuns, main, wanted>>
        /\ CoordinationOnly

\* launchTask: a deduplicated launch yields to a timer and to a registered operation.
Deduplicated(e) ==
    IF e.timer \/ e.op # "none" THEN e ELSE [e EXCEPT !.op = "launched", !.abort = FALSE]

\* Fault: the run that is in progress does not learn that it missed a request.
RequestModelWork_Forgotten ==
    /\ queued' = IF queued = "none" THEN "once" ELSE "again"
    /\ work' = work

\* launchCampaignModelWork, and the generation it advances.
RequestModelWork ==
    /\ queued' = IF queued = "none" THEN "once" ELSE "again"
    /\ work' = [work EXCEPT !.missed = work.at # "none"]

FinishCoordination ==
    /\ \/ Coordinating("launch")
       \/ Coordinating("admit") /\ coord.rows = {} /\ coord.todo = {}
    /\ coord' = NoCoordination
    /\ RequestModelWork
    /\ exec' = [c \in Campaigns |-> [p \in Proposals |->
          IF <<c, p>> \in coord.done THEN Deduplicated(exec[c][p]) ELSE exec[c][p]]]
    /\ UNCHANGED <<durable, wanted, up, abandoning, retrying, bounds>>

Coordination ==
    \/ \E observed \in Observations : StartCoordination(observed)
    \/ ReadRows \/ AdmitTask \/ RecordTask \/ FinishCoordination

(***************************************************************************)
(* Model work: assessCampaignTargets, then generateCampaignReplacements.    *)
(***************************************************************************)
Working(at) == up /\ work.at = at
WorkOnly == UNCHANGED <<up, coord, queued, exec, abandoning, retrying, checkpoints>>
WorkGoes(w) == work' = w /\ UNCHANGED wanted
WorkEnds == work' = NoWork /\ wanted' = (wanted \/ work.ran \/ work.missed)

\* The immediate fires; a run in progress turns the launch away (onlyIfMissing).  A run
\* begins with its assessmentTargets.
FireModelWork ==
    /\ up /\ queued # "none" /\ queued' = "none"
    /\ IF work.at = "none"
       THEN WorkGoes([NoWork EXCEPT !.at = "assess", !.missed = queued = "again",
                                    !.targets = AssessmentTargets])
       ELSE UNCHANGED work /\ wanted' = (wanted \/ queued = "again")
    /\ UNCHANGED <<durable, up, coord, exec, abandoning, retrying, bounds>>

ReserveAssessment(t) ==
    LET run == Run(t.c, t.o, "assessor", t.evidence)
        next == [work EXCEPT !.targets = @ \ {t}, !.owned = {t.c}]
    IN  /\ Working("assess") /\ t \in work.targets
        /\ IF work.aborted THEN WorkEnds /\ UNCHANGED pendingRuns
           ELSE IF CanReserveRun(run)
           THEN /\ WorkGoes([next EXCEPT !.at = "reserved", !.t = t])
                /\ pendingRuns' = pendingRuns \cup {run}
           ELSE WorkGoes(next) /\ UNCHANGED pendingRuns
        /\ UNCHANGED <<campaign, row, task, assessment, replacement, main, disturbances>>
        /\ WorkOnly

\* campaignAllowsModelInvocation, read after the reservation has committed.
AllowAssessment ==
    /\ Working("reserved")
    /\ IF LiveForModelWork(work.t.c)
       THEN WorkGoes([work EXCEPT !.at = "invoke", !.ran = TRUE]) ELSE WorkEnds
    /\ UNCHANGED <<durable, disturbances>> /\ WorkOnly

AssessorAnswers(verdict, failed) ==
    /\ Working("invoke")
    /\ IF failed THEN Disturb /\ verdict = "inconclusive" ELSE UNCHANGED disturbances
    /\ PersistAssessment(work.t, verdict, failed, work.aborted)
    /\ IF work.aborted THEN WorkEnds ELSE WorkGoes([work EXCEPT !.at = "assess", !.t = Null])
    /\ WorkOnly

FirstTarget ==
    CHOOSE k \in ReplacementTargets :
        \A l \in ReplacementTargets : k[1] < l[1] \/ (k[1] = l[1] /\ k[2] <= l[2])

PlanNext ==
    /\ \/ Working("replace")
       \/ Working("assess") /\ work.targets = {}
    /\ IF work.aborted THEN WorkEnds
       ELSE IF ReplacementTargets = {} THEN WorkGoes([work EXCEPT !.at = "final"])
       ELSE LET t == ReplacementTarget(FirstTarget[1], FirstTarget[2])
            IN  WorkGoes([work EXCEPT !.at = "plan", !.t = t, !.owned = {t.c}])
    /\ UNCHANGED <<durable, disturbances>> /\ WorkOnly

ReserveReplacementRun ==
    /\ Working("plan")
    /\ IF work.aborted THEN WorkEnds /\ UNCHANGED durable
       ELSE IF LiveForModelWork(work.t.c)
       THEN ReserveReplacement(work.t) /\ WorkGoes([work EXCEPT !.at = "planned", !.ran = TRUE])
       ELSE WorkGoes([work EXCEPT !.at = "replace"]) /\ UNCHANGED durable
    /\ UNCHANGED disturbances /\ WorkOnly

ReserveReplacementModelRun ==
    LET run == Run(work.t.c, work.t.o, "replacement-planner", work.t.evidence)
    IN  /\ Working("planned")
        /\ IF work.aborted THEN WorkEnds /\ UNCHANGED pendingRuns
           ELSE IF CanReserveRun(run)
           THEN WorkGoes([work EXCEPT !.at = "allow"]) /\ pendingRuns' = pendingRuns \cup {run}
           ELSE WorkGoes([work EXCEPT !.at = "replace"]) /\ UNCHANGED pendingRuns
        /\ UNCHANGED <<campaign, row, task, assessment, replacement, main, disturbances>>
        /\ WorkOnly

AllowDraft ==
    /\ Working("allow")
    /\ WorkGoes([work EXCEPT !.at = IF LiveForModelWork(work.t.c) THEN "draft" ELSE "final"])
    /\ UNCHANGED <<durable, disturbances>> /\ WorkOnly

PlannerAnswers(draft, failed) ==
    LET rejected == /\ draft # Null /\ StillCurrent(work.t)
                    /\ ReplacementStatus(work.t, draft.p, draft.supersedes) # "admitted"
    IN  /\ Working("draft")
        /\ failed => draft = Null
        /\ IF failed \/ rejected THEN Disturb ELSE UNCHANGED disturbances
        /\ PersistReplacement(work.t, draft, failed, work.aborted)
        /\ IF work.aborted THEN WorkEnds
           ELSE WorkGoes([work EXCEPT !.at =
                  IF replacement'[work.t.c][work.t.o].status = "admitted"
                  THEN "admitted" ELSE "final"])
        /\ WorkOnly

ReconcileReplacement(observed) ==
    /\ Working("admitted") /\ Reconcile(observed)
    /\ WorkGoes([work EXCEPT !.at = "replace", !.t = Null])
    /\ UNCHANGED disturbances /\ WorkOnly

FinishModelWork(observed) ==
    /\ Working("final")
    /\ IF work.aborted THEN UNCHANGED durable ELSE Reconcile(observed)
    /\ WorkEnds
    /\ UNCHANGED disturbances /\ WorkOnly

DraftAnswers ==
    {Null} \cup [p : Drafts, supersedes : {Null} \cup Proposals]

ModelWork ==
    \/ FireModelWork \/ AllowAssessment \/ PlanNext
    \/ ReserveReplacementRun \/ ReserveReplacementModelRun \/ AllowDraft
    \/ \E t \in work.targets : ReserveAssessment(t)
    \/ \E verdict \in Verdicts, failed \in BOOLEAN : AssessorAnswers(verdict, failed)
    \/ \E draft \in DraftAnswers, failed \in BOOLEAN : PlannerAnswers(draft, failed)
    \/ \E observed \in Observations : ReconcileReplacement(observed) \/ FinishModelWork(observed)

(***************************************************************************)
(* Task executions: launchTask, executeServerTask, schedulePipelineRecovery.*)
(***************************************************************************)
TaskOnly ==
    UNCHANGED <<campaign, row, assessment, replacement, pendingRuns, up, coord, queued, work,
                abandoning, retrying, checkpoints>>
Execution(k) == exec[k[1]][k[2]]
SetExecution(k, e) == exec' = [exec EXCEPT ![k[1]][k[2]] = e]
Running(k) == up /\ Execution(k).op = "running"

\* An ended operation that leaves a pipeline wait goes on to schedule its recovery.
Ended(k) ==
    [Execution(k) EXCEPT !.op = "none", !.abort = FALSE,
        !.settling = IF TheTask(k).state = "pipeline" THEN "reading" ELSE @]

\* executeServerTask reads the Campaign, once, before it executes.
StartExecution(k) ==
    /\ up /\ Execution(k).op = "launched"
    /\ SetExecution(k, IF campaign[k[1]].status = "abandoned" THEN Ended(k)
                       ELSE [Execution(k) EXCEPT !.op = "running"])
    /\ UNCHANGED <<task, main, wanted, disturbances>> /\ TaskOnly

EndExecution(k) ==
    /\ Running(k)
    /\ Execution(k).abort \/ TheTask(k).state \notin {"admitted", "candidate"}
    /\ SetExecution(k, Ended(k))
    /\ UNCHANGED <<task, main, wanted, disturbances>> /\ TaskOnly

TaskBecomes(k, t) ==
    /\ SetTask(k[1], k[2], t)
    /\ wanted' = (wanted \/ TerminalTask(t))   \* onEvent: task_terminal
    /\ UNCHANGED exec /\ TaskOnly

FreezeCandidate(k) ==
    /\ Running(k) /\ TheTask(k).state = "admitted"
    /\ TaskBecomes(k, [TheTask(k) EXCEPT !.state = "candidate", !.candidate = TRUE])
    /\ UNCHANGED <<main, disturbances>>

AwaitPipeline(k) ==
    /\ Running(k) /\ TheTask(k).state = "candidate" /\ k[2] \in Merging
    /\ TaskBecomes(k, [TheTask(k) EXCEPT !.state = "pipeline"])
    /\ UNCHANGED <<main, disturbances>>

DeliverTask(k) ==
    LET r == RepositoryOf[k[2]]
        merges == k[2] \in Merging
    IN  /\ Running(k) /\ TheTask(k).state \in {"candidate", "pipeline"}
        /\ merges => main[r] < MaxCommit
        /\ main' = IF merges THEN [main EXCEPT ![r] = @ + 1] ELSE main
        /\ TaskBecomes(k, [TheTask(k) EXCEPT !.state = "delivered",
                              !.merged = IF merges THEN main[r] + 1 ELSE 0])
        /\ UNCHANGED disturbances

HoldTask(k) ==
    /\ Running(k) /\ ~TerminalTask(TheTask(k)) /\ TheTask(k).state # "waiting"
    /\ \E state \in {"waiting", "blocked"} : TaskBecomes(k, [TheTask(k) EXCEPT !.state = state])
    /\ Disturb /\ UNCHANGED main

\* The Campaign is read, and the timer armed after the answer.
ReadBeforeArming(k) ==
    /\ up /\ Execution(k).settling = "reading"
    /\ SetExecution(k, [Execution(k) EXCEPT !.settling =
          IF campaign[k[1]].status = "abandoned" THEN "no" ELSE "arming"])
    /\ UNCHANGED <<task, main, wanted, disturbances>> /\ TaskOnly

SchedulePipelineRecovery(k) ==
    /\ up /\ Execution(k).settling = "arming"
    /\ SetExecution(k, [Execution(k) EXCEPT !.settling = "no", !.timer = TRUE])
    /\ UNCHANGED <<task, main, wanted, disturbances>> /\ TaskOnly

TimerFires(k) ==
    /\ up /\ Execution(k).timer
    /\ SetExecution(k, Deduplicated([Execution(k) EXCEPT !.timer = FALSE]))
    /\ UNCHANGED <<task, main, wanted, disturbances>> /\ TaskOnly

ExecutionStep(k) ==
    \/ StartExecution(k) \/ EndExecution(k) \/ ReadBeforeArming(k)
    \/ SchedulePipelineRecovery(k) \/ TimerFires(k)
TaskStep(k) == FreezeCandidate(k) \/ AwaitPipeline(k) \/ DeliverTask(k) \/ HoldTask(k)

(***************************************************************************)
(* POST retry: the check and the commit are two transactions.               *)
(***************************************************************************)
RetryOnly ==
    UNCHANGED <<campaign, row, assessment, replacement, pendingRuns, main, up, wanted, coord,
                queued, work, abandoning, checkpoints>>
Retryable(k) == TheTask(k) # Null /\ TheTask(k).state \in {"waiting", "pipeline"}

CheckRetry(k) ==
    /\ up /\ Retryable(k) /\ k \notin retrying /\ campaign[k[1]].status # "abandoned"
    /\ Disturb /\ retrying' = retrying \cup {k}
    /\ UNCHANGED <<task, exec>> /\ RetryOnly

CommitRetry(k) ==
    /\ up /\ k \in retrying /\ retrying' = retrying \ {k}
    /\ IF Retryable(k)
       THEN /\ SetTask(k[1], k[2], [TheTask(k) EXCEPT !.state =
                  IF @ = "pipeline" THEN @ ELSE IF TheTask(k).candidate THEN "candidate" ELSE "admitted"])
            /\ SetExecution(k, [Execution(k) EXCEPT !.op = "launched", !.abort = FALSE, !.timer = FALSE])
       ELSE UNCHANGED <<task, exec>>
    /\ UNCHANGED disturbances /\ RetryOnly

(***************************************************************************)
(* POST abandon: mark, cancelCampaign, wait, then block Task after Task.    *)
(***************************************************************************)
AbandonOnly == UNCHANGED <<up, coord, queued, retrying, bounds>>
Handler(c, at) == up /\ abandoning[c].at = at
HandlerGoes(c, h) == abandoning' = [abandoning EXCEPT ![c] = h]

MarkAbandoned(c) ==
    /\ Handler(c, "none") /\ AbandonCampaign(c)
    /\ HandlerGoes(c, [NotAbandoning EXCEPT !.at = "marked"])
    /\ UNCHANGED <<wanted, work, exec>> /\ AbandonOnly

\* Fault: the operations are left to finish by themselves.
Cancelled_Operations(e) == [e EXCEPT !.timer = FALSE]

Cancelled(e) == [e EXCEPT !.timer = FALSE, !.abort = e.op # "none"]

CancelCampaign(c) ==
    /\ Handler(c, "marked")
    /\ HandlerGoes(c, [NotAbandoning EXCEPT !.at = "waiting"])
    /\ exec' = [exec EXCEPT ![c] = [p \in Proposals |-> Cancelled(exec[c][p])]]
    /\ work' = [work EXCEPT !.aborted = @ \/ c \in work.owned]
    /\ UNCHANGED <<durable, wanted>> /\ AbandonOnly

\* The operations cancelCampaign has found have ended; their Tasks are then read.
ReadTasksToBlock(c) ==
    /\ Handler(c, "waiting")
    /\ \A p \in Proposals : ~exec[c][p].abort
    /\ ~(work.aborted /\ c \in work.owned)
    /\ HandlerGoes(c, [NotAbandoning EXCEPT !.at = "blocking",
          !.todo = {p \in Present(row[c]) : row[c][p].taskId}])
    /\ UNCHANGED <<durable, wanted, work, exec>> /\ AbandonOnly

LookupTask(c, p) ==
    /\ Handler(c, "blocking") /\ abandoning[c].seen = Null /\ p \in abandoning[c].todo
    /\ HandlerGoes(c, IF TerminalTask(task[c][p])
                      THEN [abandoning[c] EXCEPT !.todo = @ \ {p}]
                      ELSE [abandoning[c] EXCEPT !.seen = <<p, task[c][p]>>])
    /\ UNCHANGED <<durable, wanted, work, exec>> /\ AbandonOnly

\* authority.block with the revision that was read; a moved Task fails the handler.
BlockTask(c) ==
    LET p == abandoning[c].seen[1]
        current == task[c][p] = abandoning[c].seen[2]
    IN  /\ Handler(c, "blocking") /\ abandoning[c].seen # Null
        /\ HandlerGoes(c, IF current
              THEN [abandoning[c] EXCEPT !.seen = Null, !.todo = @ \ {p}]
              ELSE [NotAbandoning EXCEPT !.at = "failed"])
        /\ IF current THEN SetTask(c, p, [task[c][p] EXCEPT !.state = "blocked"]) ELSE UNCHANGED task
        /\ wanted' = (wanted \/ current)
        /\ UNCHANGED <<campaign, row, assessment, replacement, pendingRuns, main, work, exec>>
        /\ AbandonOnly

FinishAbandonment(c) ==
    /\ Handler(c, "blocking") /\ abandoning[c].seen = Null /\ abandoning[c].todo = {}
    /\ HandlerGoes(c, [NotAbandoning EXCEPT !.at = "done"])
    /\ UNCHANGED <<durable, wanted, work, exec>> /\ AbandonOnly

AbandonmentStep(c) ==
    \/ CancelCampaign(c) \/ ReadTasksToBlock(c) \/ BlockTask(c) \/ FinishAbandonment(c)
    \/ \E p \in abandoning[c].todo : LookupTask(c, p)

(***************************************************************************)
(* Crash, and startup: recovery of the reservations, the restartable Tasks. *)
(***************************************************************************)
Crash ==
    /\ up /\ Disturb /\ up' = FALSE
    /\ wanted' = FALSE /\ coord' = NoCoordination /\ queued' = "none" /\ work' = NoWork
    /\ exec' = [c \in Campaigns |-> [p \in Proposals |-> NoExecution]]
    /\ abandoning' = [c \in Campaigns |->
          IF abandoning[c].at \in {"none", "done"} THEN abandoning[c]
          ELSE [NotAbandoning EXCEPT !.at = "failed"]]
    /\ retrying' = {}
    /\ UNCHANGED <<durable, checkpoints>>

Restart ==
    LET restartable(c, p) == task[c][p] # Null /\ Launchable(task[c][p])
        abandoned(c) == campaign[c] # Null /\ campaign[c].status = "abandoned"
    IN  /\ ~up /\ up' = TRUE
        /\ RecoverPending
        /\ task' = [c \in Campaigns |-> [p \in Proposals |->
              IF restartable(c, p) /\ abandoned(c)
              THEN [task[c][p] EXCEPT !.state = "blocked"] ELSE task[c][p]]]
        /\ exec' = [c \in Campaigns |-> [p \in Proposals |->
              IF restartable(c, p) /\ ~abandoned(c)
              THEN Deduplicated(exec[c][p]) ELSE exec[c][p]]]
        /\ wanted' = TRUE
        /\ UNCHANGED <<row, assessment, main, coord, queued, work, abandoning, retrying, bounds>>

(***************************************************************************)
(* The specification.                                                       *)
(***************************************************************************)
Guardian ==
    \E c \in Campaigns, observed \in Observations :
        \/ Publish(c, observed) \/ Checkpoint(c, observed)
        \/ campaign[c] # Null /\ Handoff(c, observed)
        \/ \E i \in 1..Len(Plan[c]) : Propose(c, Plan[c][i], observed)

Next ==
    \/ Guardian \/ Coordination \/ ModelWork
    \/ \E k \in Tasks : ExecutionStep(k) \/ TaskStep(k) \/ CheckRetry(k) \/ CommitRetry(k)
    \/ \E c \in Campaigns : (c \in Abandonable /\ MarkAbandoned(c)) \/ AbandonmentStep(c)
    \/ Crash \/ Restart

\* Promises, immediates and timers of the event loop run; models and Tasks answer.
Fairness ==
    /\ WF_vars(Coordination \/ Restart) /\ WF_vars(ModelWork)
    /\ \A k \in Tasks : /\ WF_vars(ExecutionStep(k) \/ FreezeCandidate(k) \/ CommitRetry(k))
                        /\ SF_vars(DeliverTask(k))
    /\ \A c \in Campaigns : WF_vars(AbandonmentStep(c))

Spec == Init /\ [][Next]_vars
FairSpec == Spec /\ Fairness

(***************************************************************************)
(* Properties.                                                              *)
(***************************************************************************)
\* An accepted Campaign is proven, then and ever after: each live Outcome has a satisfied
\* assessment of exactly the present evidence, and all its standing work is delivered.
AcceptedIsProven ==
    \A c \in Campaigns : campaign[c] # Null /\ campaign[c].status = "accepted" =>
        /\ Live # {}
        /\ \A o \in Live :
              /\ CurrentAssessment(c, row[c], o) /\ assessment[c][o].verdict = "satisfied"
              /\ Standing(row[c]) \cap Of(o) # {}
              /\ \A p \in Standing(row[c]) \cap Of(o) : Delivered(task[c][p])

\* A checkpoint supersedes only work nobody owns: neither a Task that was admitted from rows
\* read earlier, nor a base, and its successor names it.
SupersededWorkIsUnowned ==
    \A c \in Campaigns, p \in Proposals :
        row[c][p] # Null /\ row[c][p].status = "superseded" =>
            /\ task[c][p] = Null /\ ~row[c][p].taskId /\ row[c][p].base = 0
            /\ row[c][row[c][p].supersededBy] # Null
            /\ row[c][row[c][p].supersededBy].supersedes = p

\* A dependent Task exists only when each proposal it depends on is delivered; in the same
\* Repository it starts from the merge of the only one it depends on there.
DependentsWaitForDelivery ==
    \A c \in Campaigns, p \in Proposals : task[c][p] # Null =>
        /\ \A d \in DependsOn[p] : Delivered(task[c][d])
        /\ LET same == {d \in Dependencies(row[c], p) : SameRepository(p, d)}
           IN  Cardinality(same) = 1 /\ same \subseteq DependsOn[p] =>
                   \A d \in same : task[c][p].base = task[c][d].merged

\* The base a proposal was released from does not move, and its Task runs on it, whatever
\* heads later passes observe.
BasesNeverMove ==
    [][\A c \in Campaigns, p \in Proposals : row[c][p] # Null /\ row[c][p].base # 0 =>
          /\ row'[c][p].base = row[c][p].base
          /\ task'[c][p] # Null => task'[c][p].base = row[c][p].base]_vars

\* Once the handler of an abandonment has waited for what it cancelled, no Task of the
\* Campaign executes and no model is invoked for it, whatever is launched or armed later.
NothingRunsAfterAbandonment ==
    \A c \in Campaigns :
      abandoning[c].at \in {"blocking", "done", "failed"} /\ campaign[c].status = "abandoned" =>
        /\ \A p \in Proposals : exec[c][p].op # "running"
        /\ ~(work.at \in {"invoke", "draft"} /\ work.t.c = c)

\* The assessments and the rows of a Campaign grow only while it is planning: an answer of a
\* model that was asked before the Campaign settled or was superseded changes nothing.
LateAnswersChangeNothing ==
    [][\A c \in Campaigns : campaign[c] # Null /\ ~Open(c) =>
          /\ assessment'[c] = assessment[c]
          /\ Present(row'[c]) = Present(row[c])
          /\ Standing(row'[c]) = Standing(row[c])]_vars

\* The correction of the current gaps was admitted and its Task ended without a Candidate: the
\* evidence is what it was, so nothing assesses or plans again (the run doc_campaign_stuck).
CorrectionLost(c) ==
    \E o \in Live, p \in Proposals :
        /\ CurrentAssessment(c, row[c], o) /\ LatestReplacement(c, o) = "admitted"
        /\ row[c][p] # Null /\ row[c][p].replaces /\ OutcomeOf[p] = o
        /\ task[c][p] # Null /\ task[c][p].state = "blocked" /\ ~task[c][p].candidate

Settled(c) ==
    \/ IsTerminal(campaign[c].status) \/ campaign[c].superseded
    \/ \E k \in Active : TheTask(k).state = "waiting"
HandedOff(c) == campaign[c] # Null /\ campaign[c].handedOff

\* A Campaign that is handed off settles, unless a Task waits for its operator or the above
\* happened: no dropped launch of model work, no terminal Task, no late record of an admission
\* and no restart leaves it planning with nobody to go on.
CampaignsSettle ==
    \A c \in Campaigns : HandedOff(c) ~> HandedOff(c) /\ (Settled(c) \/ CorrectionLost(c))

\* README.md and DESIGN.md: an exhausted or blocked incomplete plan becomes a decision request.
PlansAreDecided ==
    \A c \in Campaigns : HandedOff(c) ~> HandedOff(c) /\ Settled(c)

====
