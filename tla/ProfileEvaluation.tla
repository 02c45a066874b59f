---- MODULE ProfileEvaluation ----
(***************************************************************************)
(* The controlled evaluation of implementer profiles                       *)
(* (apps/cli/src/profile-evaluation.ts): a client registers the profile of *)
(* a side, submits that side's Task, follows it to its end, and does so    *)
(* for every Task of the plan; whatever happens, it waits for the Task it  *)
(* has in flight and registers the prior profiles again.                   *)
(*                                                                         *)
(* The server is what its clients see of it: the registration, which no    *)
(* one may change while a Task holds the Repository's lease                *)
(* (task-authority.ts, registerRepository), and the Tasks, whose sessions  *)
(* run under the profile registered when their execution started           *)
(* (server.ts, executeServerTask).  A request may fail with or without     *)
(* having taken effect, and a submission even later; another client may    *)
(* submit a Task of its own to the Repository, and the evaluation may be   *)
(* interrupted, die and be run again.                                      *)
(*                                                                         *)
(* Abstractions.  Reading the plan, its files and the report's are left    *)
(* out.  Reading a Task and finding another one than the plan's is one     *)
(* with failing to read it.  Waiting is not doing the next step yet.       *)
(***************************************************************************)
EXTENDS Integers, FiniteSets

CONSTANTS
    Pairs,      \* the pairs of the plan, each a baseline and a candidate Task
    MaxRuns     \* bound: runs of the command

ASSUME EvaluationAssumption == Pairs \in Nat \ {0} /\ MaxRuns \in Nat \ {0}

VARIABLES
    server,     \* the registration, the Tasks, a submission still under way
    evaluation  \* the command

evaluationVars == <<server, evaluation>>

PlanTasks == 1..2 * Pairs
AnotherTask == 0    \* of another client
SideOf(t) == IF t % 2 = 1 THEN "baseline" ELSE "candidate"
Terminal == {"accepted", "blocked"}

InProgress(t) == server.tasks[t].state \in {"active", "waiting"}
Leased == \E t \in DOMAIN server.tasks : InProgress(t)

\* inFlight is AnotherTask when it is undefined.
Idle == [run |-> 0, step |-> "idle", at |-> 1, existing |-> {}, inFlight |-> AnotherTask,
         followed |-> {}, outcome |-> "none"]

EvaluationInit ==
    /\ server = [profile |-> "prior", late |-> AnotherTask, tasks |-> [t \in {AnotherTask} \cup PlanTasks |->
                    [state |-> "none", expired |-> FALSE, ran |-> {}]]]
    /\ evaluation = Idle

(***************************************************************************)
(* The server.                                                              *)
(***************************************************************************)
SetState(t, state) == server' = [server EXCEPT !.tasks[t].state = state]

\* registerRepository: the profiles change only while nobody holds the lease.
\* Fault: nobody looks at the leases.
Registers_Unleased(profile) == TRUE
Registers(profile) == server.profile = profile \/ ~Leased

Admitted(t) == [server EXCEPT !.tasks[t].state = IF @ = "none" THEN "active" ELSE @]
Admits(t) == server.tasks[t].state # "none" \/ ~Leased

SubmitAnother ==
    /\ server.tasks[AnotherTask].state = "none" /\ Admits(AnotherTask)
    /\ server' = Admitted(AnotherTask)
    /\ UNCHANGED evaluation

LateAdmission ==
    /\ server.late # AnotherTask
    /\ server' = [IF Admits(server.late) THEN Admitted(server.late) ELSE server EXCEPT !.late = AnotherTask]
    /\ UNCHANGED evaluation

\* An execution starts, the first or one after a restart, and takes the registered profile.
ExecutionStarts(t) ==
    /\ server.tasks[t].state = "active" /\ server.profile \notin server.tasks[t].ran
    /\ server' = [server EXCEPT !.tasks[t].ran = @ \cup {server.profile}]
    /\ UNCHANGED evaluation

TaskStops(t) ==
    /\ server.tasks[t].state = "active" /\ server.tasks[t].ran # {}
    /\ \E state \in Terminal \cup {"waiting"} : SetState(t, state)
    /\ UNCHANGED evaluation

\* Resumed by its timer or an operator; blocked when its time is over.
TaskResumes(t) ==
    /\ server.tasks[t].state = "waiting"
    /\ SetState(t, IF server.tasks[t].expired THEN "blocked" ELSE "active")
    /\ UNCHANGED evaluation

TaskExpires(t) ==
    /\ InProgress(t) /\ ~server.tasks[t].expired
    /\ server' = [server EXCEPT !.tasks[t].expired = TRUE]
    /\ UNCHANGED evaluation

(***************************************************************************)
(* The command.                                                             *)
(***************************************************************************)
At(step) == evaluation.step = step
Task == server.tasks[evaluation.at]
Goto(step) == evaluation' = [evaluation EXCEPT !.step = step]
EvaluationEnds(outcome) == evaluation' = [evaluation EXCEPT !.step = "idle", !.outcome = outcome]

\* The catch: the Task in flight is waited for, then the registration restored.
EvaluationFails ==
    evaluation' = [evaluation EXCEPT !.outcome = "failed",
        !.step = IF evaluation.inFlight # AnotherTask THEN "cleanup" ELSE "restore"]

BeginEvaluation ==
    /\ At("idle") /\ evaluation.run < MaxRuns
    /\ evaluation' = [Idle EXCEPT !.run = evaluation.run + 1, !.step = "preflight"]
    /\ UNCHANGED server

\* preflightExistingTasks: nothing has been touched yet.
PreflightTask ==
    /\ At("preflight")
    /\ \/ EvaluationEnds("refused")
       \/ /\ Task.state # "waiting"
          /\ evaluation' = [evaluation EXCEPT
                !.existing = IF Task.state = "none" THEN @ ELSE @ \cup {[task |-> evaluation.at, state |-> Task.state]},
                !.at = IF @ = 2 * Pairs THEN 1 ELSE @ + 1,
                !.step = IF evaluation.at = 2 * Pairs THEN "next" ELSE "preflight"]
    /\ UNCHANGED server

\* The next Task of the plan: done, interrupted, known already, or to be submitted.
NextTask ==
    /\ At("next")
    /\ \/ evaluation.at > 2 * Pairs /\ evaluation' = [evaluation EXCEPT !.step = "restore", !.outcome = "report"]
       \/ evaluation.at <= 2 * Pairs /\ EvaluationFails
       \/ /\ evaluation.at <= 2 * Pairs /\ \A e \in evaluation.existing : e.task # evaluation.at
          /\ Goto("register")
       \/ \E e \in evaluation.existing :
             /\ e.task = evaluation.at
             /\ evaluation' = [evaluation EXCEPT !.followed = @ \cup {e.task},
                    !.inFlight = IF e.state \in Terminal THEN @ ELSE e.task,
                    !.step = IF e.state \in Terminal THEN "evidence" ELSE "follow"]
    /\ UNCHANGED server

RegisterProfile ==
    /\ At("register")
    /\ \/ /\ Registers(SideOf(evaluation.at))
          /\ server' = [server EXCEPT !.profile = SideOf(evaluation.at)]
          /\ Goto("submit") \/ EvaluationFails
       \/ EvaluationFails /\ UNCHANGED server

\* The answer holds the Task; without one, a submission may have had, or may yet have, its effect.
SubmitTask ==
    /\ At("submit")
    /\ \/ /\ Admits(evaluation.at) /\ server' = Admitted(evaluation.at)
          /\ \/ evaluation' = [evaluation EXCEPT !.followed = @ \cup {evaluation.at},
                    !.inFlight = IF server'.tasks[evaluation.at].state \in Terminal THEN @ ELSE evaluation.at,
                    !.step = IF server'.tasks[evaluation.at].state \in Terminal THEN "evidence" ELSE "follow"]
             \/ Goto("observe")
       \/ Goto("observe") /\ UNCHANGED server
       \/ /\ server.late = AnotherTask /\ server' = [server EXCEPT !.late = evaluation.at]
          /\ Goto("observe")

\* After a failed submission: was the Task admitted?
ObserveAdmission ==
    /\ At("observe")
    /\ \/ EvaluationEnds("cleanup_error")
       \/ /\ InProgress(evaluation.at)
          /\ evaluation' = [evaluation EXCEPT !.outcome = "failed", !.step = "cleanup",
                !.inFlight = evaluation.at, !.followed = @ \cup {evaluation.at}]
       \/ ~InProgress(evaluation.at) /\ EvaluationFails
    /\ UNCHANGED server

\* followTask until the Task ends; it waits, the follow fails, is interrupted or times out.
FollowTask ==
    /\ At("follow")
    /\ \/ EvaluationFails
       \/ Task.state \in Terminal /\ evaluation' = [evaluation EXCEPT !.step = "evidence", !.inFlight = AnotherTask]
    /\ UNCHANGED server

ReadEvidence ==
    /\ At("evidence")
    /\ \/ EvaluationFails
       \/ evaluation' = [evaluation EXCEPT !.step = "next", !.at = @ + 1]
    /\ UNCHANGED server

(***************************************************************************)
(* waitForTerminalTask, expireWaitingTask, and the restoration.             *)
(***************************************************************************)
InFlight == server.tasks[evaluation.inFlight]
TaskIsOver == evaluation' = [evaluation EXCEPT !.step = "restore", !.inFlight = AnotherTask]

\* Fault: a Task that waits is nobody's business any more.
CleanupTask_Waiting ==
    /\ At("cleanup") /\ InFlight.state \in Terminal \cup {"waiting"} /\ TaskIsOver
    /\ UNCHANGED server

\* It cannot be read or is active at its deadline; it is over; it waits; else it is followed.
CleanupTask ==
    /\ At("cleanup")
    /\ \/ EvaluationEnds("cleanup_error")
       \/ InFlight.state \in Terminal /\ TaskIsOver
       \/ InFlight.state = "waiting" /\ Goto("expire")
    /\ UNCHANGED server

\* At the Task's deadline, what waits is blocked through a retry.
ExpireWaiting ==
    /\ At("expire")
    /\ \/ EvaluationEnds("cleanup_error")
       \/ InFlight.state \in Terminal /\ TaskIsOver
       \/ InFlight.state = "waiting" /\ InFlight.expired /\ Goto("retry")
    /\ UNCHANGED server

RetryExpired ==
    /\ At("retry")
    /\ \/ /\ InFlight.state = "waiting" /\ SetState(evaluation.inFlight, "blocked")
          /\ TaskIsOver \/ Goto("retried")
       \/ Goto("retried") /\ UNCHANGED server

\* The retry has failed: perhaps the Task is over all the same.
RecheckRetried ==
    /\ At("retried")
    /\ IF InFlight.state \in Terminal THEN TaskIsOver \/ EvaluationEnds("cleanup_error") ELSE EvaluationEnds("cleanup_error")
    /\ UNCHANGED server

RestoreRegistration ==
    /\ At("restore")
    /\ \/ /\ Registers("prior") /\ server' = [server EXCEPT !.profile = "prior"]
          /\ EvaluationEnds(evaluation.outcome) \/ EvaluationEnds("restoration_error")
       \/ EvaluationEnds("restoration_error") /\ UNCHANGED server

EvaluationDies ==
    /\ ~At("idle") /\ EvaluationEnds("died")
    /\ UNCHANGED server

ServerStep ==
    \/ SubmitAnother \/ LateAdmission
    \/ \E t \in DOMAIN server.tasks :
          ExecutionStarts(t) \/ TaskStops(t) \/ TaskResumes(t) \/ TaskExpires(t)

EvaluationNext ==
    \/ ServerStep
    \/ BeginEvaluation \/ PreflightTask \/ NextTask \/ RegisterProfile \/ SubmitTask
    \/ ObserveAdmission \/ FollowTask \/ ReadEvidence
    \/ CleanupTask \/ ExpireWaiting \/ RetryExpired \/ RecheckRetried \/ RestoreRegistration
    \/ EvaluationDies

EvaluationSpec == EvaluationInit /\ [][EvaluationNext]_evaluationVars

(***************************************************************************)
(* Properties.                                                              *)
(***************************************************************************)
\* A command that ends with its report or its own failure, and says nothing of cleanup or
\* restoration, leaves the prior registration and no Task it followed in progress.
NothingIsLeftBehind ==
    At("idle") /\ evaluation.outcome \in {"report", "failed"} =>
        server.profile = "prior" /\ \A t \in evaluation.followed : ~InProgress(t)

\* All the executions of a Task run under one profile, however often it is restarted and
\* whatever the evaluation registers meanwhile.
TasksRunUnderOneProfile == \A t \in DOMAIN server.tasks : Cardinality(server.tasks[t].ran) <= 1
====
