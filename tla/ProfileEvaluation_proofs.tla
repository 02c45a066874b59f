---- MODULE ProfileEvaluation_proofs ----
(***************************************************************************)
(* Theorems about ProfileEvaluation.tla, for any number of pairs and of    *)
(* runs of the command: no Task runs under two profiles, and a command     *)
(* that says nothing of cleanup leaves nothing behind; and about           *)
(* ProfileComparison.tla, for any evidence: a recommendation is earned.    *)
(***************************************************************************)
EXTENDS ProfileEvaluation, ProfileComparison, FiniteSetTheorems, SequenceTheorems, TLAPS

AllTasks == {AnotherTask} \cup PlanTasks
Profiles == {"prior", "baseline", "candidate"}
States == {"none", "active", "waiting"} \cup Terminal
ServerType ==
    [profile : Profiles, late : AllTasks,
     tasks : [AllTasks -> [state : States, expired : BOOLEAN, ran : SUBSET Profiles]]]

\* The steps at which a Task of the plan is in flight, and those at which none is.
FlightSteps == {"follow", "cleanup", "expire", "retry", "retried"}
GroundSteps == {"preflight", "next", "register", "submit", "observe", "evidence", "restore"}
CommandType ==
    [run : Nat, step : {"idle"} \cup FlightSteps \cup GroundSteps, at : Nat \ {0},
     existing : SUBSET [task : PlanTasks, state : States], inFlight : AllTasks,
     followed : SUBSET PlanTasks,
     outcome : {"none", "report", "failed", "refused", "cleanup_error", "restoration_error", "died"}]

\* A Task that is not over has run under the registered profile only, and one that was never
\* admitted under none.
OneProfile ==
    \A t \in AllTasks :
        /\ server.tasks[t].ran = {} \/ \E p \in Profiles : server.tasks[t].ran = {p}
        /\ InProgress(t) => server.tasks[t].ran \subseteq {server.profile}
        /\ server.tasks[t].state = "none" => server.tasks[t].ran = {}

ServerInv == server \in ServerType /\ OneProfile

\* The command's place in the plan, and the only Task it may have left in progress.
SoundPlace ==
    /\ evaluation.at <= 2 * Pairs + 1
    /\ evaluation.step \in {"preflight", "register", "submit", "observe", "follow"} => evaluation.at \in PlanTasks
    /\ evaluation.step = "evidence" => evaluation.at \in PlanTasks
SoundFlight ==
    /\ evaluation.step \in GroundSteps => evaluation.inFlight = AnotherTask
    /\ evaluation.step \in FlightSteps => evaluation.inFlight \in evaluation.followed
    /\ evaluation.step = "follow" => evaluation.inFlight = evaluation.at
Accounted ==
    /\ \A t \in evaluation.followed : server.tasks[t].state # "none"
    /\ \A e \in evaluation.existing :
          /\ server.tasks[e.task].state # "none"
          /\ e.state \in Terminal => server.tasks[e.task].state \in Terminal
    /\ evaluation.step # "idle" =>
          \A t \in evaluation.followed : InProgress(t) => t = evaluation.inFlight

IInv ==
    /\ ServerInv
    /\ evaluation \in CommandType
    /\ SoundPlace /\ SoundFlight /\ Accounted
    /\ NothingIsLeftBehind

(***************************************************************************)
(* What the server does to a Task, whoever asks for it.                     *)
(***************************************************************************)
\* A Task goes on from where it is: it is not forgotten, and what is over stays over.
GoesOn(t) ==
    /\ server.tasks[t].state # "none" => server'.tasks[t].state # "none"
    /\ server.tasks[t].state \in Terminal => server'.tasks[t].state \in Terminal

\* The invariant holds initially.
LEMMA InitIsSound == EvaluationInit => IInv
<1> SUFFICES ASSUME EvaluationInit PROVE IInv
    OBVIOUS
<1> USE EvaluationAssumption DEF EvaluationInit, Idle, AllTasks, AnotherTask, PlanTasks
<1>1. server \in ServerType
    BY DEF ServerType, Profiles, States, Terminal
<1>2. OneProfile
    BY DEF OneProfile, InProgress
<1>3. evaluation \in CommandType
    BY DEF CommandType, FlightSteps, GroundSteps
<1>4. SoundPlace /\ SoundFlight /\ Accounted /\ NothingIsLeftBehind
    BY DEF SoundPlace, SoundFlight, Accounted, NothingIsLeftBehind, At, FlightSteps, GroundSteps
<1> QED BY <1>1, <1>2, <1>3, <1>4 DEF IInv, ServerInv

\* An admission, now or late, starts a Task that has not run.
LEMMA AdmissionIsSound ==
    ASSUME ServerInv, NEW t \in AllTasks, server' = Admitted(t)
    PROVE  ServerInv' /\ (\A u \in AllTasks : GoesOn(u)) /\ server'.tasks[t].state # "none"
           /\ server'.profile = server.profile
           /\ \A u \in AllTasks \ {t} : server'.tasks[u] = server.tasks[u]
<1> USE DEF ServerInv, Admitted
<1>1. server' \in ServerType
    BY DEF ServerType, States, Terminal
<1>2. OneProfile'
    BY DEF OneProfile, InProgress, ServerType, States, Terminal
<1>3. \A u \in AllTasks : GoesOn(u)
    BY DEF GoesOn, ServerType, Terminal
<1>4. server'.tasks[t].state # "none" /\ server'.profile = server.profile
    BY DEF ServerType
<1>5. \A u \in AllTasks \ {t} : server'.tasks[u] = server.tasks[u]
    BY DEF ServerType
<1> QED BY <1>1, <1>2, <1>3, <1>4, <1>5

\* A registration finds nothing in progress that has run under another profile.
LEMMA RegistrationIsSound ==
    ASSUME ServerInv, NEW profile \in Profiles, Registers(profile),
           server' = [server EXCEPT !.profile = profile]
    PROVE  ServerInv' /\ server'.profile = profile /\ server'.tasks = server.tasks
<1>1. server' \in ServerType
    BY DEF ServerInv, ServerType
<1>2. server'.profile = profile /\ server'.tasks = server.tasks
    BY DEF ServerInv, ServerType
<1>3. OneProfile'
    BY <1>2 DEF ServerInv, OneProfile, Registers, Leased, InProgress, ServerType
<1> QED BY <1>1, <1>2, <1>3 DEF ServerInv

\* A move of one Task that keeps what it ran under.
LEMMA StateChangeIsSound ==
    ASSUME ServerInv, NEW t \in AllTasks, NEW state \in States \ {"none"}, SetState(t, state),
           InProgress(t)
    PROVE  ServerInv' /\ (\A u \in AllTasks : GoesOn(u)) /\ server'.tasks[t].state = state
           /\ server'.profile = server.profile
           /\ \A u \in AllTasks \ {t} : server'.tasks[u] = server.tasks[u]
<1> USE DEF ServerInv, SetState
<1>1. server' \in ServerType
    BY DEF ServerType
<1>2. OneProfile'
    BY DEF OneProfile, InProgress, ServerType, States, Terminal
<1>3. \A u \in AllTasks : GoesOn(u)
    BY DEF GoesOn, ServerType, Terminal, InProgress
<1> QED BY <1>1, <1>2, <1>3 DEF ServerType

\* Every step the server takes on its own keeps what it has promised about every Task.
LEMMA ServerStepIsSound ==
    ASSUME ServerInv, ServerStep
    PROVE  ServerInv' /\ server'.profile = server.profile
           /\ \A t \in AllTasks : GoesOn(t) /\ (t # AnotherTask /\ InProgress(t)' =>
                  InProgress(t) \/ server.tasks[t].state = "none")
<1> USE DEF ServerInv
<1>d. DOMAIN server.tasks = AllTasks /\ AnotherTask \in AllTasks
    BY DEF ServerType, AllTasks
<1>1. CASE SubmitAnother
    <2>1. server' = Admitted(AnotherTask)
        BY <1>1 DEF SubmitAnother
    <2> QED BY <2>1, <1>d, AdmissionIsSound DEF InProgress
<1>2. CASE LateAdmission
    <2>1. server.late \in AllTasks
        BY DEF ServerType
    <2>2. CASE Admits(server.late)
        <3>1. server' = [Admitted(server.late) EXCEPT !.late = AnotherTask]
            BY <1>2, <2>2 DEF LateAdmission
        <3>2. Admitted(server.late) \in ServerType
            BY <2>1 DEF Admitted, ServerType, States, Terminal
        <3>3. server' \in ServerType /\ server'.profile = server.profile
            BY <3>1, <3>2, <1>d DEF ServerType, Admitted
        <3>4. server'.tasks = Admitted(server.late).tasks
            BY <3>1, <3>2 DEF ServerType
        <3>5. \A t \in AllTasks : server'.tasks[t] =
                 IF t = server.late /\ server.tasks[t].state = "none"
                 THEN [server.tasks[t] EXCEPT !.state = "active"] ELSE server.tasks[t]
            BY <3>4, <2>1 DEF Admitted, ServerType
        <3>6. \A t \in AllTasks :
                 /\ server'.tasks[t].ran = server.tasks[t].ran
                 /\ server'.tasks[t].state = IF t = server.late /\ server.tasks[t].state = "none"
                                            THEN "active" ELSE server.tasks[t].state
            BY <3>5 DEF ServerType
        <3>7. OneProfile'
            BY <3>3, <3>6 DEF OneProfile, InProgress
        <3>8. \A t \in AllTasks : GoesOn(t) /\ (InProgress(t)' => InProgress(t) \/ server.tasks[t].state = "none")
            BY <3>6 DEF GoesOn, InProgress, Terminal
        <3> QED BY <3>3, <3>7, <3>8
    <2>3. CASE ~Admits(server.late)
        <3>1. server' = [server EXCEPT !.late = AnotherTask]
            BY <1>2, <2>3 DEF LateAdmission
        <3>2. server' \in ServerType /\ server'.tasks = server.tasks /\ server'.profile = server.profile
            BY <3>1, <1>d DEF ServerType
        <3> QED BY <3>2 DEF OneProfile, InProgress, GoesOn
    <2> QED BY <2>2, <2>3
<1>3. ASSUME NEW t \in AllTasks, ExecutionStarts(t)
      PROVE  /\ ServerInv' /\ server'.profile = server.profile
             /\ \A u \in AllTasks : GoesOn(u) /\ (InProgress(u)' => InProgress(u))
    <2>1. server' = [server EXCEPT !.tasks[t].ran = @ \cup {server.profile}] /\ InProgress(t)
        BY <1>3 DEF ExecutionStarts, InProgress
    <2>2. server' \in ServerType /\ server'.profile = server.profile
        BY <2>1 DEF ServerType
    <2>3. \A u \in AllTasks : /\ server'.tasks[u].state = server.tasks[u].state
                              /\ server'.tasks[u].ran = IF u = t THEN server.tasks[u].ran \cup {server.profile}
                                                                 ELSE server.tasks[u].ran
        BY <2>1 DEF ServerType
    <2>4. server.tasks[t].ran \subseteq {server.profile} /\ server.profile \in Profiles
          /\ server.tasks[t].state # "none"
        BY <2>1 DEF OneProfile, ServerType, InProgress
    <2>5. server'.tasks[t].ran = {server.profile}
        BY <2>3, <2>4
    <2>6. ASSUME NEW u \in AllTasks
          PROVE  /\ server'.tasks[u].ran = {} \/ \E p \in Profiles : server'.tasks[u].ran = {p}
                 /\ InProgress(u)' => server'.tasks[u].ran \subseteq {server'.profile}
                 /\ server'.tasks[u].state = "none" => server'.tasks[u].ran = {}
        <3>1. CASE u = t
            <4>1. server'.tasks[u].ran = {server.profile} /\ server'.tasks[u].state # "none"
                BY <3>1, <2>3, <2>4, <2>5
            <4>2. \E p \in Profiles : server'.tasks[u].ran = {p}
                BY <4>1, <2>4, Zenon
            <4>3. server'.tasks[u].ran \subseteq {server'.profile}
                BY <4>1, <2>2
            <4> QED BY <4>1, <4>2, <4>3, Zenon
        <3>2. CASE u # t
            <4>1. server'.tasks[u].ran = server.tasks[u].ran /\ server'.tasks[u].state = server.tasks[u].state
                BY <3>2, <2>3
            <4>2. /\ server.tasks[u].ran = {} \/ \E p \in Profiles : server.tasks[u].ran = {p}
                  /\ InProgress(u) => server.tasks[u].ran \subseteq {server.profile}
                  /\ server.tasks[u].state = "none" => server.tasks[u].ran = {}
                BY DEF OneProfile
            <4>3. InProgress(u)' => InProgress(u)
                BY <4>1 DEF InProgress
            <4> QED BY <4>1, <4>2, <4>3, <2>2
        <3> QED BY <3>1, <3>2
    <2>7. OneProfile'
        BY <2>6 DEF OneProfile
    <2> QED BY <2>2, <2>3, <2>7 DEF GoesOn, InProgress
<1>4. ASSUME NEW t \in AllTasks, TaskStops(t) \/ TaskResumes(t)
      PROVE  /\ ServerInv' /\ server'.profile = server.profile
             /\ \A u \in AllTasks : GoesOn(u) /\ (InProgress(u)' => InProgress(u))
    <2>1. PICK state \in States \ {"none"} : SetState(t, state) /\ InProgress(t)
        BY <1>4 DEF TaskStops, TaskResumes, InProgress, States, Terminal
    <2>2. \A u \in AllTasks \ {t} : server'.tasks[u] = server.tasks[u]
        BY <2>1, StateChangeIsSound
    <2> QED BY <2>1, <2>2, StateChangeIsSound DEF InProgress
<1>5. ASSUME NEW t \in AllTasks, TaskExpires(t)
      PROVE  /\ ServerInv' /\ server'.profile = server.profile
             /\ \A u \in AllTasks : GoesOn(u) /\ (InProgress(u)' => InProgress(u))
    <2>1. server' = [server EXCEPT !.tasks[t].expired = TRUE]
        BY <1>5 DEF TaskExpires
    <2>2. server' \in ServerType /\ server'.profile = server.profile
        BY <2>1 DEF ServerType
    <2>3. \A u \in AllTasks : /\ server'.tasks[u].state = server.tasks[u].state
                              /\ server'.tasks[u].ran = server.tasks[u].ran
        BY <2>1 DEF ServerType
    <2> QED BY <2>2, <2>3 DEF GoesOn, InProgress, OneProfile
<1> QED BY <1>1, <1>2, <1>3, <1>4, <1>5, <1>d DEF ServerStep

(***************************************************************************)
(* The command.                                                             *)
(***************************************************************************)
\* The part of the invariant that is about the command.
CommandInv ==
    /\ evaluation \in CommandType
    /\ SoundPlace /\ SoundFlight /\ Accounted
    /\ NothingIsLeftBehind

\* While the server moves on its own, no Task the command follows comes back to life.
LEMMA ServerKeepsCommand ==
    ASSUME IInv, ServerInv', server'.profile = server.profile, UNCHANGED evaluation,
           \A t \in AllTasks : GoesOn(t) /\ (t # AnotherTask /\ InProgress(t)' =>
               InProgress(t) \/ server.tasks[t].state = "none")
    PROVE  CommandInv'
<1>0. evaluation \in CommandType /\ evaluation' = evaluation
    BY DEF IInv
<1>1. \A t \in evaluation.followed : t \in AllTasks /\ t # AnotherTask
    BY <1>0, EvaluationAssumption DEF CommandType, AllTasks, AnotherTask, PlanTasks
<1>2. \A e \in evaluation.existing : e.task \in AllTasks
    BY <1>0 DEF CommandType, AllTasks
<1>3. (SoundPlace /\ SoundFlight)'
    BY <1>0 DEF IInv, SoundPlace, SoundFlight
<1>4. \A t \in evaluation.followed : InProgress(t)' => InProgress(t)
    BY <1>1 DEF IInv, Accounted
<1>5. Accounted'
    BY <1>0, <1>1, <1>2, <1>4 DEF IInv, Accounted, GoesOn
<1>6. NothingIsLeftBehind'
    BY <1>0, <1>4 DEF IInv, NothingIsLeftBehind, At
<1> QED BY <1>0, <1>3, <1>5, <1>6 DEF CommandInv

\* The command stops and says why; if it says nothing of cleanup, nothing is left to clean up.
LEMMA EndIsSound ==
    ASSUME IInv, ServerInv', NEW outcome \in {"refused", "cleanup_error", "restoration_error", "died"},
           EvaluationEnds(outcome), server'.tasks = server.tasks
    PROVE  CommandInv'
<1>0. evaluation \in CommandType /\ evaluation' = [evaluation EXCEPT !.step = "idle", !.outcome = outcome]
    BY DEF IInv, EvaluationEnds
<1>1. evaluation' \in CommandType
    BY <1>0 DEF CommandType
<1>2. /\ evaluation'.step = "idle" /\ evaluation'.outcome = outcome
      /\ evaluation'.followed = evaluation.followed /\ evaluation'.existing = evaluation.existing
      /\ evaluation'.at = evaluation.at
    BY <1>0 DEF CommandType
<1>3. SoundPlace' /\ SoundFlight' /\ Accounted' /\ NothingIsLeftBehind'
    BY <1>2 DEF IInv, SoundPlace, SoundFlight, Accounted, NothingIsLeftBehind, At, FlightSteps, GroundSteps
<1> QED BY <1>1, <1>3 DEF CommandInv

\* What a step of the command changes when it goes on to another step.
LEMMA GoingOnIsSound ==
    ASSUME IInv, ServerInv', evaluation' \in CommandType, evaluation'.step # "idle",
           \A t \in PlanTasks : GoesOn(t),
           \A t \in evaluation'.followed : server'.tasks[t].state # "none",
           \A e \in evaluation'.existing \ evaluation.existing : e.state = server'.tasks[e.task].state /\ e.state # "none",
           \A t \in evaluation'.followed : InProgress(t)' => t = evaluation'.inFlight,
           SoundPlace', SoundFlight'
    PROVE  CommandInv'
<1>1. \A e \in evaluation.existing : e.task \in PlanTasks
    BY DEF IInv, CommandType
<1>2. Accounted'
    BY <1>1 DEF IInv, Accounted, GoesOn
<1>3. NothingIsLeftBehind'
    BY DEF NothingIsLeftBehind, At
<1> QED BY <1>2, <1>3 DEF CommandInv

\* Most steps leave the server alone.
LEMMA Unmoved ==
    ASSUME IInv, UNCHANGED server
    PROVE  ServerInv' /\ (\A t \in PlanTasks : GoesOn(t)) /\ \A t : InProgress(t)' = InProgress(t)
BY DEF IInv, ServerInv, OneProfile, InProgress, GoesOn

\* A failure of the command leaves at most the Task in flight to the cleanup.
LEMMA FailureIsSound ==
    ASSUME IInv, ServerInv', EvaluationFails, server'.tasks = server.tasks,
           evaluation.step \in GroundSteps \cup {"follow"}
    PROVE  CommandInv'
<1> DEFINE step == IF evaluation.inFlight # AnotherTask THEN "cleanup" ELSE "restore"
<1>0. /\ evaluation \in CommandType
      /\ evaluation' = [evaluation EXCEPT !.outcome = "failed", !.step = step]
    BY DEF IInv, EvaluationFails
<1>1. step \in {"cleanup", "restore"} /\ (step = "restore" <=> evaluation.inFlight = AnotherTask)
    OBVIOUS
<1> HIDE DEF step
<1>2. evaluation' \in CommandType
    BY <1>0, <1>1 DEF CommandType, FlightSteps, GroundSteps
<1>3. /\ evaluation'.step = step /\ evaluation'.inFlight = evaluation.inFlight
      /\ evaluation'.followed = evaluation.followed /\ evaluation'.existing = evaluation.existing
      /\ evaluation'.at = evaluation.at
    BY <1>0 DEF CommandType
<1>4. SoundPlace' /\ SoundFlight'
    BY <1>1, <1>3 DEF IInv, SoundPlace, SoundFlight, FlightSteps, GroundSteps
<1>5. \A t \in PlanTasks : GoesOn(t)
    BY DEF GoesOn
<1>6. evaluation.step # "idle"
    BY DEF GroundSteps
<1>7. \A t \in evaluation.followed : server.tasks[t].state # "none" /\ (InProgress(t) => t = evaluation.inFlight)
    BY <1>6 DEF IInv, Accounted
<1>8. \A t : InProgress(t)' = InProgress(t)
    BY DEF InProgress
<1> QED BY <1>1, <1>2, <1>3, <1>4, <1>5, <1>7, <1>8, GoingOnIsSound

\* A place in the plan that is not behind its end is a Task's.
LEMMA Places == \A n \in Nat \ {0} : n <= 2 * Pairs => n \in PlanTasks
BY EvaluationAssumption DEF PlanTasks

\* A step of the command that does not change the server, or only what it registers.
LEMMA QuietStep ==
    ASSUME IInv, ServerInv', server'.tasks = server.tasks, NEW step \in GroundSteps \cup FlightSteps,
           evaluation.step # "idle",
           evaluation' \in CommandType, evaluation'.step = step,
           evaluation'.followed = evaluation.followed, evaluation'.existing = evaluation.existing,
           evaluation'.inFlight = evaluation.inFlight, SoundPlace', SoundFlight'
    PROVE  CommandInv'
<1>1. \A t \in PlanTasks : GoesOn(t)
    BY DEF GoesOn
<1>2. \A t : InProgress(t)' = InProgress(t)
    BY DEF InProgress
<1>3. \A t \in evaluation.followed : server.tasks[t].state # "none" /\ (InProgress(t) => t = evaluation.inFlight)
    BY DEF IInv, Accounted
<1>4. evaluation'.step # "idle"
    BY DEF GroundSteps, FlightSteps
<1> QED BY <1>1, <1>2, <1>3, <1>4, GoingOnIsSound

\* Beginning an evaluation keeps the invariant.
LEMMA BeginIsSound == ASSUME IInv, BeginEvaluation PROVE IInv'
<1>0. /\ evaluation \in CommandType /\ UNCHANGED server
      /\ evaluation' = [Idle EXCEPT !.run = evaluation.run + 1, !.step = "preflight"]
    BY DEF IInv, BeginEvaluation
<1>1. evaluation' \in CommandType
    <2>1. evaluation' = [run |-> evaluation.run + 1, step |-> "preflight", at |-> 1, existing |-> {},
                         inFlight |-> AnotherTask, followed |-> {}, outcome |-> "none"]
        BY <1>0 DEF Idle
    <2>2. evaluation.run + 1 \in Nat /\ AnotherTask \in AllTasks
        BY <1>0 DEF CommandType, AllTasks
    <2> QED BY <2>1, <2>2 DEF CommandType, GroundSteps
<1>2. /\ evaluation'.step = "preflight" /\ evaluation'.at = 1 /\ evaluation'.existing = {}
      /\ evaluation'.followed = {} /\ evaluation'.inFlight = AnotherTask
    BY <1>0 DEF Idle
<1>3. SoundPlace' /\ SoundFlight'
    BY <1>2, Places, EvaluationAssumption DEF SoundPlace, SoundFlight, GroundSteps, FlightSteps
<1> QED BY <1>0, <1>1, <1>2, <1>3, Unmoved, GoingOnIsSound DEF IInv, CommandInv

\* The preflight keeps the invariant.
LEMMA PreflightIsSound == ASSUME IInv, PreflightTask PROVE IInv'
<1>0. evaluation \in CommandType /\ evaluation.step = "preflight" /\ evaluation.at \in PlanTasks /\ UNCHANGED server
    BY DEF IInv, PreflightTask, At, SoundPlace
<1>1. ServerInv'
    BY <1>0, Unmoved
<1>2. CASE EvaluationEnds("refused")
    BY <1>0, <1>1, <1>2, EndIsSound DEF IInv, CommandInv
<1>3. CASE ~EvaluationEnds("refused")
    <2> DEFINE found == IF Task.state = "none" THEN evaluation.existing
                        ELSE evaluation.existing \cup {[task |-> evaluation.at, state |-> Task.state]}
               at == IF evaluation.at = 2 * Pairs THEN 1 ELSE evaluation.at + 1
               step == IF evaluation.at = 2 * Pairs THEN "next" ELSE "preflight"
    <2>1. evaluation' = [evaluation EXCEPT !.existing = found, !.at = at, !.step = step]
        BY <1>3 DEF PreflightTask
    <2>2. Task.state \in States
        BY <1>0 DEF Task, IInv, ServerInv, ServerType, AllTasks
    <2>3. /\ found \in SUBSET [task : PlanTasks, state : States]
          /\ \A e \in found \ evaluation.existing : e.task = evaluation.at /\ e.state = Task.state /\ e.state # "none"
        BY <1>0, <2>2 DEF CommandType
    <2>4. at \in PlanTasks /\ at \in Nat \ {0} /\ step \in {"next", "preflight"}
        BY <1>0, EvaluationAssumption DEF PlanTasks
    <2> HIDE DEF found, at, step
    <2>5. evaluation' \in CommandType
        BY <1>0, <2>1, <2>3, <2>4 DEF CommandType, GroundSteps
    <2>6. /\ evaluation'.step = step /\ evaluation'.at = at /\ evaluation'.existing = found
          /\ evaluation'.followed = evaluation.followed /\ evaluation'.inFlight = evaluation.inFlight
        BY <1>0, <2>1 DEF CommandType
    <2>7. SoundPlace' /\ SoundFlight'
        BY <1>0, <2>4, <2>6, EvaluationAssumption DEF IInv, SoundPlace, SoundFlight, GroundSteps, FlightSteps, PlanTasks
    <2>8. \A e \in found \ evaluation.existing : e.state = server'.tasks[e.task].state /\ e.state # "none"
        BY <1>0, <2>3 DEF Task
    <2>9. \A t \in evaluation.followed : server.tasks[t].state # "none" /\ (InProgress(t) => t = evaluation.inFlight)
        BY <1>0 DEF IInv, Accounted
    <2>10. evaluation'.step # "idle"
        BY <2>4, <2>6
    <2> QED BY <1>0, <1>1, <2>5, <2>6, <2>7, <2>8, <2>9, <2>10, Unmoved, GoingOnIsSound DEF IInv, CommandInv
<1> QED BY <1>2, <1>3

\* Going on to the next Task keeps the invariant.
LEMMA NextTaskIsSound == ASSUME IInv, NextTask PROVE IInv'
<1>0. evaluation \in CommandType /\ evaluation.step = "next" /\ UNCHANGED server /\ evaluation.inFlight = AnotherTask
    BY DEF IInv, NextTask, At, SoundFlight, GroundSteps
<1>1. ServerInv' /\ (\A t \in PlanTasks : GoesOn(t)) /\ \A t : InProgress(t)' = InProgress(t)
    BY <1>0, Unmoved
<1>2. CASE evaluation' = [evaluation EXCEPT !.step = "restore", !.outcome = "report"]
    <2>1. evaluation' \in CommandType
        BY <1>0, <1>2 DEF CommandType, GroundSteps
    <2>2. /\ evaluation'.step = "restore" /\ evaluation'.at = evaluation.at /\ evaluation'.existing = evaluation.existing
          /\ evaluation'.followed = evaluation.followed /\ evaluation'.inFlight = evaluation.inFlight
        BY <1>0, <1>2 DEF CommandType
    <2>3. SoundPlace' /\ SoundFlight'
        BY <1>0, <2>2 DEF IInv, SoundPlace, SoundFlight, GroundSteps, FlightSteps
    <2> QED BY <1>0, <1>1, <2>1, <2>2, <2>3, QuietStep DEF IInv, CommandInv, GroundSteps
<1>3. CASE EvaluationFails
    BY <1>0, <1>1, <1>3, FailureIsSound DEF IInv, CommandInv, GroundSteps
<1>4. CASE evaluation.at <= 2 * Pairs /\ Goto("register")
    <2>1. evaluation' \in CommandType
        BY <1>0, <1>4 DEF CommandType, GroundSteps, Goto
    <2>2. /\ evaluation'.step = "register" /\ evaluation'.at = evaluation.at /\ evaluation'.existing = evaluation.existing
          /\ evaluation'.followed = evaluation.followed /\ evaluation'.inFlight = evaluation.inFlight
        BY <1>0, <1>4 DEF CommandType, Goto
    <2>3. evaluation.at \in PlanTasks
        BY <1>0, <1>4, Places DEF CommandType
    <2>4. SoundPlace' /\ SoundFlight'
        BY <1>0, <2>2, <2>3 DEF IInv, SoundPlace, SoundFlight, GroundSteps, FlightSteps
    <2> QED BY <1>0, <1>1, <2>1, <2>2, <2>4, QuietStep DEF IInv, CommandInv, GroundSteps
<1>5. ASSUME NEW e \in evaluation.existing, e.task = evaluation.at,
             evaluation' = [evaluation EXCEPT !.followed = @ \cup {e.task},
                    !.inFlight = IF e.state \in Terminal THEN @ ELSE e.task,
                    !.step = IF e.state \in Terminal THEN "evidence" ELSE "follow"]
      PROVE  CommandInv'
    <2> DEFINE flight == IF e.state \in Terminal THEN evaluation.inFlight ELSE e.task
               step == IF e.state \in Terminal THEN "evidence" ELSE "follow"
    <2>0. evaluation' = [evaluation EXCEPT !.followed = @ \cup {e.task}, !.inFlight = flight, !.step = step]
        BY <1>5
    <2>1. e.task \in PlanTasks /\ server.tasks[e.task].state # "none"
          /\ (e.state \in Terminal => server.tasks[e.task].state \in Terminal)
        BY <1>0 DEF CommandType, IInv, Accounted
    <2>2. \/ step = "evidence" /\ flight = AnotherTask /\ e.state \in Terminal
          \/ step = "follow" /\ flight = e.task
        BY <1>0
    <2> HIDE DEF flight, step
    <2>3. evaluation' \in CommandType
        BY <1>0, <2>0, <2>1, <2>2 DEF CommandType, GroundSteps, FlightSteps, AllTasks
    <2>4. /\ evaluation'.step = step /\ evaluation'.at = evaluation.at /\ evaluation'.existing = evaluation.existing
          /\ evaluation'.followed = evaluation.followed \cup {e.task} /\ evaluation'.inFlight = flight
        BY <1>0, <2>0 DEF CommandType
    <2>5. SoundPlace' /\ SoundFlight'
        BY <1>0, <1>5, <2>1, <2>2, <2>4 DEF IInv, SoundPlace, SoundFlight, GroundSteps, FlightSteps
    <2>6. \A t \in evaluation.followed : t \in PlanTasks /\ server.tasks[t].state # "none" /\ ~InProgress(t)
        BY <1>0, EvaluationAssumption DEF IInv, Accounted, CommandType, PlanTasks, AnotherTask
    <2>7. \A t \in evaluation'.followed : server'.tasks[t].state # "none" /\ (InProgress(t)' => t = evaluation'.inFlight)
        BY <1>0, <1>1, <2>1, <2>2, <2>4, <2>6 DEF InProgress, Terminal
    <2>8. evaluation'.step # "idle"
        BY <2>2, <2>4
    <2> QED BY <1>1, <2>3, <2>4, <2>5, <2>7, <2>8, GoingOnIsSound
<1> QED BY <1>1, <1>2, <1>3, <1>4, <1>5 DEF NextTask, IInv, CommandInv

\* Registering a profile keeps the invariant.
LEMMA RegisterIsSound == ASSUME IInv, RegisterProfile PROVE IInv'
<1>0. evaluation \in CommandType /\ evaluation.step = "register" /\ evaluation.at \in PlanTasks
    BY DEF IInv, RegisterProfile, At, SoundPlace
<1>1. ServerInv' /\ server'.tasks = server.tasks
    <2>1. CASE UNCHANGED server
        BY <2>1, Unmoved
    <2>2. CASE ~UNCHANGED server
        <3>1. Registers(SideOf(evaluation.at)) /\ server' = [server EXCEPT !.profile = SideOf(evaluation.at)]
            BY <2>2 DEF RegisterProfile
        <3>2. SideOf(evaluation.at) \in Profiles
            BY DEF SideOf, Profiles
        <3> QED BY <3>1, <3>2, RegistrationIsSound DEF IInv
    <2> QED BY <2>1, <2>2
<1>2. CASE EvaluationFails
    BY <1>0, <1>1, <1>2, FailureIsSound DEF IInv, CommandInv, GroundSteps
<1>3. CASE Goto("submit")
    <2>1. evaluation' \in CommandType
        BY <1>0, <1>3 DEF CommandType, GroundSteps, Goto
    <2>2. /\ evaluation'.step = "submit" /\ evaluation'.at = evaluation.at /\ evaluation'.existing = evaluation.existing
          /\ evaluation'.followed = evaluation.followed /\ evaluation'.inFlight = evaluation.inFlight
        BY <1>0, <1>3 DEF CommandType, Goto
    <2>3. SoundPlace' /\ SoundFlight'
        BY <1>0, <2>2 DEF IInv, SoundPlace, SoundFlight, GroundSteps, FlightSteps
    <2> QED BY <1>0, <1>1, <2>1, <2>2, <2>3, QuietStep DEF IInv, CommandInv, GroundSteps
<1> QED BY <1>2, <1>3 DEF RegisterProfile

\* The submitted Task is in flight, unless it is over already.
LEMMA SubmitIsSound == ASSUME IInv, SubmitTask PROVE IInv'
<1> DEFINE s == evaluation.at
<1>0. /\ evaluation \in CommandType /\ evaluation.step = "submit" /\ s \in PlanTasks /\ s \in AllTasks
      /\ evaluation.inFlight = AnotherTask
    BY DEF IInv, SubmitTask, At, SoundPlace, SoundFlight, GroundSteps, AllTasks
<1>1. /\ ServerInv' /\ (\A t \in PlanTasks : GoesOn(t))
      /\ \A t \in PlanTasks : t # s => server'.tasks[t] = server.tasks[t]
      /\ server' = Admitted(s) => server'.tasks[s].state # "none"
    <2>1. CASE server' = Admitted(s)
        BY <1>0, <2>1, AdmissionIsSound DEF IInv, AllTasks
    <2>2. CASE UNCHANGED server /\ server' # Admitted(s)
        BY <2>2, Unmoved
    <2>3. CASE server' = [server EXCEPT !.late = s] /\ server' # Admitted(s)
        <3>1. server' \in ServerType /\ server'.tasks = server.tasks /\ server'.profile = server.profile
            BY <1>0, <2>3 DEF IInv, ServerInv, ServerType
        <3>2. OneProfile'
            BY <3>1 DEF IInv, ServerInv, OneProfile, InProgress
        <3> QED BY <2>3, <3>1, <3>2 DEF ServerInv, GoesOn
    <2> QED BY <2>1, <2>2, <2>3 DEF SubmitTask
<1>2. \A t \in evaluation.followed : t \in PlanTasks /\ server'.tasks[t].state # "none" /\ ~InProgress(t)
    BY <1>0, <1>1, EvaluationAssumption DEF IInv, Accounted, CommandType, PlanTasks, AnotherTask, GoesOn
<1>3. CASE Goto("observe")
    <2>1. evaluation' \in CommandType
        BY <1>0, <1>3 DEF CommandType, GroundSteps, Goto
    <2>2. /\ evaluation'.step = "observe" /\ evaluation'.at = evaluation.at /\ evaluation'.existing = evaluation.existing
          /\ evaluation'.followed = evaluation.followed /\ evaluation'.inFlight = evaluation.inFlight
        BY <1>0, <1>3 DEF CommandType, Goto
    <2>3. SoundPlace' /\ SoundFlight'
        BY <1>0, <2>2 DEF IInv, SoundPlace, SoundFlight, GroundSteps, FlightSteps
    <2>4. \A t \in evaluation.followed : server.tasks[t].state \in Terminal
        BY <1>0, <1>2 DEF IInv, Accounted, ServerInv, ServerType, States, InProgress, AllTasks
    <2>5. \A t \in evaluation.followed : ~InProgress(t)'
        BY <1>1, <1>2, <2>4 DEF GoesOn, InProgress, Terminal
    <2> QED BY <1>1, <1>2, <2>1, <2>2, <2>3, <2>5, GoingOnIsSound DEF IInv, CommandInv
<1>4. CASE ~Goto("observe")
    <2> DEFINE over == server'.tasks[s].state \in Terminal
               flight == IF over THEN evaluation.inFlight ELSE s
               step == IF over THEN "evidence" ELSE "follow"
    <2>1. evaluation' = [evaluation EXCEPT !.followed = @ \cup {s}, !.inFlight = flight, !.step = step]
          /\ server' = Admitted(s)
        BY <1>4 DEF SubmitTask
    <2>2. \/ step = "evidence" /\ flight = AnotherTask /\ server'.tasks[s].state \in Terminal
          \/ step = "follow" /\ flight = s
        BY <1>0
    <2> HIDE DEF over, flight, step, s
    <2>3. evaluation' \in CommandType
        BY <1>0, <2>1, <2>2 DEF CommandType, GroundSteps, FlightSteps, AllTasks
    <2>4. /\ evaluation'.step = step /\ evaluation'.at = evaluation.at /\ evaluation'.existing = evaluation.existing
          /\ evaluation'.followed = evaluation.followed \cup {s} /\ evaluation'.inFlight = flight
        BY <1>0, <2>1 DEF CommandType
    <2>5. SoundPlace' /\ SoundFlight'
        BY <1>0, <2>2, <2>4 DEF IInv, SoundPlace, SoundFlight, GroundSteps, FlightSteps, s
    <2>6. ASSUME NEW t \in evaluation'.followed
          PROVE  server'.tasks[t].state # "none" /\ (InProgress(t)' => t = evaluation'.inFlight)
        <3>1. CASE t = s
            BY <3>1, <1>1, <2>1, <2>2, <2>4 DEF InProgress, Terminal
        <3>2. CASE t # s
            BY <3>2, <1>1, <1>2, <2>4 DEF InProgress
        <3> QED BY <3>1, <3>2
    <2>7. evaluation'.step # "idle"
        BY <2>2, <2>4
    <2> QED BY <1>1, <2>3, <2>4, <2>5, <2>6, <2>7, GoingOnIsSound DEF IInv, CommandInv
<1> QED BY <1>3, <1>4

\* Observing an admission keeps the invariant.
LEMMA ObserveIsSound == ASSUME IInv, ObserveAdmission PROVE IInv'
<1>0. /\ evaluation \in CommandType /\ evaluation.step = "observe" /\ evaluation.at \in PlanTasks
      /\ evaluation.inFlight = AnotherTask /\ UNCHANGED server
    BY DEF IInv, ObserveAdmission, At, SoundPlace, SoundFlight, GroundSteps
<1>1. ServerInv' /\ (\A t \in PlanTasks : GoesOn(t)) /\ \A t : InProgress(t)' = InProgress(t)
    BY <1>0, Unmoved
<1>2. CASE EvaluationEnds("cleanup_error")
    BY <1>0, <1>1, <1>2, EndIsSound DEF IInv, CommandInv
<1>3. CASE EvaluationFails
    BY <1>0, <1>1, <1>3, FailureIsSound DEF IInv, CommandInv, GroundSteps
<1>4. CASE /\ InProgress(evaluation.at)
           /\ evaluation' = [evaluation EXCEPT !.outcome = "failed", !.step = "cleanup",
                !.inFlight = evaluation.at, !.followed = @ \cup {evaluation.at}]
    <2>1. evaluation' \in CommandType
        BY <1>0, <1>4 DEF CommandType, FlightSteps, AllTasks
    <2>2. /\ evaluation'.step = "cleanup" /\ evaluation'.at = evaluation.at /\ evaluation'.existing = evaluation.existing
          /\ evaluation'.followed = evaluation.followed \cup {evaluation.at} /\ evaluation'.inFlight = evaluation.at
        BY <1>0, <1>4 DEF CommandType
    <2>3. SoundPlace' /\ SoundFlight'
        BY <1>0, <2>2 DEF IInv, SoundPlace, SoundFlight, GroundSteps, FlightSteps
    <2>4. \A t \in evaluation.followed : server.tasks[t].state # "none" /\ ~InProgress(t)
        BY <1>0, EvaluationAssumption DEF IInv, Accounted, CommandType, PlanTasks, AnotherTask
    <2>5. server.tasks[evaluation.at].state # "none"
        BY <1>4 DEF InProgress
    <2>6. \A t \in evaluation'.followed : server'.tasks[t].state # "none" /\ (InProgress(t)' => t = evaluation'.inFlight)
        BY <1>0, <1>1, <2>2, <2>4, <2>5
    <2> QED BY <1>1, <2>1, <2>2, <2>3, <2>6, GoingOnIsSound DEF IInv, CommandInv
<1> QED BY <1>2, <1>3, <1>4 DEF ObserveAdmission

\* Following a Task keeps the invariant.
LEMMA FollowIsSound == ASSUME IInv, FollowTask PROVE IInv'
<1>0. /\ evaluation \in CommandType /\ evaluation.step = "follow" /\ evaluation.at \in PlanTasks
      /\ evaluation.inFlight = evaluation.at /\ UNCHANGED server
    BY DEF IInv, FollowTask, At, SoundPlace, SoundFlight, FlightSteps
<1>1. ServerInv' /\ (\A t \in PlanTasks : GoesOn(t)) /\ \A t : InProgress(t)' = InProgress(t)
    BY <1>0, Unmoved
<1>2. CASE EvaluationFails
    BY <1>0, <1>1, <1>2, FailureIsSound DEF IInv, CommandInv
<1>3. CASE /\ Task.state \in Terminal
           /\ evaluation' = [evaluation EXCEPT !.step = "evidence", !.inFlight = AnotherTask]
    <2>1. evaluation' \in CommandType
        BY <1>0, <1>3 DEF CommandType, GroundSteps, AllTasks
    <2>2. /\ evaluation'.step = "evidence" /\ evaluation'.at = evaluation.at /\ evaluation'.existing = evaluation.existing
          /\ evaluation'.followed = evaluation.followed /\ evaluation'.inFlight = AnotherTask
        BY <1>0, <1>3 DEF CommandType
    <2>3. SoundPlace' /\ SoundFlight'
        BY <1>0, <2>2 DEF IInv, SoundPlace, SoundFlight, GroundSteps, FlightSteps
    <2>4. \A t \in evaluation.followed : server.tasks[t].state # "none" /\ (InProgress(t) => t = evaluation.at)
        BY <1>0 DEF IInv, Accounted
    <2>5. ~InProgress(evaluation.at)
        BY <1>3 DEF Task, InProgress, Terminal
    <2> QED BY <1>0, <1>1, <2>1, <2>2, <2>3, <2>4, <2>5, GoingOnIsSound DEF IInv, CommandInv
<1> QED BY <1>2, <1>3 DEF FollowTask

\* Reading the evidence keeps the invariant.
LEMMA EvidenceIsSound == ASSUME IInv, ReadEvidence PROVE IInv'
<1>0. /\ evaluation \in CommandType /\ evaluation.step = "evidence" /\ evaluation.at \in PlanTasks /\ UNCHANGED server
    BY DEF IInv, ReadEvidence, At, SoundPlace
<1>1. ServerInv' /\ \A t : InProgress(t)' = InProgress(t)
    BY <1>0, Unmoved
<1>2. CASE EvaluationFails
    BY <1>0, <1>1, <1>2, FailureIsSound DEF IInv, CommandInv, GroundSteps
<1>3. CASE evaluation' = [evaluation EXCEPT !.step = "next", !.at = @ + 1]
    <2>1. evaluation' \in CommandType
        <3>1. evaluation.at + 1 \in Nat \ {0} /\ "next" \in GroundSteps
            BY <1>0 DEF CommandType, GroundSteps
        <3> HIDE DEF GroundSteps
        <3> QED BY <1>0, <1>3, <3>1 DEF CommandType
    <2>2. /\ evaluation'.step = "next" /\ evaluation'.at = evaluation.at + 1 /\ evaluation'.existing = evaluation.existing
          /\ evaluation'.followed = evaluation.followed /\ evaluation'.inFlight = evaluation.inFlight
        BY <1>0, <1>3 DEF CommandType
    <2>3. SoundPlace' /\ SoundFlight'
        BY <1>0, <2>2, EvaluationAssumption DEF IInv, SoundPlace, SoundFlight, GroundSteps, FlightSteps, PlanTasks
    <2> QED BY <1>0, <1>1, <2>1, <2>2, <2>3, QuietStep DEF IInv, CommandInv, GroundSteps
<1> QED BY <1>2, <1>3 DEF ReadEvidence

\* The Task in flight is over, by itself or by the retry of this very step.
LEMMA OverIsSound ==
    ASSUME IInv, ServerInv', \A t \in PlanTasks : GoesOn(t), evaluation.step \in FlightSteps, TaskIsOver,
           server'.tasks[evaluation.inFlight].state \in Terminal,
           \A t \in PlanTasks : t # evaluation.inFlight => server'.tasks[t] = server.tasks[t]
    PROVE  CommandInv'
<1>0. evaluation \in CommandType /\ evaluation' = [evaluation EXCEPT !.step = "restore", !.inFlight = AnotherTask]
    BY DEF IInv, TaskIsOver
<1>1. evaluation' \in CommandType
    BY <1>0 DEF CommandType, GroundSteps, AllTasks
<1>2. /\ evaluation'.step = "restore" /\ evaluation'.at = evaluation.at /\ evaluation'.existing = evaluation.existing
      /\ evaluation'.followed = evaluation.followed /\ evaluation'.inFlight = AnotherTask
    BY <1>0 DEF CommandType
<1>3. SoundPlace' /\ SoundFlight'
    BY <1>2 DEF IInv, SoundPlace, SoundFlight, GroundSteps, FlightSteps
<1>4. \A t \in evaluation.followed : t \in PlanTasks /\ server.tasks[t].state # "none" /\ (InProgress(t) => t = evaluation.inFlight)
    BY <1>0 DEF IInv, Accounted, CommandType, FlightSteps
<1>5. \A t \in evaluation.followed : server'.tasks[t].state # "none" /\ ~InProgress(t)'
    BY <1>4 DEF GoesOn, InProgress, Terminal
<1> QED BY <1>1, <1>2, <1>3, <1>5, GoingOnIsSound

\* Where the cleanup goes on to another of its steps.
LEMMA CleanupGoesOn ==
    ASSUME IInv, ServerInv', \A t \in PlanTasks : GoesOn(t), evaluation.step \in FlightSteps \ {"follow"},
           NEW step \in FlightSteps \ {"follow"}, Goto(step),
           \A t \in PlanTasks : t # evaluation.inFlight => server'.tasks[t] = server.tasks[t]
    PROVE  CommandInv'
<1>0. evaluation \in CommandType /\ evaluation' = [evaluation EXCEPT !.step = step]
    BY DEF IInv, Goto
<1>1. evaluation' \in CommandType
    BY <1>0 DEF CommandType
<1>2. /\ evaluation'.step = step /\ evaluation'.at = evaluation.at /\ evaluation'.existing = evaluation.existing
      /\ evaluation'.followed = evaluation.followed /\ evaluation'.inFlight = evaluation.inFlight
    BY <1>0 DEF CommandType
<1>3. SoundPlace' /\ SoundFlight'
    BY <1>2 DEF IInv, SoundPlace, SoundFlight, GroundSteps, FlightSteps
<1>4. \A t \in evaluation.followed : t \in PlanTasks /\ server.tasks[t].state # "none" /\ (InProgress(t) => t = evaluation.inFlight)
    BY <1>0 DEF IInv, Accounted, CommandType, FlightSteps
<1>5. \A t \in evaluation.followed : server'.tasks[t].state # "none" /\ (InProgress(t)' => t = evaluation.inFlight)
    BY <1>4 DEF GoesOn, InProgress
<1>6. evaluation'.step # "idle"
    BY <1>2 DEF FlightSteps
<1> QED BY <1>1, <1>2, <1>3, <1>5, <1>6, GoingOnIsSound

\* Every step of the cleanup keeps the invariant.
LEMMA CleanupIsSound ==
    ASSUME IInv, CleanupTask \/ ExpireWaiting \/ RetryExpired \/ RecheckRetried
    PROVE  IInv'
<1>0. /\ evaluation \in CommandType /\ evaluation.step \in FlightSteps \ {"follow"}
      /\ evaluation.inFlight \in AllTasks
    BY DEF IInv, CommandType, CleanupTask, ExpireWaiting, RetryExpired, RecheckRetried, At, FlightSteps
<1>1. CASE UNCHANGED server
    <2>1. ServerInv' /\ (\A t \in PlanTasks : GoesOn(t)) /\ \A t \in PlanTasks : server'.tasks[t] = server.tasks[t]
        BY <1>1, Unmoved
    <2>2. CASE EvaluationEnds("cleanup_error")
        BY <1>1, <2>1, <2>2, EndIsSound DEF IInv, CommandInv
    <2>3. CASE TaskIsOver /\ InFlight.state \in Terminal
        <3>1. server'.tasks[evaluation.inFlight].state \in Terminal
            BY <1>1, <2>3 DEF InFlight
        <3> QED BY <1>0, <2>1, <2>3, <3>1, OverIsSound DEF IInv, CommandInv
    <2>4. ASSUME NEW step \in {"expire", "retry", "retried"}, Goto(step) PROVE IInv'
        <3>1. step \in FlightSteps \ {"follow"}
            BY DEF FlightSteps
        <3> QED BY <1>0, <2>1, <2>4, <3>1, CleanupGoesOn DEF IInv, CommandInv
    <2>5. CASE /\ SetState(evaluation.inFlight, "blocked") /\ InFlight.state = "waiting"
        <3>1. InProgress(evaluation.inFlight) /\ "blocked" \in States \ {"none"}
            BY <2>5 DEF InFlight, InProgress, States, Terminal
        <3>2. server'.tasks[evaluation.inFlight].state = "blocked"
            BY <1>0, <2>5, <3>1, StateChangeIsSound DEF IInv
        <3> QED BY <1>1, <2>5, <3>2 DEF InFlight
    <2>6. CASE CleanupTask
        BY <2>2, <2>3, <2>4, <2>6 DEF CleanupTask
    <2>7. CASE ExpireWaiting
        BY <2>2, <2>3, <2>4, <2>7 DEF ExpireWaiting
    <2>8. CASE RetryExpired
        BY <2>4, <2>5, <2>8 DEF RetryExpired
    <2>9. CASE RecheckRetried
        BY <2>2, <2>3, <2>9 DEF RecheckRetried
    <2> QED BY <2>6, <2>7, <2>8, <2>9
<1>2. CASE ~UNCHANGED server
    <2>1. /\ SetState(evaluation.inFlight, "blocked") /\ InFlight.state = "waiting"
          /\ TaskIsOver \/ Goto("retried")
          /\ evaluation.step = "retry"
        BY <1>2 DEF CleanupTask, ExpireWaiting, RetryExpired, RecheckRetried, At
    <2>2. InProgress(evaluation.inFlight) /\ "blocked" \in States \ {"none"}
        BY <2>1 DEF InFlight, InProgress, States, Terminal
    <2>3. /\ ServerInv' /\ (\A t \in PlanTasks : GoesOn(t))
          /\ server'.tasks[evaluation.inFlight].state = "blocked"
          /\ \A t \in PlanTasks : t # evaluation.inFlight => server'.tasks[t] = server.tasks[t]
        BY <1>0, <2>1, <2>2, StateChangeIsSound DEF IInv, AllTasks
    <2>4. server'.tasks[evaluation.inFlight].state \in Terminal
        BY <2>3 DEF Terminal
    <2>5. CASE TaskIsOver
        BY <1>0, <2>3, <2>4, <2>5, OverIsSound DEF IInv, CommandInv
    <2>6. CASE Goto("retried")
        BY <1>0, <2>3, <2>6, CleanupGoesOn DEF IInv, CommandInv, FlightSteps
    <2> QED BY <2>1, <2>5, <2>6
<1> QED BY <1>1, <1>2

\* Restoring the registration keeps the invariant.
LEMMA RestoreIsSound == ASSUME IInv, RestoreRegistration PROVE IInv'
<1>0. evaluation \in CommandType /\ evaluation.step = "restore" /\ evaluation.inFlight = AnotherTask
    BY DEF IInv, RestoreRegistration, At, SoundFlight, GroundSteps
<1>1. ServerInv' /\ server'.tasks = server.tasks
    <2>1. CASE UNCHANGED server
        BY <2>1, Unmoved
    <2>2. CASE ~UNCHANGED server
        <3>1. Registers("prior") /\ server' = [server EXCEPT !.profile = "prior"] /\ "prior" \in Profiles
            BY <2>2 DEF RestoreRegistration, Profiles
        <3> QED BY <3>1, RegistrationIsSound DEF IInv
    <2> QED BY <2>1, <2>2
<1>2. CASE EvaluationEnds("restoration_error")
    BY <1>0, <1>1, <1>2, EndIsSound DEF IInv, CommandInv
<1>3. CASE /\ server' = [server EXCEPT !.profile = "prior"] /\ EvaluationEnds(evaluation.outcome)
    <2>1. evaluation' = [evaluation EXCEPT !.step = "idle", !.outcome = evaluation.outcome]
        BY <1>3 DEF EvaluationEnds
    <2>2. evaluation' \in CommandType
        BY <1>0, <2>1 DEF CommandType
    <2>3. /\ evaluation'.step = "idle" /\ evaluation'.at = evaluation.at /\ evaluation'.existing = evaluation.existing
          /\ evaluation'.followed = evaluation.followed
        BY <1>0, <2>1 DEF CommandType
    <2>4. \A t \in evaluation.followed : t \in PlanTasks /\ ~InProgress(t)
        BY <1>0, EvaluationAssumption DEF IInv, Accounted, CommandType, PlanTasks, AnotherTask
    <2>5. server'.profile = "prior"
        BY <1>3 DEF IInv, ServerInv, ServerType
    <2>6. SoundPlace' /\ SoundFlight' /\ Accounted'
        BY <1>0, <1>1, <2>3 DEF IInv, SoundPlace, SoundFlight, Accounted, GroundSteps, FlightSteps
    <2>7. NothingIsLeftBehind'
        BY <1>1, <2>3, <2>4, <2>5 DEF NothingIsLeftBehind, InProgress
    <2> QED BY <1>1, <2>2, <2>6, <2>7 DEF IInv
<1> QED BY <1>2, <1>3 DEF RestoreRegistration

(***************************************************************************)
(* The theorems.                                                            *)
(***************************************************************************)
\* The invariant holds in every state, for any number of pairs and of runs, whatever fails.
THEOREM EvaluationInvariance == EvaluationSpec => []IInv
<1>1. EvaluationInit => IInv
    BY InitIsSound
<1>2. IInv /\ [EvaluationNext]_evaluationVars => IInv'
    <2> SUFFICES ASSUME IInv, [EvaluationNext]_evaluationVars PROVE IInv'
        OBVIOUS
    <2>1. CASE UNCHANGED evaluationVars
        <3>1. ServerInv' /\ UNCHANGED evaluation /\ UNCHANGED server
            BY <2>1, Unmoved DEF evaluationVars
        <3>2. \A t \in AllTasks : GoesOn(t) /\ (t # AnotherTask /\ InProgress(t)' =>
                  InProgress(t) \/ server.tasks[t].state = "none")
            BY <3>1 DEF GoesOn, InProgress
        <3> QED BY <3>1, <3>2, ServerKeepsCommand DEF IInv, CommandInv
    <2>2. CASE ServerStep
        <3>1. UNCHANGED evaluation
            BY <2>2 DEF ServerStep, SubmitAnother, LateAdmission, ExecutionStarts, TaskStops, TaskResumes, TaskExpires
        <3> QED BY <2>2, <3>1, ServerStepIsSound, ServerKeepsCommand DEF IInv, CommandInv
    <2>3. CASE EvaluationDies
        <3>1. ServerInv' /\ UNCHANGED server /\ EvaluationEnds("died")
            BY <2>3, Unmoved DEF EvaluationDies
        <3> QED BY <3>1, EndIsSound DEF IInv, CommandInv
    <2> QED BY <2>1, <2>2, <2>3, BeginIsSound, PreflightIsSound, NextTaskIsSound, RegisterIsSound,
               SubmitIsSound, ObserveIsSound, FollowIsSound, EvidenceIsSound, CleanupIsSound,
               RestoreIsSound DEF EvaluationNext
<1> QED BY <1>1, <1>2, PTL DEF EvaluationSpec

\* registerRepository refuses a change of profiles while a Task holds the lease, and nothing
\* else is needed: no Task runs under two profiles.
THEOREM OneProfilePerTask == EvaluationSpec => []TasksRunUnderOneProfile
<1>1. IInv => TasksRunUnderOneProfile
    <2> SUFFICES ASSUME IInv, NEW t \in AllTasks PROVE Cardinality(server.tasks[t].ran) <= 1
        BY DEF TasksRunUnderOneProfile, IInv, ServerInv, ServerType
    <2>1. server.tasks[t].ran = {} \/ \E p \in Profiles : server.tasks[t].ran = {p}
        BY DEF IInv, ServerInv, OneProfile
    <2>2. CASE server.tasks[t].ran = {}
        BY <2>2, FS_EmptySet
    <2>3. ASSUME NEW p \in Profiles, server.tasks[t].ran = {p} PROVE Cardinality(server.tasks[t].ran) = 1
        BY <2>3, FS_Singleton
    <2> QED BY <2>1, <2>2, <2>3
<1> QED BY <1>1, EvaluationInvariance, PTL

\* A command that ends without an error of cleanup or restoration has restored the prior
\* registration and leaves no Task of its own in progress.
THEOREM CommandsCleanUp == EvaluationSpec => []NothingIsLeftBehind
<1>1. IInv => NothingIsLeftBehind
    BY DEF IInv
<1> QED BY <1>1, EvaluationInvariance, PTL

(***************************************************************************)
(* The recommendation of an evaluation.                                    *)
(***************************************************************************)
\* A set of numbers that is not empty has a least one.
LEMMA LeastNumber ==
    ASSUME NEW S \in SUBSET Nat, S # {}
    PROVE  \E n \in S : \A m \in S : n <= m
<1> DEFINE R == {ss \in Nat \X Nat : ss[1] < ss[2]}
<1>1. IsWellFoundedOn(R, Nat)
    BY NatLessThanWellFounded, Zenon DEF OpToRel
<1> HIDE DEF R
<1>2. PICK n \in S : \A m \in S : ~(<<m, n>> \in R)
    BY <1>1, WFMin
<1>3. ASSUME NEW m \in S PROVE n <= m
    <2>1. ~(<<m, n>> \in R)
        BY <1>2
    <2> QED BY <2>1 DEF R
<1> QED BY <1>3

\* A sum of known numbers is one.
LEMMA SumsAreNumbers ==
    ASSUME NEW values \in Seq(Nat)
    PROVE  Added(values) \in Nat
<1> DEFINE n == Len(values)
           UpTo(f, m) == f = [k \in 0..m |-> IF k = 0 THEN 0 ELSE f[k - 1] + values[k]]
           Without == {m \in 0..n : ~\E f : UpTo(f, m)}
           g == CHOOSE f : UpTo(f, n)
           Astray == {m \in 0..n : g[m] \notin Nat}
<1>1. n \in Nat /\ \A k \in 1..n : values[k] \in Nat
    OBVIOUS
<1>2. Added(values) = g[n]
    BY DEF Added
<1> HIDE DEF n
<1>3. \E f : UpTo(f, 0)
    <2>1. UpTo([k \in 0..0 |-> 0], 0)
        OBVIOUS
    <2> QED BY <2>1
<1>4. ASSUME NEW m \in Nat, NEW f, UpTo(f, m)
      PROVE  \E h : UpTo(h, m + 1)
    <2> DEFINE h == [k \in 0..m + 1 |-> IF k = m + 1 THEN f[m] + values[m + 1] ELSE f[k]]
    <2>1. \A k \in 0..m + 1 : h[k] = IF k = 0 THEN 0 ELSE h[k - 1] + values[k]
        <3>1. TAKE k \in 0..m + 1
        <3>2. CASE k = 0
            <4>1. h[k] = f[k] /\ f[k] = 0
                BY <1>4, <3>2
            <4> QED BY <3>2, <4>1
        <3>3. CASE k = m + 1
            <4>1. h[k] = f[m] + values[k] /\ h[k - 1] = f[m]
                BY <3>3
            <4> QED BY <3>3, <4>1
        <3>4. CASE k # 0 /\ k # m + 1
            <4>1. k \in 0..m /\ k - 1 \in 0..m /\ k - 1 # m + 1
                BY <3>4
            <4>2. h[k] = f[k] /\ h[k - 1] = f[k - 1]
                BY <3>4, <4>1
            <4>3. f[k] = f[k - 1] + values[k]
                BY <1>4, <3>4, <4>1
            <4> QED BY <3>4, <4>2, <4>3
        <3> QED BY <3>2, <3>3, <3>4
    <2>2. h = [k \in 0..m + 1 |-> h[k]]
        OBVIOUS
    <2> HIDE DEF h
    <2>3. UpTo(h, m + 1)
        BY <2>1, <2>2
    <2> QED BY <2>3
<1> HIDE DEF UpTo
<1>5. Without = {}
    <2>1. SUFFICES ASSUME Without # {} PROVE FALSE
        OBVIOUS
    <2>2. PICK m \in Without : \A k \in Without : m <= k
        <3>1. Without \in SUBSET Nat
            BY <1>1
        <3> HIDE DEF Without
        <3> QED BY <2>1, <3>1, LeastNumber
    <2>3. m \in 0..n /\ m # 0
        BY <1>3, <2>2
    <2>4. m - 1 \in 0..n /\ m - 1 \notin Without
        BY <1>1, <2>2, <2>3
    <2>5. PICK f : UpTo(f, m - 1)
        BY <2>4
    <2>6. \E h : UpTo(h, (m - 1) + 1)
        BY <1>1, <2>4, <2>5, <1>4
    <2>7. (m - 1) + 1 = m
        BY <1>1, <2>3
    <2> QED BY <2>2, <2>6, <2>7
<1>6. UpTo(g, n)
    <2>1. n \in 0..n
        BY <1>1
    <2>2. \E f : UpTo(f, n)
        BY <1>5, <2>1, Zenon
    <2> QED BY <2>2, Zenon
<1> HIDE DEF g
<1>7. \A k \in 0..n : g[k] = IF k = 0 THEN 0 ELSE g[k - 1] + values[k]
    BY <1>6 DEF UpTo
<1>8. Astray = {}
    <2>1. SUFFICES ASSUME Astray # {} PROVE FALSE
        OBVIOUS
    <2>2. PICK m \in Astray : \A k \in Astray : m <= k
        <3>1. Astray \in SUBSET Nat
            BY <1>1
        <3> HIDE DEF Astray
        <3> QED BY <2>1, <3>1, LeastNumber
    <2>3. m \in 0..n /\ g[m] \notin Nat /\ m # 0
        BY <1>7, <2>2
    <2>4. m - 1 \in 0..n /\ m - 1 \notin Astray /\ m \in 1..n
        BY <1>1, <2>2, <2>3
    <2>5. g[m - 1] \in Nat /\ values[m] \in Nat
        BY <1>1, <2>4
    <2>6. g[m] = g[m - 1] + values[m]
        BY <1>7, <2>3
    <2> QED BY <2>3, <2>5, <2>6
<1>9. g[n] \in Nat
    BY <1>1, <1>8
<1> QED BY <1>2, <1>9 DEF n

\* No worse, where the other is, and all is known.
Outdoes(mine, theirs) ==
    /\ \A m \in DOMAIN mine : mine[m] # Unknown
    /\ \A m \in DOMAIN theirs : theirs[m] # Unknown
    /\ NoWorse(mine, theirs) /\ ~NoWorse(theirs, mine)

\* One side is right where the other is wrong, or both are and it is no worse and the other is.
Earns(side, other, correctness, reasons, gates, metrics) ==
    \/ /\ reasons \ gates = {}
       /\ correctness[side] = "passed" /\ correctness[other] = "failed"
    \/ /\ correctness[side] = "passed" /\ correctness[other] = "passed"
       /\ reasons = {}
       /\ Outdoes(metrics[side], metrics[other])

\* The verdict is the one side that is chosen, and at most one is.
LEMMA OneSideIsChosen ==
    ASSUME NEW correctness, NEW reasons, NEW gates, NEW metrics, NEW side \in Sides
    PROVE  Recommended(correctness, reasons, gates, metrics) = side <=>
              Earns(side, Other(side), correctness, reasons, gates, metrics)
<1> DEFINE passed == \A s \in Sides : correctness[s] = "passed"
           known == \A s \in Sides : \A m \in DOMAIN metrics[s] : metrics[s][m] # Unknown
           Chosen(s) ==
               \/ /\ reasons \ gates = {}
                  /\ correctness[s] = "passed" /\ correctness[Other(s)] = "failed"
               \/ /\ passed /\ reasons = {} /\ known
                  /\ NoWorse(metrics[s], metrics[Other(s)]) /\ ~NoWorse(metrics[Other(s)], metrics[s])
           chosen == {s \in Sides : Chosen(s)}
<1>1. Recommended(correctness, reasons, gates, metrics) =
          IF chosen = {} THEN "inconclusive" ELSE CHOOSE s \in Sides : s \in chosen
    BY Zenon DEF Recommended
<1>2. Sides = {side, Other(side)} /\ side # Other(side) /\ Other(Other(side)) = side
      /\ side # "inconclusive"
    BY DEF Sides, Other
<1>3. ~(Chosen(side) /\ Chosen(Other(side)))
    BY <1>2
<1>4. Chosen(side) <=> Earns(side, Other(side), correctness, reasons, gates, metrics)
    BY <1>2 DEF Earns, Outdoes
<1> HIDE DEF Chosen
<1>5. Recommended(correctness, reasons, gates, metrics) = side <=> Chosen(side)
    BY <1>1, <1>2, <1>3
<1> QED BY <1>4, <1>5

\* What is not known is no name.
LEMMA UnknownIsNoName ==
    /\ Unknown # "baseline" /\ Unknown # "candidate" /\ Unknown # "reviewer"
    /\ Unknown # "other" /\ Unknown # "inconclusive"
BY EvidenceAssumption DEF Identities, Sides

\* What is summed up is a number or unknown.
LEMMA TotalIsMeasured ==
    ASSUME NEW values \in Seq(Measured)
    PROVE  Total(values) \in Measured
<1>1. CASE Unknown \in ToSet(values)
    BY <1>1 DEF Total, Measured
<1>2. CASE Unknown \notin ToSet(values)
    <2>1. \A i \in DOMAIN values : values[i] \in Nat
        BY <1>2 DEF ToSet, Measured
    <2>2. values \in Seq(Nat)
        BY <2>1
    <2> QED BY <1>2, <2>2, SumsAreNumbers DEF Total, Measured
<1> QED BY <1>1, <1>2

\* So is every metric of a side.
LEMMA MetricsAreMeasured ==
    ASSUME NEW tasks \in Seq(TaskEvidence)
    PROVE  Metrics(tasks) \in [MetricKeys -> Measured]
<1> SUFFICES ASSUME NEW m \in MetricKeys
             PROVE  Metrics(tasks)[m] \in Measured
    BY DEF Metrics
<1>1. ASSUME NEW t \in TaskEvidence PROVE Spent(t, m) \in Measured
    <2>1. t.implementer \in Seq(SessionEvidence) /\ t.repairBatches \in Measured
        BY DEF TaskEvidence
    <2>2. CASE m \in {"implementerActivations", "repairBatches"}
        BY <2>1, <2>2 DEF Spent, Measured
    <2>3. CASE m \notin {"implementerActivations", "repairBatches"}
        <3> DEFINE efforts == [j \in DOMAIN t.implementer |-> t.implementer[j].effort[m]]
        <3>1. m \in SessionMetricKeys
            BY <2>3 DEF MetricKeys
        <3>2. \A j \in DOMAIN t.implementer : efforts[j] \in Measured
            <4>1. \A j \in DOMAIN t.implementer : t.implementer[j] \in SessionEvidence
                BY <2>1
            <4> QED BY <3>1, <4>1 DEF SessionEvidence
        <3>3. efforts \in Seq(Measured)
            <4>1. PICK n \in Nat : DOMAIN t.implementer = 1..n
                <5> DEFINE runs == t.implementer
                <5>1. runs \in Seq(SessionEvidence)
                    BY <2>1
                <5> HIDE DEF runs
                <5>2. Len(runs) \in Nat /\ DOMAIN runs = 1..Len(runs)
                    BY <5>1
                <5> QED BY <5>2 DEF runs
            <4>2. efforts = [j \in 1..n |-> efforts[j]] /\ \A j \in 1..n : efforts[j] \in Measured
                BY <3>2, <4>1
            <4> HIDE DEF efforts
            <4> QED BY <4>2
        <3>4. Spent(t, m) = Total(efforts)
            BY <2>3 DEF Spent
        <3> QED BY <3>3, <3>4, TotalIsMeasured
    <2> QED BY <2>2, <2>3
<1> DEFINE all == [i \in DOMAIN tasks |-> Spent(tasks[i], m)]
<1>2. all \in Seq(Measured)
    BY <1>1
<1>3. Metrics(tasks)[m] \in {Unknown, Total(all)}
    BY DEF Metrics
<1> HIDE DEF all
<1> QED BY <1>2, <1>3, TotalIsMeasured DEF Measured

LEMMA ReviewMetricsAreMeasured ==
    ASSUME NEW runs \in Seq(ReviewEvidence)
    PROVE  ReviewMetrics(runs) \in [ReviewMetricKeys -> Measured]
<1> SUFFICES ASSUME NEW m \in ReviewMetricKeys
             PROVE  ReviewMetrics(runs)[m] \in Measured
    BY DEF ReviewMetrics
<1> DEFINE all == [i \in DOMAIN runs |-> runs[i].effort[m]]
<1>1. \A i \in DOMAIN runs : runs[i].effort[m] \in Measured
    <2>1. \A i \in DOMAIN runs : runs[i] \in ReviewEvidence
        OBVIOUS
    <2> QED BY <2>1 DEF ReviewEvidence
<1>2. all \in Seq(Measured)
    BY <1>1
<1>3. ReviewMetrics(runs)[m] = Total(all)
    BY DEF ReviewMetrics
<1> HIDE DEF all
<1> QED BY <1>2, <1>3, TotalIsMeasured

\* To be no worse where the other is, is to dominate it.
LEMMA OutdoingIsDominating ==
    ASSUME NEW K, NEW mine \in [K -> Measured], NEW theirs \in [K -> Measured]
    PROVE  Outdoes(mine, theirs) <=> Dominates(mine, theirs)
<1>1. \A m \in K : mine[m] \in Nat \cup {Unknown} /\ theirs[m] \in Nat \cup {Unknown}
    BY DEF Measured
<1>2. Unknown \notin Nat
    BY EvidenceAssumption
<1>3. ASSUME NEW m \in K, mine[m] # Unknown, theirs[m] # Unknown
      PROVE  ~AtMost(theirs[m], mine[m]) <=> mine[m] < theirs[m]
    BY <1>1, <1>2, <1>3 DEF AtMost
<1> QED BY <1>1, <1>2, <1>3 DEF Outdoes, Dominates, NoWorse, AtMost

\* As many activations as sessions are distinct ones.
LEMMA DistinctActivations ==
    ASSUME NEW runs \in Seq(SessionEvidence)
    PROVE  Len(runs) = Cardinality({runs[i].activation : i \in DOMAIN runs}) <=>
               \A i, j \in DOMAIN runs : i # j => runs[i].activation # runs[j].activation
<1> DEFINE n == Len(runs)
           S == {runs[i].activation : i \in DOMAIN runs}
           f == [i \in 1..n |-> runs[i].activation]
<1>1. n \in Nat /\ DOMAIN runs = 1..n
    OBVIOUS
<1>2. f \in Surjection(1..n, S)
    BY <1>1 DEF Surjection
<1>3. IsFiniteSet(1..n) /\ Cardinality(1..n) = n
    BY <1>1, FS_Interval
<1>4. Cardinality(S) = Cardinality(1..n) <=> f \in Injection(1..n, S)
    <2> HIDE DEF f, S, n
    <2> QED BY <1>2, <1>3, FS_Surjection
<1>5. f \in Injection(1..n, S) <=> \A i, j \in 1..n : i # j => runs[i].activation # runs[j].activation
    <2>1. f \in [1..n -> S]
        BY <1>2 DEF Surjection
    <2> QED BY <2>1 DEF Injection, IsInjective
<1> QED BY <1>1, <1>3, <1>4, <1>5

\* What counts against a Task is that it is not its side's, or was not accepted.
LEMMA ReasonsAttribute ==
    ASSUME NEW t \in TaskEvidence, NEW side \in Sides
    PROVE  LET reasons == TaskReasons(t, side, "reviewer") IN
           /\ reasons \subseteq {"hard_correctness_gate"} <=> Attributed(side, t)
           /\ "hard_correctness_gate" \in reasons <=> t.relation # "accepted_exact_sha"
<1> DEFINE reasons == TaskReasons(t, side, "reviewer")
           mine == t.implementer
<1>1. /\ mine \in Seq(SessionEvidence) /\ t.reviewer \in Seq(SessionEvidence)
      /\ side # Unknown /\ side \in Identities
    BY UnknownIsNoName DEF Identities, Sides, TaskEvidence
<1>3. /\ "hard_correctness_gate" \in reasons <=> t.relation # "accepted_exact_sha"
      /\ "implementer" \in reasons <=> ~(mine # <<>> /\ Evidenced(mine, side) /\ Stable(mine))
      /\ "reviewer" \in reasons <=>
            ~(Evidenced(t.reviewer, "reviewer") /\ (t.reviewRequired => t.reviewer # <<>>))
      /\ reasons \subseteq {"hard_correctness_gate", "implementer", "reviewer"}
    BY DEF TaskReasons
<1> HIDE DEF reasons
<1>4. mine # <<>> /\ Evidenced(mine, side) /\ Stable(mine) <=>
          /\ mine # <<>> /\ {r.profile : r \in ToSet(mine)} = {side}
          /\ \A r \in ToSet(mine) : r.activation # Unknown
          /\ Len(mine) = Cardinality({mine[i].activation : i \in DOMAIN mine})
    <2>1. mine # <<>> => 1 \in DOMAIN mine
        BY <1>1
    <2>2. Evidenced(mine, side) => (\A i \in DOMAIN mine : mine[i].profile # Unknown)
                                   /\ (mine # <<>> => \A i \in DOMAIN mine : mine[i].profile = mine[1].profile)
        BY <1>1, <2>1 DEF Evidenced
    <2>3. mine # <<>> => (Evidenced(mine, side) <=> {r.profile : r \in ToSet(mine)} = {side})
        BY <2>1 DEF Evidenced, ToSet
    <2>4. (\A r \in ToSet(mine) : r.activation # Unknown) <=>
              \A i \in DOMAIN mine : mine[i].activation # Unknown
        BY DEF ToSet
    <2> QED BY <1>1, <2>2, <2>3, <2>4, DistinctActivations DEF Stable
<1>5. Evidenced(t.reviewer, "reviewer") <=> {r.profile : r \in ToSet(t.reviewer)} \subseteq {"reviewer"}
    BY DEF Evidenced, ToSet
<1>6. reasons \subseteq {"hard_correctness_gate"} <=> Attributed(side, t)
    BY <1>3, <1>4, <1>5 DEF Attributed
<1> QED BY <1>3, <1>6 DEF reasons

\* What the reasons and the correctness of a side come to.
Weighs(reasons, correctness, side, tasks) ==
    /\ reasons \subseteq {"hard_correctness_gate"} <=>
           tasks # <<>> /\ \A t \in ToSet(tasks) : Attributed(side, t)
    /\ reasons = {} <=>
           tasks # <<>> /\ \A t \in ToSet(tasks) : Attributed(side, t) /\ t.relation = "accepted_exact_sha"
    /\ correctness = "failed" <=> \E t \in ToSet(tasks) : t.relation = "blocked"
    /\ correctness = "passed" => reasons = {}
    /\ reasons = {} => correctness = "passed"

LEMMA SidesAreWeighed ==
    ASSUME NEW tasks \in Seq(TaskEvidence), NEW side \in Sides
    PROVE  LET reasons == SideReasons(tasks, side, "reviewer")
           IN  Weighs(reasons, Correctness(tasks, reasons), side, tasks)
<1> DEFINE reasons == SideReasons(tasks, side, "reviewer")
           correctness == Correctness(tasks, reasons)
           Of(i) == TaskReasons(tasks[i], side, "reviewer")
<1>1. \A i \in DOMAIN tasks : tasks[i] \in TaskEvidence /\ tasks[i] \in ToSet(tasks)
    BY DEF ToSet
<1>2. \A t \in ToSet(tasks) : \E i \in DOMAIN tasks : tasks[i] = t
    BY DEF ToSet
<1>3. correctness = IF \E i \in DOMAIN tasks : tasks[i].relation = "blocked" THEN "failed"
                    ELSE IF reasons = {} THEN "passed" ELSE "unknown"
    BY DEF Correctness
<1>4. correctness = "failed" <=> \E t \in ToSet(tasks) : t.relation = "blocked"
    BY <1>1, <1>2, <1>3
<1>5. correctness = "passed" => reasons = {}
    BY <1>3
<1>6. CASE tasks = <<>>
    <2>1. reasons = {"missing_tasks"}
        BY <1>6 DEF SideReasons
    <2> HIDE DEF reasons, correctness
    <2> QED BY <1>4, <1>5, <1>6, <2>1 DEF Weighs, reasons, correctness
<1>7. CASE tasks # <<>>
    <2>1. reasons = UNION {Of(i) : i \in DOMAIN tasks}
        BY <1>7 DEF SideReasons
    <2>2. \A i \in DOMAIN tasks :
              /\ Of(i) \subseteq {"hard_correctness_gate"} <=> Attributed(side, tasks[i])
              /\ "hard_correctness_gate" \in Of(i) <=> tasks[i].relation # "accepted_exact_sha"
        BY <1>1, ReasonsAttribute
    <2> HIDE DEF Of, reasons, correctness
    <2>3. reasons \subseteq {"hard_correctness_gate"} <=> \A i \in DOMAIN tasks : Attributed(side, tasks[i])
        BY <2>1, <2>2
    <2>4. reasons = {} <=>
              \A i \in DOMAIN tasks : Attributed(side, tasks[i]) /\ tasks[i].relation = "accepted_exact_sha"
        <3>1. reasons = {} <=> \A i \in DOMAIN tasks : Of(i) = {}
            BY <2>1
        <3>2. \A i \in DOMAIN tasks :
                  Of(i) = {} <=> Of(i) \subseteq {"hard_correctness_gate"} /\ "hard_correctness_gate" \notin Of(i)
            OBVIOUS
        <3> QED BY <3>1, <3>2, <2>2
    <2>5. reasons = {} => correctness = "passed"
        BY <1>3, <2>4
    <2>6. /\ reasons \subseteq {"hard_correctness_gate"} <=> \A t \in ToSet(tasks) : Attributed(side, t)
          /\ reasons = {} <=>
                \A t \in ToSet(tasks) : Attributed(side, t) /\ t.relation = "accepted_exact_sha"
        BY <1>1, <1>2, <2>3, <2>4
    <2> QED BY <1>4, <1>5, <1>7, <2>5, <2>6 DEF Weighs, reasons, correctness
<1> QED BY <1>6, <1>7

\* The implementer's comparison recommends the side whose Tasks win.
LEMMA WinningTasksAreRecommended ==
    ASSUME NEW side \in Sides, NEW sides, \A s \in Sides : sides[s] \in Seq(TaskEvidence)
    PROVE  CompareProfiles(sides, "reviewer") = side <=> TasksWin(side, sides[side], sides[Other(side)])
<1> DEFINE other == Other(side)
           reasons == [s \in Sides |-> SideReasons(sides[s], s, "reviewer")]
           correctness == [s \in Sides |-> Correctness(sides[s], reasons[s])]
           metrics == [s \in Sides |-> Metrics(sides[s])]
           all == UNION {reasons[s] : s \in Sides}
           gates == {"hard_correctness_gate"}
           mine == sides[side]
           theirs == sides[other]
<1>1. other \in Sides /\ Sides = {side, other} /\ side # other
    BY DEF Sides, Other
<1>2. CompareProfiles(sides, "reviewer") = Recommended(correctness, all, gates, metrics)
    BY Zenon DEF CompareProfiles
<1>3. /\ reasons[side] = SideReasons(mine, side, "reviewer")
      /\ reasons[other] = SideReasons(theirs, other, "reviewer")
      /\ correctness[side] = Correctness(mine, reasons[side])
      /\ correctness[other] = Correctness(theirs, reasons[other])
      /\ metrics[side] = Metrics(mine) /\ metrics[other] = Metrics(theirs)
    BY <1>1
<1>4. all = reasons[side] \cup reasons[other]
    BY <1>1
<1>5. mine \in Seq(TaskEvidence) /\ theirs \in Seq(TaskEvidence)
    BY <1>1
<1> HIDE DEF other, reasons, correctness, metrics, all, mine, theirs
<1>6. CompareProfiles(sides, "reviewer") = side <=>
          Earns(side, other, correctness, all, gates, metrics)
    BY <1>2, OneSideIsChosen, Zenon DEF other
<1>7. /\ Weighs(reasons[side], correctness[side], side, mine)
      /\ Weighs(reasons[other], correctness[other], other, theirs)
    BY <1>1, <1>3, <1>5, SidesAreWeighed
<1>8. Outdoes(metrics[side], metrics[other]) <=> Dominates(Metrics(mine), Metrics(theirs))
    BY <1>3, <1>5, MetricsAreMeasured, OutdoingIsDominating
<1>9. (/\ all \ gates = {}
       /\ correctness[side] = "passed" /\ correctness[other] = "failed") <=>
          /\ reasons[side] = {}
          /\ reasons[other] \subseteq gates
          /\ \E t \in ToSet(theirs) : t.relation = "blocked"
    BY <1>4, <1>7 DEF Weighs
<1>10. (correctness[side] = "passed" /\ correctness[other] = "passed" /\ all = {}) <=>
          reasons[side] = {} /\ reasons[other] = {}
    BY <1>4, <1>7 DEF Weighs
<1>11. CompareProfiles(sides, "reviewer") = side <=>
          /\ reasons[side] = {} /\ reasons[other] \subseteq gates
          /\ \/ \E t \in ToSet(theirs) : t.relation = "blocked"
             \/ reasons[other] = {} /\ Dominates(Metrics(mine), Metrics(theirs))
    BY <1>6, <1>8, <1>9, <1>10 DEF Earns
<1>12. /\ reasons[side] = {} <=>
              mine # <<>> /\ \A t \in ToSet(mine) : Attributed(side, t) /\ t.relation = "accepted_exact_sha"
       /\ reasons[other] \subseteq gates <=>
              theirs # <<>> /\ \A t \in ToSet(theirs) : Attributed(other, t)
       /\ reasons[other] = {} <=>
              theirs # <<>> /\ \A t \in ToSet(theirs) : Attributed(other, t) /\ t.relation = "accepted_exact_sha"
    BY <1>7 DEF Weighs
<1> HIDE DEF gates
<1>13. TasksWin(side, mine, theirs) <=>
          /\ reasons[side] = {} /\ reasons[other] \subseteq gates
          /\ \/ \E t \in ToSet(theirs) : t.relation = "blocked"
             \/ reasons[other] = {} /\ Dominates(Metrics(mine), Metrics(theirs))
    BY <1>12 DEF TasksWin, other
<1> QED BY <1>11, <1>13 DEF mine, theirs, other

\* What the reasons against a side's reviews and its correctness come to.
JudgesAll(reasons, correctness, side, runs) ==
    /\ reasons \subseteq {"protected_false_approval"} <=>
           runs # <<>> /\ \A r \in ToSet(runs) : Credible(side, r)
    /\ correctness = "failed" /\ (\A r \in ToSet(runs) : Credible(side, r)) <=>
           (\A r \in ToSet(runs) : Credible(side, r)) /\ \E r \in ToSet(runs) : Wrong(r)
    /\ correctness = "passed" <=>
           runs # <<>> /\ \A r \in ToSet(runs) : Credible(side, r) /\ Right(r)
    /\ correctness = "passed" => reasons = {}

\* One review.
LEMMA ReviewOfOne ==
    ASSUME NEW r \in ReviewEvidence, NEW s, r.failed => r.sha = Unknown, r.sha = Unknown <=> r.verdict = Unknown
    PROVE  /\ Credible(s, r) <=> ~RunReason(r) /\ r.profile = s
           /\ RunCorrectness(r) = "correct" /\ r.profile = s <=> Credible(s, r) /\ Right(r)
           /\ Credible(s, r) => (RunCorrectness(r) = "incorrect" <=> Wrong(r))
           /\ Credible(s, r) /\ Right(r) => ~HardRegression(r)
<1>1. /\ r.sha \in {"candidate", "other", Unknown}
      /\ r.verdict \in {"approved", "changes_requested", "inconclusive", Unknown}
      /\ r.label \in {"approved", "changes_requested"}
      /\ r.archive \in {"complete", "partial", Unknown}
      /\ r.failed \in BOOLEAN /\ r.protected \in BOOLEAN
    BY DEF ReviewEvidence
<1>2. Unknown \notin {"candidate", "other", "inconclusive"}
    BY UnknownIsNoName
<1>3. Credible(s, r) <=> ~RunReason(r) /\ r.profile = s
    BY <1>1, <1>2 DEF Credible, RunReason
<1>4. RunCorrectness(r) = "correct" /\ r.profile = s <=> Credible(s, r) /\ Right(r)
    BY <1>1, <1>2 DEF Credible, Right, RunCorrectness, HasVerdict
<1>5. Credible(s, r) => (RunCorrectness(r) = "incorrect" <=> Wrong(r))
    BY <1>1, <1>2 DEF Credible, Wrong, RunCorrectness, HasVerdict
<1>6. Right(r) => ~HardRegression(r)
    BY DEF Right, HardRegression
<1> QED BY <1>3, <1>4, <1>5, <1>6

LEMMA SidesAreJudged ==
    ASSUME NEW runs \in Seq(ReviewEvidence), NEW s,
           \A i \in DOMAIN runs : /\ runs[i].failed => runs[i].sha = Unknown
                                  /\ runs[i].sha = Unknown <=> runs[i].verdict = Unknown
    PROVE  JudgesAll(ReviewReasons(runs, s), ReviewCorrectness(runs, s), s, runs)
<1> DEFINE reasons == ReviewReasons(runs, s)
           correctness == ReviewCorrectness(runs, s)
<1>1. \A i \in DOMAIN runs : runs[i] \in ToSet(runs)
    BY DEF ToSet
<1>2. \A r \in ToSet(runs) : \E i \in DOMAIN runs : runs[i] = r
    BY DEF ToSet
<1>3. \A i \in DOMAIN runs :
          LET r == runs[i] IN
          /\ Credible(s, r) <=> ~RunReason(r) /\ r.profile = s
          /\ RunCorrectness(r) = "correct" /\ r.profile = s <=> Credible(s, r) /\ Right(r)
          /\ Credible(s, r) => (RunCorrectness(r) = "incorrect" <=> Wrong(r))
          /\ Credible(s, r) /\ Right(r) => ~HardRegression(r)
    BY ReviewOfOne
<1>4. \A i \in DOMAIN runs : ~(RunCorrectness(runs[i]) = "correct" /\ RunCorrectness(runs[i]) = "incorrect")
    OBVIOUS
<1>5. correctness = IF \E i \in DOMAIN runs : RunCorrectness(runs[i]) = "incorrect" THEN "failed"
                    ELSE IF /\ runs # <<>>
                            /\ \A i \in DOMAIN runs :
                                  RunCorrectness(runs[i]) = "correct" /\ runs[i].profile = s
                    THEN "passed" ELSE "unknown"
    BY DEF ReviewCorrectness
<1> HIDE DEF correctness
<1>6. correctness = "passed" <=>
          runs # <<>> /\ \A i \in DOMAIN runs : Credible(s, runs[i]) /\ Right(runs[i])
    BY <1>3, <1>4, <1>5
<1>7. (\A i \in DOMAIN runs : Credible(s, runs[i])) =>
          (correctness = "failed" <=> \E i \in DOMAIN runs : Wrong(runs[i]))
    BY <1>3, <1>5
<1>8. runs = <<>> => reasons = {"missing_runs"}
    BY DEF ReviewReasons
<1>9. runs # <<>> =>
          /\ reasons \subseteq {"run", "protected_false_approval", "profile"}
          /\ "run" \in reasons <=> \E i \in DOMAIN runs : RunReason(runs[i])
          /\ "profile" \in reasons <=> \E i \in DOMAIN runs : runs[i].profile # s
          /\ "protected_false_approval" \in reasons <=> \E i \in DOMAIN runs : HardRegression(runs[i])
    BY DEF ReviewReasons
<1> HIDE DEF reasons
<1>10. reasons \subseteq {"protected_false_approval"} <=>
          runs # <<>> /\ \A i \in DOMAIN runs : Credible(s, runs[i])
    BY <1>3, <1>8, <1>9
<1>11. correctness = "passed" => reasons = {}
    BY <1>3, <1>6, <1>9, <1>10
<1>12. /\ (\A i \in DOMAIN runs : Credible(s, runs[i])) <=> \A r \in ToSet(runs) : Credible(s, r)
       /\ (\E i \in DOMAIN runs : Wrong(runs[i])) <=> \E r \in ToSet(runs) : Wrong(r)
       /\ (\A i \in DOMAIN runs : Credible(s, runs[i]) /\ Right(runs[i])) <=>
              \A r \in ToSet(runs) : Credible(s, r) /\ Right(r)
    BY <1>1, <1>2
<1> QED BY <1>6, <1>7, <1>10, <1>11, <1>12 DEF JudgesAll, reasons, correctness

\* The reviewer's comparison recommends the side whose reviews win.
LEMMA WinningReviewsAreRecommended ==
    ASSUME NEW side \in Sides, NEW sides \in ReviewEvaluations
    PROVE  CompareReviewers(sides) = side <=> ReviewsWin(side, sides[side], sides[Other(side)])
<1> DEFINE other == Other(side)
           reasons == [s \in Sides |-> ReviewReasons(sides[s], s)]
           correctness == [s \in Sides |-> ReviewCorrectness(sides[s], s)]
           metrics == [s \in Sides |-> ReviewMetrics(sides[s])]
           all == UNION {ReviewReasons(sides[s], s) : s \in Sides}
           gates == {"protected_false_approval"}
           mine == sides[side]
           theirs == sides[other]
<1>1. other \in Sides /\ Sides = {side, other} /\ side # other
    BY DEF Sides, Other
<1>2. CompareReviewers(sides) = Recommended(correctness, all, gates, metrics)
    BY Zenon DEF CompareReviewers
<1>3. /\ reasons[side] = ReviewReasons(mine, side) /\ reasons[other] = ReviewReasons(theirs, other)
      /\ correctness[side] = ReviewCorrectness(mine, side)
      /\ correctness[other] = ReviewCorrectness(theirs, other)
      /\ metrics[side] = ReviewMetrics(mine) /\ metrics[other] = ReviewMetrics(theirs)
    BY <1>1
<1>4. all = reasons[side] \cup reasons[other]
    BY <1>1, <1>3
<1>5. \A s \in Sides : /\ sides[s] \in Seq(ReviewEvidence)
                       /\ \A i \in DOMAIN sides[s] : /\ sides[s][i].failed => sides[s][i].sha = Unknown
                                                     /\ sides[s][i].sha = Unknown <=> sides[s][i].verdict = Unknown
    BY EvidenceAssumption
<1>6. /\ JudgesAll(ReviewReasons(mine, side), ReviewCorrectness(mine, side), side, mine)
      /\ JudgesAll(ReviewReasons(theirs, other), ReviewCorrectness(theirs, other), other, theirs)
      /\ mine \in Seq(ReviewEvidence) /\ theirs \in Seq(ReviewEvidence)
    BY <1>1, <1>5, SidesAreJudged
<1> HIDE DEF other, reasons, correctness, metrics, all, mine, theirs
<1>7. CompareReviewers(sides) = side <=>
          Earns(side, other, correctness, all, gates, metrics)
    BY <1>2, OneSideIsChosen, Zenon DEF other
<1>8. /\ JudgesAll(reasons[side], correctness[side], side, mine)
      /\ JudgesAll(reasons[other], correctness[other], other, theirs)
    BY <1>3, <1>6
<1>9. Outdoes(metrics[side], metrics[other]) <=> Dominates(ReviewMetrics(mine), ReviewMetrics(theirs))
    BY <1>3, <1>6, ReviewMetricsAreMeasured, OutdoingIsDominating
<1>10. (/\ all \ gates = {}
        /\ correctness[side] = "passed" /\ correctness[other] = "failed") <=>
           /\ correctness[side] = "passed"
           /\ theirs # <<>> /\ \A r \in ToSet(theirs) : Credible(other, r)
           /\ \E r \in ToSet(theirs) : Wrong(r)
    BY <1>4, <1>8 DEF JudgesAll
<1>11. (correctness[side] = "passed" /\ correctness[other] = "passed" /\ all = {}) <=>
           /\ correctness[side] = "passed"
           /\ theirs # <<>> /\ \A r \in ToSet(theirs) : Credible(other, r) /\ Right(r)
    BY <1>4, <1>8 DEF JudgesAll
<1>12. correctness[side] = "passed" <=>
           mine # <<>> /\ \A r \in ToSet(mine) : Credible(side, r) /\ Right(r)
    BY <1>8 DEF JudgesAll
<1>13. ReviewsWin(side, mine, theirs) <=> Earns(side, other, correctness, all, gates, metrics)
    BY <1>9, <1>10, <1>11, <1>12 DEF ReviewsWin, Earns, other
<1> QED BY <1>7, <1>13 DEF mine, theirs, other

\* Nothing but one comparison happens.
LEMMA ComparisonIsEarned ==
    ASSUME ComparisonNext
    PROVE  RecommendationsAreEarned'
<1>1. ASSUME CompareImplementers
      PROVE  RecommendationsAreEarned'
    <2>1. PICK sides \in TaskEvaluations :
              compared' = [role |-> "implementer", sides |-> sides,
                           verdict |-> CompareProfiles(sides, "reviewer")]
        BY <1>1 DEF CompareImplementers
    <2>2. \A s \in Sides : sides[s] \in Seq(TaskEvidence)
        BY EvidenceAssumption
    <2>3. \A side \in Sides : CompareProfiles(sides, "reviewer") = side <=>
                                  TasksWin(side, sides[side], sides[Other(side)])
        BY <2>2, WinningTasksAreRecommended
    <2> QED BY <2>1, <2>3 DEF RecommendationsAreEarned
<1>2. ASSUME CompareReviews
      PROVE  RecommendationsAreEarned'
    <2>1. PICK sides \in ReviewEvaluations :
              compared' = [role |-> "reviewer", sides |-> sides, verdict |-> CompareReviewers(sides)]
        BY <1>2 DEF CompareReviews
    <2>2. \A side \in Sides : CompareReviewers(sides) = side <=>
                                  ReviewsWin(side, sides[side], sides[Other(side)])
        BY WinningReviewsAreRecommended
    <2> QED BY <2>1, <2>2 DEF RecommendationsAreEarned
<1> QED BY <1>1, <1>2 DEF ComparisonNext

\* A side is recommended exactly if what both did is theirs and known and it won: the
\* reasons, correctness and sums of compareProfileEvaluation and
\* compareReviewerProfileEvaluation come to that for any number of Tasks or reviews a side,
\* whatever each of them spent.
THEOREM RecommendationsHold == ComparisonSpec => []RecommendationsAreEarned
<1>1. ComparisonInit => RecommendationsAreEarned
    BY DEF ComparisonInit, RecommendationsAreEarned
<1>2. RecommendationsAreEarned /\ [ComparisonNext]_compared => RecommendationsAreEarned'
    BY ComparisonIsEarned DEF RecommendationsAreEarned
<1> QED BY <1>1, <1>2, PTL DEF ComparisonSpec
====
