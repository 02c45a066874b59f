---- MODULE Campaign ----
(***************************************************************************)
(* The durable facts of Campaigns (packages/runtime/src/campaign.ts) and   *)
(* the transactions on them.  A Campaign is one published version of a     *)
(* Goal; its rows are Task Proposals, by guardian or by the planner model. *)
(* CampaignServer.tla interleaves these transactions as the server does.   *)
(*                                                                         *)
(* Abstractions.  A commit of a Repository's base branch is its position   *)
(* in ancestry order, 0 is the null SHA.  The text of a blocker is its     *)
(* kind.  An evidence hash is the evidence itself, which is injective for  *)
(* SHA-256's purposes.  Outcomes have textual criteria: a satisfied        *)
(* verdict needs a delivery among the Outcome's facts; structured criteria *)
(* and their evidence are left out.                                        *)
(***************************************************************************)
EXTENDS Integers, Sequences, FiniteSets, FiniteSetsExt

CONSTANTS
    Campaigns,          \* 1..n, in campaignId order
    Goal,               \* [Campaigns -> Goals]; a larger Campaign is a newer version
    HostAuthorized,     \* the Campaigns whose source is the host's anchor
    Outcomes,           \* 1..k, in contract order
    Live,               \* the Outcomes that are not superseded in the contract
    OutcomeDependsOn,   \* [Outcomes -> SUBSET Outcomes]
    Proposals,          \* proposal IDs
    Drafts,             \* those the planner writes; the guardian writes the others
    OutcomeOf, DependsOn, RepositoryOf, \* their immutable content
    Merging,            \* the proposals with merge authority
    Authorized,         \* the proposals inside the Goal's authority envelope
    Repositories,
    Unavailable,        \* the Repositories whose head may fail to be observed
    Capacity,           \* activeTaskCapacity
    MaxCommit,          \* bound: commits of one base branch
    Null

ASSUME PlanAssumption ==
    /\ Campaigns \subseteq Nat /\ Outcomes \subseteq Nat /\ 0 \notin Campaigns
    /\ Live \subseteq Outcomes /\ Drafts \subseteq Proposals
    /\ Merging \subseteq Proposals /\ Authorized \subseteq Proposals
    /\ OutcomeOf \in [Proposals -> Outcomes]
    /\ OutcomeDependsOn \in [Outcomes -> SUBSET Outcomes]
    /\ DependsOn \in [Proposals -> SUBSET Proposals]
    /\ RepositoryOf \in [Proposals -> Repositories]
    /\ Capacity \in Nat /\ MaxCommit \in Nat
    /\ IsFiniteSet(Proposals)

VARIABLES
    campaign,       \* [Campaigns -> Campaign or Null]: table campaigns
    row,            \* [Campaigns -> [Proposals -> Row or Null]]: campaign_proposals
    task,           \* [Campaigns -> [Proposals -> Task or Null]]: their Tasks
    assessment,     \* [Campaigns -> [Outcomes -> Assessment or Null]]: the latest one
    replacement,    \* [Campaigns -> [Outcomes -> Replacement run or Null]]: the latest one
    pendingRuns,    \* campaign_model_runs rows that are pending
    main            \* [Repositories -> Nat]: the last commit of the base branch

durable == <<campaign, row, task, assessment, replacement, pendingRuns, main>>

\* The states of a Task: "admitted" until it has its "candidate", "waiting" for its operator,
\* "pipeline" for checks of the merge, "delivered" and "blocked".
TerminalTask(t) == t.state \in {"delivered", "blocked"}

Verdicts == {"satisfied", "gaps", "inconclusive"}

TaskStates == {"admitted", "candidate", "waiting", "pipeline", "delivered", "blocked"}
Decisions == {"branches_blocked", "plan_exhausted", "replacement_unavailable",
              "assessment_inconclusive"}
CampaignRecord ==
    [status : {"planning", "accepted", "blocked", "abandoned"}, authorized : BOOLEAN,
     superseded : BOOLEAN, handedOff : BOOLEAN, decision : Decisions \cup {Null},
     assess : BOOLEAN, checkpoint : BOOLEAN]
ProposalRecord ==
    [seq : Nat, status : {"planned", "ready", "blocked", "superseded"},
     blocker : {Null, "dependency", "authority", "repository"}, base : Nat, taskId : BOOLEAN,
     addition : BOOLEAN, replaces : BOOLEAN, supersedes : Proposals \cup {Null},
     supersededBy : Proposals \cup {Null}]
TaskRecord == [state : TaskStates, candidate : BOOLEAN, merged : Nat, base : Nat]
Evidence == [added : SUBSET Proposals, facts : SUBSET (Proposals \X TaskStates)]
AssessmentRecord == [id : Nat, evidence : Evidence, verdict : Verdicts, failed : BOOLEAN]
ReplacementRecord ==
    [assessment : Nat, failed : BOOLEAN,
     status : {"pending", "admitted", "invalid", "duplicate", "unavailable", "failed"}]

ASSUME NullAssumption ==
    /\ Null \notin CampaignRecord \cup ProposalRecord \cup TaskRecord
    /\ Null \notin AssessmentRecord \cup ReplacementRecord \cup Proposals

NewCampaign(c) ==
    [status |-> "planning", authorized |-> c \in HostAuthorized, superseded |-> FALSE,
     handedOff |-> FALSE, decision |-> Null, assess |-> FALSE, checkpoint |-> FALSE]
NewRow(seq, addition, replaces, supersedes) ==
    [seq |-> seq, status |-> "planned", blocker |-> Null, base |-> 0, taskId |-> FALSE,
     addition |-> addition, replaces |-> replaces, supersedes |-> supersedes,
     supersededBy |-> Null]

IsTerminal(status) == status # "planning"

(***************************************************************************)
(* Rows: what a transaction finds.  rows is [Proposals -> Row or Null].    *)
(***************************************************************************)
Present(rows) == {p \in Proposals : rows[p] # Null}
Standing(rows) == {p \in Present(rows) : rows[p].status # "superseded"}
Of(o) == {p \in Proposals : OutcomeOf[p] = o}

NextSequence(rows) == Cardinality(Present(rows)) + 1

\* campaignTaskLookup: a row finds its Task through the taskId it recorded.
TaskOf(c, rows, p) == IF rows[p].taskId THEN task[c][p] ELSE Null

Delivered(t) == t # Null /\ t.state = "delivered"
MergedAt(t) == t.merged

\* hasUsefulCampaignWork
UsefulWork(c, rows) ==
    \E p \in Standing(rows) :
        LET t == TaskOf(c, rows, p)
        IN  IF t # Null THEN ~TerminalTask(t) ELSE rows[p].status = "ready"

\* campaignAssessmentEvidence, with the Outcome's current criteria.
EvidenceOf(c, rows, o) ==
    [added |-> {p \in Present(rows) \cap Of(o) : rows[p].addition},
     facts |-> {<<p, TaskOf(c, rows, p).state>> :
        p \in {q \in Standing(rows) \cap Of(o) :
                  TaskOf(c, rows, q) # Null /\ TaskOf(c, rows, q).candidate}}]

\* resolveAssessmentReferences for textual criteria.
Supports(evidence) == \E f \in evidence.facts : f[2] = "delivered"

\* campaignOutcomeEvidence
OutcomeDelivered(c, rows, o) ==
    /\ Standing(rows) \cap Of(o) # {}
    /\ \A p \in Standing(rows) \cap Of(o) : Delivered(TaskOf(c, rows, p))

CurrentAssessment(c, rows, o) ==
    assessment[c][o] # Null /\ assessment[c][o].evidence = EvidenceOf(c, rows, o)

\* Fault: the verdict of the assessor is enough.
Satisfied_ByVerdict(c, rows, o) == assessment[c][o].verdict = "satisfied"

Satisfied(c, rows, o) ==
    /\ OutcomeDelivered(c, rows, o)
    /\ assessment[c][o].verdict = "satisfied"
    /\ Supports(assessment[c][o].evidence)

\* Fault: the recorded taskId stands for every sign of ownership.
Supersedable_ByTask(c, rows, o) ==
    {p \in Present(rows) \cap Of(o) : ~rows[p].taskId /\ rows[p].supersededBy = Null}

\* supersedableProposalIds
Supersedable(c, rows, o) ==
    {p \in Present(rows) \cap Of(o) :
        /\ rows[p].status \in {"planned", "blocked"}
        /\ rows[p].base = 0 /\ ~rows[p].taskId
        /\ ~rows[p].replaces /\ rows[p].supersededBy = Null
        /\ \A q \in Standing(rows) \ {p} : p \notin DependsOn[q]}

(***************************************************************************)
(* reconcile: the projection of every row, then of the Campaign.            *)
(***************************************************************************)
IsSuperseded(camps, c) ==
    \/ camps[c].superseded
    \/ \E d \in Campaigns : d > c /\ Goal[d] = Goal[c] /\ camps[d] # Null

Blocker(camps, rows, c, p, observed) ==
    IF ~camps[c].authorized \/ IsSuperseded(camps, c) \/ p \notin Authorized
        \/ OutcomeOf[p] \notin Live
    THEN "authority"
    ELSE IF rows[p].base = 0 /\ RepositoryOf[p] \notin DOMAIN observed
    THEN "repository"
    ELSE Null

Dependencies(rows, p) ==
    DependsOn[p] \cup
    {q \in Standing(rows) : OutcomeOf[q] \in OutcomeDependsOn[OutcomeOf[p]]}

SameRepository(p, d) == RepositoryOf[p] = RepositoryOf[d]

\* Fault: a dependent is released by any delivery.
DependencyBlocked_Reviewed(c, rows, p) ==
    \/ ~(DependsOn[p] \subseteq Standing(rows))
    \/ \E d \in Dependencies(rows, p) :
          TaskOf(c, rows, d) = Null \/ ~TaskOf(c, rows, d).candidate

DependencyBlocked(c, rows, p) ==
    \/ ~(DependsOn[p] \subseteq Standing(rows))
    \/ \E o \in OutcomeDependsOn[OutcomeOf[p]] : Standing(rows) \cap Of(o) = {}
    \/ \E d \in Dependencies(rows, p) :
          \/ ~Delivered(TaskOf(c, rows, d))
          \/ SameRepository(p, d) /\ d \notin Merging

\* The merge of the same-Repository dependency with the highest sequence.
DependencyBase(c, rows, p) ==
    LET merged == {d \in Dependencies(rows, p) : SameRepository(p, d)}
    IN  IF merged = {} THEN 0
        ELSE MergedAt(task[c][CHOOSE d \in merged :
                 \A e \in merged : rows[d].seq >= rows[e].seq])

ReconciledRow(camps, rows, c, p, observed) ==
    LET r == rows[p]
        blocker == Blocker(camps, rows, c, p, observed)
        waits == blocker = Null /\ DependencyBlocked(c, rows, p)
        status == IF blocker # Null THEN "blocked" ELSE IF waits THEN "planned" ELSE "ready"
        base == IF status = "ready" /\ RepositoryOf[p] \in DOMAIN observed
                THEN LET d == DependencyBase(c, rows, p)
                     IN  IF d # 0 THEN d ELSE observed[RepositoryOf[p]]
                ELSE 0
    IN  [r EXCEPT !.status = status,
                  !.blocker = IF waits THEN "dependency" ELSE blocker,
                  !.base = IF r.base # 0 THEN r.base ELSE base]

\* Fault: the base of a Ready proposal follows the Repository's head.
ReconciledRows_Repinned(camps, rows, c, observed) ==
    [p \in Proposals |->
        IF p \in Standing(rows)
        THEN ReconciledRow(camps, [rows EXCEPT ![p].base = 0], c, p, observed)
        ELSE rows[p]]

ReconciledRows(camps, rows, c, observed) ==
    [p \in Proposals |->
        IF p \in Standing(rows) THEN ReconciledRow(camps, rows, c, p, observed) ELSE rows[p]]

FirstDecision(camp, reason) == IF camp.decision = Null THEN reason ELSE camp.decision

\* The run of the planner for the assessment of o that still stands.
NoFeasibleReplacement(c, o) ==
    LET r == replacement[c][o]
    IN  r # Null /\ r.assessment = assessment[c][o].id /\ r.status = "unavailable" /\ ~r.failed

\* The verdict on a Campaign whose frontier is exhausted and whose assessments are current.
AfterFailure(camp, rows, c, o) ==
    LET blocked == \E p \in Present(rows) : rows[p].status = "blocked"
        retryable ==
            \/ assessment[c][o].verdict = "gaps" /\ ~NoFeasibleReplacement(c, o)
            \/ assessment[c][o].failed
    IN  IF blocked \/ ~retryable
        THEN [camp EXCEPT !.status = "blocked",
                !.decision = IF blocked THEN "branches_blocked"
                             ELSE IF NoFeasibleReplacement(c, o) THEN "replacement_unavailable"
                             ELSE "assessment_inconclusive"]
        ELSE [camp EXCEPT !.status = "planning", !.decision = Null]

ReconciledStatus(camp, rows, c) ==
    LET current == {o \in Live : CurrentAssessment(c, rows, o)}
        failing == {o \in current : ~Satisfied(c, rows, o)}
        useful == UsefulWork(c, rows)
    IN  CASE ~camp.authorized ->
                [camp EXCEPT !.status = "blocked",
                             !.decision = FirstDecision(camp, "branches_blocked")]
          [] camp.authorized /\ Live = {} ->
                IF useful THEN camp
                ELSE [camp EXCEPT !.status = "blocked",
                                  !.decision = FirstDecision(camp, "plan_exhausted")]
          [] camp.authorized /\ Live # {} /\ current = Live /\ failing = {} ->
                [camp EXCEPT !.status = "accepted", !.decision = Null]
          [] camp.authorized /\ current = Live /\ failing # {} /\ ~useful ->
                AfterFailure(camp, rows, c, Min(failing))
          [] OTHER -> camp

ReconciledCampaign(camps, rows, c) ==
    LET superseded == IsSuperseded(camps, c)
        camp == IF ~superseded /\ camps[c].handedOff /\ ~IsTerminal(camps[c].status)
                THEN ReconciledStatus(camps[c], rows, c)
                ELSE camps[c]
        answered == \/ camp.status = "accepted"
                    \/ camp.status = "blocked" /\ camp.decision # Null
    IN  [camp EXCEPT !.superseded = superseded,
                     !.checkpoint = @ /\ ~answered]

\* observeRepositoryHeads: read before the transaction, so any commit the checkout has
\* been at; a Repository that cannot be read is not observed.
Observations ==
    UNION {[seen -> 1..MaxCommit] : seen \in {Repositories \ gone : gone \in SUBSET Unavailable}}
Observable(observed) == \A r \in DOMAIN observed : observed[r] <= main[r]

\* reconcileAll, in a transaction that has made camps and rows of the tables: a Campaign is
\* judged by the rows it has after its proposals are.
ReconcileAll(camps, rows, observed) ==
    /\ Observable(observed)
    /\ \E next \in {[c \in Campaigns |->
            IF camps[c] = Null THEN rows[c] ELSE ReconciledRows(camps, rows[c], c, observed)]} :
        /\ row' = next
        /\ campaign' = [c \in Campaigns |->
              IF camps[c] = Null THEN Null ELSE ReconciledCampaign(camps, next[c], c)]

\* The Campaigns a server starts with: published, their plan proposed, not handed off.
CampaignsInit(published, plan) ==
    LET camps == [c \in Campaigns |-> IF c \in published THEN NewCampaign(c) ELSE Null]
        proposed(c) == [p \in Proposals |->
            IF \E i \in 1..Len(plan[c]) : plan[c][i] = p
            THEN NewRow(CHOOSE i \in 1..Len(plan[c]) : plan[c][i] = p, FALSE, FALSE, Null)
            ELSE Null]
        heads == [r \in Repositories |-> 1]
    IN  /\ campaign = camps
        /\ row = [c \in Campaigns |->
              IF c \in published THEN ReconciledRows(camps, proposed(c), c, heads)
              ELSE [p \in Proposals |-> Null]]
        /\ task = [c \in Campaigns |-> [p \in Proposals |-> Null]]
        /\ assessment = [c \in Campaigns |-> [o \in Outcomes |-> Null]]
        /\ replacement = [c \in Campaigns |-> [o \in Outcomes |-> Null]]
        /\ pendingRuns = {}
        /\ main = heads

(***************************************************************************)
(* The entry points of the API; each is one exclusive transaction.          *)
(***************************************************************************)
PublishCampaign(c, observed) ==
    /\ campaign[c] = Null
    /\ ReconcileAll([campaign EXCEPT ![c] = NewCampaign(c)], row, observed)
    /\ UNCHANGED <<task, assessment, replacement, pendingRuns, main>>

Open(c) == campaign[c] # Null /\ ~campaign[c].superseded /\ ~IsTerminal(campaign[c].status)

ProposeCampaign(c, p, observed) ==
    LET camp == campaign[c]
        addition == camp.handedOff /\ camp.authorized /\ p \in Authorized /\ OutcomeOf[p] \in Live
    IN  /\ Open(c) /\ row[c][p] = Null
        /\ ReconcileAll(
              IF camp.handedOff THEN [campaign EXCEPT ![c].decision = Null] ELSE campaign,
              [row EXCEPT ![c][p] = NewRow(NextSequence(row[c]), addition, FALSE, Null)],
              observed)
        /\ UNCHANGED <<task, assessment, replacement, pendingRuns, main>>

HandoffCampaign(c, observed) ==
    /\ campaign[c] # Null
    /\ ReconcileAll(
          IF IsTerminal(campaign[c].status) THEN campaign
          ELSE [campaign EXCEPT ![c].handedOff = TRUE],
          row, observed)
    /\ UNCHANGED <<task, assessment, replacement, pendingRuns, main>>

CheckpointCampaign(c, observed) ==
    LET needed == \E o \in Live : ~CurrentAssessment(c, row[c], o)
        gaps == \E o \in Live :
            CurrentAssessment(c, row[c], o) /\ assessment[c][o].verdict = "gaps"
    IN  /\ campaign[c] # Null /\ campaign[c].handedOff /\ ~IsTerminal(campaign[c].status)
        /\ ReconcileAll(
              IF ~campaign[c].assess /\ (needed \/ gaps)
              THEN [campaign EXCEPT ![c].assess = needed, ![c].checkpoint = TRUE]
              ELSE campaign,
              row, observed)
        /\ UNCHANGED <<task, assessment, replacement, pendingRuns, main>>

AbandonCampaign(c) ==
    /\ campaign[c] # Null
    /\ campaign' = IF campaign[c].status \in {"accepted", "abandoned"} THEN campaign
                   ELSE [campaign EXCEPT ![c].status = "abandoned", ![c].decision = Null]
    /\ UNCHANGED <<row, task, assessment, replacement, pendingRuns, main>>

Reconcile(observed) ==
    /\ ReconcileAll(campaign, row, observed)
    /\ UNCHANGED <<task, assessment, replacement, pendingRuns, main>>

(***************************************************************************)
(* Task Authority, for the Tasks of Campaigns.                              *)
(***************************************************************************)
Active == {k \in Campaigns \X Proposals :
              task[k[1]][k[2]] # Null /\ ~TerminalTask(task[k[1]][k[2]])}
WriterBusy(r) == \E k \in Active : RepositoryOf[k[2]] = r

NewTask(c, p) ==
    [state |-> "admitted", candidate |-> FALSE, merged |-> 0, base |-> row[c][p].base]
SetTask(c, p, t) == task' = [task EXCEPT ![c][p] = t]

(***************************************************************************)
(* Model work: reservation, observation and admission of a replacement.     *)
(***************************************************************************)

\* campaignIsLiveForModelWork
LiveForModelWork(c) ==
    /\ ~campaign[c].superseded /\ campaign[c].handedOff /\ campaign[c].authorized
    /\ campaign[c].status = "planning"

\* assessmentTargets
AssessmentTargets ==
    {[c |-> k[1], o |-> k[2], evidence |-> EvidenceOf(k[1], row[k[1]], k[2])] :
        k \in {x \in Campaigns \X Live :
            LET c == x[1]
                o == x[2]
            IN  /\ campaign[c] # Null
                /\ campaign[c].handedOff /\ campaign[c].authorized
                /\ ~IsTerminal(campaign[c].status)
                /\ ~UsefulWork(c, row[c]) \/ campaign[c].assess \/ campaign[c].checkpoint
                /\ CurrentAssessment(c, row[c], o) => assessment[c][o].failed}}

Run(c, o, role, evidence) == [c |-> c, o |-> o, role |-> role, evidence |-> evidence]

\* reserveCampaignModelRun
CanReserveRun(run) == LiveForModelWork(run.c) /\ run \notin pendingRuns

\* persistCampaignAssessment: the observation always, the assessment when its lineage is current.
AttemptsMade(c, o) == IF assessment[c][o] = Null THEN 0 ELSE assessment[c][o].id

\* Fault: the answer is not compared with what has become of its question.
PersistAssessment_Unfenced(t, verdict, failed, cancelled) ==
    LET valid == IF verdict = "satisfied" /\ ~Supports(t.evidence) THEN "inconclusive" ELSE verdict
    IN  /\ pendingRuns' = pendingRuns \ {Run(t.c, t.o, "assessor", t.evidence)}
        /\ IF cancelled THEN UNCHANGED <<assessment, campaign>>
           ELSE /\ assessment' = [assessment EXCEPT ![t.c][t.o] =
                      [id |-> AttemptsMade(t.c, t.o) + 1, evidence |-> t.evidence,
                       verdict |-> valid, failed |-> failed]]
                /\ campaign' = [campaign EXCEPT ![t.c].assess = FALSE]
        /\ UNCHANGED <<row, task, replacement, main>>

PersistAssessment(t, verdict, failed, cancelled) ==
    LET current ==
            /\ LiveForModelWork(t.c)
            /\ EvidenceOf(t.c, row[t.c], t.o) = t.evidence
        \* validateAssessment: a satisfied verdict must resolve.
        valid == IF verdict = "satisfied" /\ ~Supports(t.evidence) THEN "inconclusive" ELSE verdict
    IN  /\ pendingRuns' = pendingRuns \ {Run(t.c, t.o, "assessor", t.evidence)}
        /\ IF cancelled \/ ~current THEN UNCHANGED <<assessment, campaign>>
           ELSE /\ assessment' = [assessment EXCEPT ![t.c][t.o] =
                      [id |-> AttemptsMade(t.c, t.o) + 1, evidence |-> t.evidence,
                       verdict |-> valid, failed |-> failed]]
                /\ campaign' = [campaign EXCEPT ![t.c].assess = FALSE]
        /\ UNCHANGED <<row, task, replacement, main>>

\* replacementTargets, and currentReplacementTarget for a target taken earlier.
NeedsReplacement(c, o) ==
    LET rows == row[c]
    IN  /\ campaign[c] # Null /\ LiveForModelWork(c)
        /\ UsefulWork(c, rows) => campaign[c].checkpoint
        /\ CurrentAssessment(c, rows, o) /\ assessment[c][o].verdict = "gaps"

Revisable(c, o) == IF campaign[c].checkpoint THEN Supersedable(c, row[c], o) ELSE {}

OutcomeUsefulWork(c, o) ==
    \E p \in Standing(row[c]) \cap Of(o) :
        LET t == TaskOf(c, row[c], p)
        IN  IF t # Null THEN ~TerminalTask(t) ELSE row[c][p].status = "ready"

LatestReplacement(c, o) ==
    IF replacement[c][o] # Null /\ replacement[c][o].assessment = assessment[c][o].id
    THEN replacement[c][o].status ELSE "none"

ReplacementTargets ==
    {k \in Campaigns \X Live :
        /\ NeedsReplacement(k[1], k[2])
        /\ OutcomeUsefulWork(k[1], k[2]) => Revisable(k[1], k[2]) # {}
        /\ LatestReplacement(k[1], k[2]) \notin {"pending", "admitted"}}

ReplacementTarget(c, o) ==
    [c |-> c, o |-> o, evidence |-> assessment[c][o].evidence,
     assessment |-> assessment[c][o].id, checkpoint |-> campaign[c].checkpoint]

StillCurrent(t) ==
    /\ NeedsReplacement(t.c, t.o)
    /\ campaign[t.c].checkpoint = t.checkpoint
    /\ assessment[t.c][t.o].id = t.assessment

\* reserveReplacementRun
ReserveReplacement(t) ==
    /\ replacement' = [replacement EXCEPT ![t.c][t.o] =
          [assessment |-> t.assessment, status |-> "pending", failed |-> FALSE]]
    /\ UNCHANGED <<campaign, row, task, assessment, pendingRuns, main>>

\* replacementValidation of a draft that is not null.
ReplacementStatus(t, p, supersedes) ==
    LET rows == row[t.c]
        lineage == IF Revisable(t.c, t.o) # {} THEN supersedes \in Revisable(t.c, t.o)
                   ELSE supersedes = Null
    IN  IF \/ ~lineage
           \/ OutcomeOf[p] # t.o
           \/ supersedes \in DependsOn[p]
           \/ ~(DependsOn[p] \subseteq Standing(rows) \ {p})
           \/ p \notin Authorized
        THEN "invalid"
        ELSE IF rows[p] # Null THEN "duplicate" ELSE "admitted"

WithReplacement(rows, p, supersedes) ==
    LET added == [rows EXCEPT ![p] = NewRow(NextSequence(rows), FALSE, TRUE, supersedes)]
    IN  IF supersedes = Null THEN added
        ELSE [added EXCEPT ![supersedes].status = "superseded",
                           ![supersedes].blocker = Null,
                           ![supersedes].supersededBy = p]

\* persistReplacementResult; draft is Null or [p, supersedes].
PersistReplacement(t, draft, failed, cancelled) ==
    LET current == StillCurrent(t)
        status == IF cancelled THEN "failed"
                  ELSE IF draft = Null THEN "unavailable"
                  ELSE IF current THEN ReplacementStatus(t, draft.p, draft.supersedes)
                  ELSE "invalid"
        rows == IF status = "admitted"
                THEN WithReplacement(row[t.c], draft.p, draft.supersedes) ELSE row[t.c]
        retain == /\ t.checkpoint
                  /\ IF status = "admitted"
                     THEN \E o \in Live : Supersedable(t.c, rows, o) # {}
                     ELSE failed \/ status \in {"invalid", "duplicate"}
    IN  /\ pendingRuns' = pendingRuns \ {Run(t.c, t.o, "replacement-planner", t.evidence)}
        /\ replacement' = [replacement EXCEPT ![t.c][t.o] =
              [assessment |-> t.assessment, status |-> status, failed |-> failed \/ cancelled]]
        /\ row' = [row EXCEPT ![t.c] = rows]
        /\ campaign' = IF current /\ ~cancelled
                       THEN [campaign EXCEPT ![t.c].status = "planning", ![t.c].decision = Null,
                                             ![t.c].checkpoint = retain]
                       ELSE campaign
        /\ UNCHANGED <<task, assessment, main>>

\* recoverPendingCampaignRuns: a reservation without an observation is not a run.
RecoverPending ==
    LET interrupted(c) ==
            \E o \in Outcomes : replacement[c][o] # Null /\ replacement[c][o].status = "pending"
    IN  /\ pendingRuns' = {}
        /\ replacement' = [c \in Campaigns |-> [o \in Outcomes |->
              IF replacement[c][o] # Null /\ replacement[c][o].status = "pending"
              THEN [replacement[c][o] EXCEPT !.status = "failed", !.failed = TRUE]
              ELSE replacement[c][o]]]
        /\ campaign' = [c \in Campaigns |->
              IF campaign[c] # Null /\ interrupted(c) /\ Open(c)
              THEN [campaign[c] EXCEPT !.decision = Null] ELSE campaign[c]]

====
